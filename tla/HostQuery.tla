----------------------------- MODULE HostQuery -----------------------------
(***************************************************************************)
(* The fan-out of a host query (query/stream.go): a stream that hands the  *)
(* targets of the query to a bounded number of workers, collects one event *)
(* per target, and returns batches, an outcome or an error to its caller.  *)
(*                                                                         *)
(* What a worker does for a target is HostScan; here it ends with rows,    *)
(* with rows and warnings, or with a failure.  The channels have no        *)
(* buffer: a send and its receive are one step.  The caller is the Query   *)
(* handler of the SDK, which calls Next until it fails or is at the end,   *)
(* and then Close; its request's context is the parent of the stream's,    *)
(* and the one it passes to Next.  RowsPerTarget rows of a target are      *)
(* represented by as many copies of the target.                            *)
(***************************************************************************)
EXTENDS Naturals, Sequences, FiniteSets, SequencesExt, FiniteSetsExt

CONSTANTS
    Target,          \* hosts the query was planned for
    Worker,          \* MaxConcurrentTargets of them; main refuses none
    RowsPerTarget,   \* rows a successful scan returns
    BatchSize,       \* rows of a batch
    NoTarget         \* no target

ASSUME QueryAssumption ==
    /\ IsFiniteSet(Target) /\ IsFiniteSet(Worker) /\ Worker # {}
    /\ RowsPerTarget \in Nat /\ BatchSize \in Nat \ {0}
    /\ NoTarget \notin Target

VARIABLES
    request,                   \* what the request allows
    requestDone, streamDone,   \* contexts: of the request, of the stream
    todo, jobsClosed,          \* the feeding goroutine
    worker,                    \* workers
    eventsClosed,              \* events and done are closed
    stream,                    \* distributedStream
    queryCaller,               \* the caller of Next and Close
    returned                   \* rows returned to the caller

contexts == <<requestDone, streamDone>>
feeder == <<todo, jobsClosed>>
queryVars == <<request, contexts, feeder, worker, eventsClosed, stream, queryCaller, returned>>

Event == {"rows", "warnings", "failure"}

NoWork == [pc |-> "idle", target |-> NoTarget, event |-> "rows"]

QueryTypeOK ==
    /\ request \in [allowPartial : BOOLEAN, acceptOutcome : BOOLEAN]
    /\ requestDone \in BOOLEAN /\ streamDone \in BOOLEAN
    /\ (requestDone => streamDone)
    /\ todo \in SUBSET Target /\ jobsClosed \in BOOLEAN
    /\ worker \in [Worker -> [pc : {"idle", "scanning", "offering", "exited"},
                              target : Target \cup {NoTarget}, event : Event]]
    /\ eventsClosed \in BOOLEAN
    /\ stream \in [remaining : 0 .. Cardinality(Target), pending : Seq(Target),
                   failed : SUBSET Target, warned : SUBSET Target,
                   outcome : {"none", "complete", "partial"}]
    /\ queryCaller \in {"calling", "looping", "selecting", "end", "error", "closing",
                   "closed"}
    /\ returned \in Seq(Target)

\* newDistributedStream: no more workers than targets.
QueryInit ==
    /\ request \in [allowPartial : BOOLEAN, acceptOutcome : BOOLEAN]
    /\ (request.allowPartial => request.acceptOutcome)
    /\ requestDone = FALSE /\ streamDone = FALSE
    /\ todo = Target /\ jobsClosed = FALSE
    /\ \E W \in SUBSET Worker :
          /\ Cardinality(W) = Min({Cardinality(Worker), Cardinality(Target)})
          /\ worker = [w \in Worker |->
                         IF w \in W THEN NoWork ELSE [NoWork EXCEPT !.pc = "exited"]]
    /\ eventsClosed = FALSE
    /\ stream = [remaining |-> Cardinality(Target), pending |-> <<>>, failed |-> {},
                 warned |-> {}, outcome |-> "none"]
    /\ queryCaller = "calling"
    /\ returned = <<>>

(***************************************************************************)
(* The goroutines of the stream.                                           *)
(***************************************************************************)
\* The targets are handed over in their order; which one is first is of no
\* importance here.
Feed(w) ==
    /\ ~jobsClosed /\ worker[w].pc = "idle"
    /\ \E t \in todo :
          /\ todo' = todo \ {t}
          /\ worker' = [worker EXCEPT ![w] = [pc |-> "scanning", target |-> t,
                                              event |-> "rows"]]
    /\ UNCHANGED <<request, contexts, jobsClosed, eventsClosed, stream, queryCaller, returned>>

FeedEnd ==
    /\ ~jobsClosed /\ (todo = {} \/ streamDone)
    /\ jobsClosed' = TRUE
    /\ UNCHANGED <<request, contexts, todo, worker, eventsClosed, stream, queryCaller, returned>>

\* scanTarget returns.
Scanned(w) ==
    /\ worker[w].pc = "scanning"
    /\ \E e \in Event :
          worker' = [worker EXCEPT ![w].pc = "offering", ![w].event = e]
    /\ UNCHANGED <<request, contexts, feeder, eventsClosed, stream, queryCaller, returned>>

MutExit(w) ==
    /\ worker[w].pc = "idle" /\ jobsClosed
    /\ worker' = [worker EXCEPT ![w] = [NoWork EXCEPT !.pc = "exited"]]
    /\ UNCHANGED <<request, contexts, feeder, eventsClosed, stream, queryCaller, returned>>

\* A worker returns when there are no more jobs, or when nobody takes its event
\* and the stream is cancelled.
Exit(w) ==
    /\ \/ worker[w].pc = "idle" /\ jobsClosed
       \/ worker[w].pc = "offering" /\ streamDone
    /\ worker' = [worker EXCEPT ![w] = [NoWork EXCEPT !.pc = "exited"]]
    /\ UNCHANGED <<request, contexts, feeder, eventsClosed, stream, queryCaller, returned>>

MutCloseEvents ==
    /\ ~eventsClosed /\ jobsClosed
    /\ eventsClosed' = TRUE
    /\ UNCHANGED <<request, contexts, feeder, worker, stream, queryCaller, returned>>

CloseEvents ==
    /\ ~eventsClosed /\ \A w \in Worker : worker[w].pc = "exited"
    /\ eventsClosed' = TRUE
    /\ UNCHANGED <<request, contexts, feeder, worker, stream, queryCaller, returned>>

(***************************************************************************)
(* The stream's methods.                                                   *)
(***************************************************************************)
Call ==
    /\ queryCaller = "calling"
    /\ queryCaller' = IF requestDone THEN "error" ELSE "looping"
    /\ UNCHANGED <<request, contexts, feeder, worker, eventsClosed, stream, returned>>

finishOutcome ==
    [stream EXCEPT !.outcome = IF stream.failed = {} THEN "complete" ELSE "partial"]

\* The head of the loop: a batch of what is pending, the end of the stream with
\* its outcome, or a wait.
Loop ==
    LET n == Min({BatchSize, Len(stream.pending)})
    IN  /\ queryCaller = "looping"
        /\ \/ /\ stream.pending # <<>>
              /\ returned' = returned \o SubSeq(stream.pending, 1, n)
              /\ stream' = [stream EXCEPT !.pending = SubSeq(@, n + 1, Len(@))]
              /\ queryCaller' = "calling"
           \/ /\ stream.pending = <<>> /\ stream.remaining = 0
              /\ stream' = finishOutcome
              /\ queryCaller' = "end"
              /\ UNCHANGED returned
           \/ /\ stream.pending = <<>> /\ stream.remaining > 0
              /\ queryCaller' = "selecting"
              /\ UNCHANGED <<stream, returned>>
        /\ UNCHANGED <<request, contexts, feeder, worker, eventsClosed>>

\* The event is the stream's terminal error.
Refused(e) ==
    \/ e = "failure" /\ ~request.allowPartial
    \/ e = "warnings" /\ ~request.acceptOutcome

\* An event of a worker is received.
Take(w) ==
    LET e == worker[w].event
        t == worker[w].target
        rows == [i \in 1 .. RowsPerTarget |-> t]
    IN  /\ queryCaller = "selecting" /\ worker[w].pc = "offering"
        /\ worker' = [worker EXCEPT ![w] = NoWork]
        /\ IF Refused(e)
           THEN /\ stream' = [stream EXCEPT !.remaining = @ - 1]
                /\ streamDone' = TRUE
                /\ queryCaller' = "error"
           ELSE /\ stream' = [stream EXCEPT
                        !.remaining = @ - 1,
                        !.failed = IF e = "failure" THEN @ \cup {t} ELSE @,
                        !.warned = IF e # "rows" THEN @ \cup {t} ELSE @,
                        !.pending = IF e = "failure" THEN @ ELSE @ \o rows]
                /\ queryCaller' = "looping"
                /\ UNCHANGED streamDone
        /\ UNCHANGED <<request, requestDone, feeder, eventsClosed, returned>>

\* The closed channel of events is received from.
TakeClosed ==
    /\ queryCaller = "selecting" /\ eventsClosed
    /\ stream' = [stream EXCEPT !.remaining = 0]
    /\ queryCaller' = "looping"
    /\ UNCHANGED <<request, contexts, feeder, worker, eventsClosed, returned>>

TakeCancelled ==
    /\ queryCaller = "selecting" /\ streamDone
    /\ queryCaller' = "error"
    /\ UNCHANGED <<request, contexts, feeder, worker, eventsClosed, stream, returned>>

\* Close cancels the stream and waits for the workers.  The handler closes
\* after the end, an error, or when it cannot send a batch.
Close ==
    /\ queryCaller \in {"end", "error", "calling"}
    /\ streamDone' = TRUE
    /\ queryCaller' = "closing"
    /\ UNCHANGED <<request, requestDone, feeder, worker, eventsClosed, stream, returned>>

Closed ==
    /\ queryCaller = "closing" /\ eventsClosed
    /\ queryCaller' = "closed"
    /\ UNCHANGED <<request, contexts, feeder, worker, eventsClosed, stream, returned>>

\* The client cancels the query, or its deadline passes.
CancelRequest ==
    /\ ~requestDone
    /\ requestDone' = TRUE /\ streamDone' = TRUE
    /\ UNCHANGED <<request, feeder, worker, eventsClosed, stream, queryCaller, returned>>

(***************************************************************************)
(* Next-state relation.                                                    *)
(***************************************************************************)
WorkerStep(w) == Feed(w) \/ Scanned(w) \/ Exit(w) \/ Take(w)

QueryNext ==
    \/ \E w \in Worker : WorkerStep(w)
    \/ FeedEnd \/ CloseEvents
    \/ Call \/ Loop \/ TakeClosed \/ TakeCancelled \/ Close \/ Closed
    \/ CancelRequest

QuerySpec == QueryInit /\ [][QueryNext]_queryVars

\* Goroutines run; a scan ends because it has a deadline.  Nothing is assumed
\* of the caller, except that Close, once called, goes on.
QueryFairness ==
    /\ \A w \in Worker : WF_queryVars(Scanned(w)) /\ WF_queryVars(Exit(w))
    /\ WF_queryVars(FeedEnd) /\ WF_queryVars(CloseEvents) /\ WF_queryVars(Closed)

QueryLiveSpec == QuerySpec /\ QueryFairness

(***************************************************************************)
(* Properties.                                                             *)
(***************************************************************************)
\* How many rows of a target were returned.
RowsOf(t) == Cardinality({i \in DOMAIN returned : returned[i] = t})

\* Every row of every target was returned once, the failed ones' excepted.
Whole(failed) ==
    \A t \in Target : RowsOf(t) = IF t \in failed THEN 0 ELSE RowsPerTarget

\* A query that ends and was not cancelled accounts for every target: its rows
\* are all returned, once, or its failure is a warning of the outcome, which is
\* then partial and was allowed (newDistributedStream, Next, finishOutcome).  No
\* target is counted twice on the way: remaining keeps its type.
Accounted ==
    /\ QueryTypeOK
    /\ stream.outcome # "none" /\ ~requestDone =>
        /\ Whole(stream.failed)
        /\ stream.failed \subseteq stream.warned
        /\ stream.outcome = "partial" <=> stream.failed # {}
        /\ stream.failed # {} => request.allowPartial
        /\ stream.warned # {} => request.acceptOutcome

\* Close waits for the workers: when it has returned none of them is left, so
\* none uses the session of a target any more (Close, newDistributedStream).
ClosedQuiet ==
    queryCaller = "closed" => \A w \in Worker : worker[w].pc = "exited"

\* Both of them: what a query returned accounts for its targets, and what it
\* started is gone when it is closed (newDistributedStream, Next, Close).
RowsAccounted == Accounted /\ ClosedQuiet

\* Close returns, and the goroutine that feeds the workers ends too.
CloseReturns == (queryCaller = "closing") ~> (queryCaller = "closed" /\ jobsClosed)

\* A failed or cancelled query stops its workers even if it is never closed.
FailureStops == streamDone ~> eventsClosed

\* A query's goroutines end: because it was closed, and because it failed
\* (newDistributedStream, Close).
QueryCloses == CloseReturns /\ FailureStops
=============================================================================
