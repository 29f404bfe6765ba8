---------------------------- MODULE MCQueryCache ----------------------------
(***************************************************************************)
(* QueryCache for TLC.  A behaviour keeps to one of two parts of the       *)
(* instance: two connections with native transactions over a table and a   *)
(* view that reads it, or a third connection with a durable branch over    *)
(* the table, also resolved through the recovery manager.                  *)
(***************************************************************************)
EXTENDS QueryCache, TLC

CONSTANTS table, view, c1, c2, c3, b1, w1,
    NativeCalls      \* bound: calls in the native part
VARIABLE part

MCDependents == (table :> {view}) @@ (view :> {})
MCReads == (table :> {table}) @@ (view :> {table, view})
Symmetry == Permutations({c1, c2})

\* Changes are made to the table, not to the view.
TableWritten ==
    \A c \in Conn : /\ view \notin written[c]
                    /\ op[c].call = "mutate" => view \notin op[c].writes

\* The view stays unused.
TableOnly ==
    /\ \A r \in Reader : reader[r] # Idle => reader[r].entity = table
    /\ TableWritten

\* The third connection has no native transactions, and changes the table once,
\* in its branch.
BranchChanges ==
    /\ tx[c3] # "local"
    /\ op[c3].call = "mutate" => tx[c3] # "none" /\ changed[c3] = {}

CacheInit == Init /\ part \in {"native", "durable"}

NativeNext ==
    /\ \/ \E r \in Reader : ReaderStep(r)
       \/ \E c \in {c1, c2} : ConnStep(c)
       \/ SourceChange(table)
       \/ Invalidate({table})
       \/ InvalidateAll
    /\ calls' <= NativeCalls /\ UNCHANGED branch /\ TableWritten'

DurableNext ==
    /\ \/ \E r \in Reader : ReaderStep(r)
       \/ ConnStep(c3)
       \/ \E w \in Worker : WorkerStep(w)
       \/ \E b \in Branch : Heuristic(b)
    /\ TableOnly' /\ BranchChanges'

CacheNext ==
    \/ part = "native" /\ NativeNext /\ UNCHANGED part
    \/ part = "durable" /\ DurableNext /\ UNCHANGED part

CacheSpec == CacheInit /\ [][CacheNext]_<<vars, part>>
=============================================================================
