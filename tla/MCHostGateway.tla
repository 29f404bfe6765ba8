--------------------------- MODULE MCHostGateway ---------------------------
(***************************************************************************)
(* The gateway and the query coordinator of the host provider for TLC.  A  *)
(* behaviour runs either the streams of one host or the fan-out of one     *)
(* query over its targets; the other part stays in its initial state, in   *)
(* which no action of its fairness is enabled.                             *)
(***************************************************************************)
EXTENDS HostGateway, HostQuery, TLC

CONSTANTS host
VARIABLE part

MCHostOf == [s \in Stream |-> host]

\* A worker scans a second target, and a batch ends within a target's rows.
ASSUME InstanceAssumption ==
    /\ Cardinality(Target) > Cardinality(Worker)
    /\ BatchSize % RowsPerTarget # 0

HostVars == <<vars, queryVars, part>>

HostInit ==
    /\ part \in {"gateway", "query"} /\ Init /\ QueryInit
    /\ part = "gateway" => request.allowPartial

HostNext ==
    \/ part = "gateway" /\ Next /\ UNCHANGED <<queryVars, part>>
    \/ part = "query" /\ QueryNext /\ UNCHANGED <<vars, part>>

HostSpec == HostInit /\ [][HostNext]_HostVars /\ Fairness /\ QueryFairness
=============================================================================
