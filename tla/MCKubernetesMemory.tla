------------------------- MODULE MCKubernetesMemory -------------------------
(***************************************************************************)
(* The Kubernetes and the in-memory provider for TLC.  A behaviour runs    *)
(* one of them.  The Kubernetes provider stays in one of its initial       *)
(* states, and the variables of the in-memory provider are Off, when it    *)
(* does not run.                                                           *)
(***************************************************************************)
EXTENDS MCKubernetes

CONSTANTS c1, Off

VARIABLES part, tasks, nextID, conns, lobStream, lobCount, writes, op

Cases == INSTANCE InMemoryCases WITH IntegerMax <- 6, Digits <- 3
Queries == Cases!MCQueries
Inserts == Cases!MCInserts
Updates == Cases!MCUpdates
Deletes == Cases!MCDeletes
LobReads == Cases!MCLobReads

Memory == INSTANCE InMemoryProvider WITH
    IntegerMax <- 6, Digits <- 3, Conn <- {c1}, MaxLobBytes <- 3, MaxChunkBytes <- 2,
    MaxWrites <- 2, MaxLobs <- 1

memoryVars == <<tasks, nextID, conns, lobStream, lobCount, writes, op>>

BothInit ==
    /\ part \in {"kubernetes", "memory"} /\ KubeInit
    /\ IF part = "memory"
       THEN /\ Memory!Init
            /\ failed = {} /\ version = CHOOSE v \in Versions : TRUE
            /\ config = CHOOSE c \in {normalizeConfig(raw) : raw \in RawConfigs} \ {Rejected} : TRUE
       ELSE /\ tasks = Off /\ nextID = Off /\ conns = Off /\ lobStream = Off
            /\ lobCount = Off /\ writes = Off /\ op = Off

BothNext ==
    \/ part = "kubernetes" /\ KubeNext /\ UNCHANGED <<part, memoryVars>>
    \/ part = "memory" /\ Memory!Next /\ UNCHANGED <<part, kubeVars>>

BothSpec == BothInit /\ [][BothNext]_<<part, kubeVars, memoryVars>>

\* A query of the in-memory provider is answered with exactly the rows, groups
\* and aggregates that SQL defines, or refused, and a LOB read returns exactly
\* the bytes asked for (executeQuery, executeAggregateQuery, ReadLob).
AnswersExact ==
    part = "memory" => Memory!RowsExact /\ Memory!AggregatesExact /\ Memory!LobReadExact

\* A mutation of either provider changes what it names and nothing else, and
\* has done what it answers (Insert, Update, Delete).
MutationsExact == WritesConfined /\ AssignedStored /\ Memory!MutationsExact
=============================================================================
