----------------------------- MODULE MCProviders -----------------------------
(***************************************************************************)
(* The providers for TLC.  A behaviour runs one of four parts: the shared  *)
(* sessions of the Cassandra, Redis and Kubernetes providers, or the calls *)
(* of the Redis, the Cassandra or the OpenAPI provider.                    *)
(* The sessions stay in their initial state, in which no action of their   *)
(* fairness is enabled, and the variables of other parts are Off, when     *)
(* they do not run.                                                        *)
(***************************************************************************)
EXTENDS SharedSessions, TLC

CONSTANTS n1, n2, k1, k2, Off

VARIABLES
    part,
    db, call, answer, calls, faults,                                           \* Redis
    rows, stream, reader, statements, breaks,                                  \* Cassandra
    provider, connected, store, server, apiStream, apiReader, last, apiCalls, troubles   \* OpenAPI

TwoNamespaces == <<n1, n2>>

-----------------------------------------------------------------------------
RC == INSTANCE RedisCases WITH Text <- {}
RedisText == RC!MCText
Numerals == RC!MCNumerals
RedisSchema == RC!MCSchema
RedisSeed == RC!MCSeed
Requests == RC!MCRequests

R == INSTANCE Redis WITH
    Client <- {k1, k2}, Text <- RedisText, Schema <- RedisSchema, Seed <- RedisSeed, ByteMax <- 5,
    MaxScannedKeys <- 2, MaxCalls <- 2, MaxFaults <- 1

CC == INSTANCE CassandraCases WITH Text <- {}
Columns == CC!MCColumns
OrderedColumns == CC!MCOrderedColumns
CqlRequests == CC!MCCqlRequests
CqlSeed == CC!MCCqlSeed

C == INSTANCE Cassandra WITH
    Text <- {}, AggregatesEnabled <- TRUE, IntMax <- 3, TinyMax <- 4, MaxLimit <- 5, BatchSize <- 2,
    MaxStatements <- 3, MaxBreaks <- 1

NoNames(name) == ""
OC == INSTANCE OpenAPICases WITH
    Text <- {}, SchemaNamed <- <<>>, LookupName <- NoNames, IdentifierOf <- NoNames, HeaderNames <- {}
SchemaNamed == OC!MCSchemaNamed
RawConfigs == OC!MCRawConfigs
Document == OC!MCDocument
ApiRequests == OC!MCApiRequests
ApiSeed == OC!MCSeed
FieldOrder == OC!MCFieldOrder
LookupName(name) == OC!MCLookup(name)
IdentifierOf(name) == OC!MCIdentifierOf(name)
ServerBodyAt(method) == OC!MCServerBodyAt(method)
SourceRow(a, item) == OC!MCSourceRow(a, item)
SourceRows(entity, items) == OC!MCSourceRows(entity, items)
SampleValue(type) == OC!MCSampleValue(type)

O == INSTANCE OpenAPI WITH
    Text <- {}, HeaderNames <- {"Accept"}, NumeralsFrom <- 20, IntMax <- 5, LongMax <- 9, Seed <- ApiSeed,
    ServerCaps <- {1, 2}, CursorEndings <- {"absent", "null"}, MaxApiCalls <- 2, MaxTroubles <- 1,
    stream <- apiStream, reader <- apiReader

-----------------------------------------------------------------------------
redis == <<db, call, answer, calls, faults>>
cassandra == <<rows, stream, reader, statements, breaks>>
openapi == <<provider, connected, store, server, apiStream, apiReader, last, apiCalls, troubles>>

RedisOff == db = Off /\ call = Off /\ answer = Off /\ calls = Off /\ faults = Off
CassandraOff == rows = Off /\ stream = Off /\ reader = Off /\ statements = Off /\ breaks = Off
OpenAPIOff ==
    /\ provider = Off /\ connected = Off /\ store = Off /\ server = Off /\ apiStream = Off
    /\ apiReader = Off /\ last = Off /\ apiCalls = Off /\ troubles = Off

ProvidersInit ==
    /\ part \in {"sessions", "redis", "cassandra", "openapi"}
    /\ Init /\ (part # "sessions" => kind = "redis")
    /\ IF part = "redis" THEN R!RedisInit ELSE RedisOff
    /\ IF part = "cassandra" THEN C!CassandraInit ELSE CassandraOff
    /\ IF part = "openapi" THEN O!ApiInit ELSE OpenAPIOff

ProvidersNext ==
    \/ /\ part = "sessions" /\ Next
       /\ UNCHANGED <<part, redis, cassandra, openapi>>
    \/ /\ part = "redis" /\ R!RedisNext
       /\ UNCHANGED <<part, vars, cassandra, openapi>>
    \/ /\ part = "cassandra" /\ C!CassandraNext
       /\ UNCHANGED <<part, vars, redis, openapi>>
    \/ /\ part = "openapi" /\ O!ApiNext
       /\ UNCHANGED <<part, vars, redis, cassandra>>

ProvidersVars == <<part, vars, redis, cassandra, openapi>>

ProvidersSpec == ProvidersInit /\ [][ProvidersNext]_ProvidersVars /\ Fairness

-----------------------------------------------------------------------------
\* A mutation the OpenAPI provider acknowledges has changed exactly the items it
\* names, as it asks, except that a PUT also loses what it does not assign; one
\* that fails or whose answer is lost has changed nothing else (Insert, Update,
\* Delete).
WritesExact == O!WritesExact

\* A call on Redis that no other call disturbs does what its statement says, but
\* for the rows that a table's prefix hides when Redis reads it as a pattern,
\* and only a race of two calls can leave a hash without its mandatory fields.
RedisExact == [][part = "redis" => R!AloneStep /\ R!TornStep]_redis

\* A reader who is told that the result has ended has got all its rows, however
\* the pages came (resultStream.Next of the Cassandra and OpenAPI providers).
EofComplete ==
    /\ part = "cassandra" => C!EofComplete
    /\ part = "openapi" => O!EofComplete

\* What the OpenAPI provider publishes of a table can be used: a query with the
\* required criteria and any searchable column is planned, and an insert, update
\* or delete with the columns it asks for is accepted (buildCatalog); the two
\* exceptions are inserts that accept nothing: the body spells a required
\* property in no column's case, or has a field of the path as read-only.
PublishedUsable == part = "openapi" => O!PublishedUsable
=============================================================================
