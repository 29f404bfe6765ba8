--------------------------- MODULE ProviderStreams ---------------------------
(***************************************************************************)
(* The handlers of the Go SDK server between a client and a provider that  *)
(* may return anything.  The three streaming ones, Query (query.go),       *)
(* ReadLob (lob.go) and RecoverTransactionBranches                         *)
(* (transaction_recovery.go), pull responses from a stream of the          *)
(* provider, check them against the request and against what was sent      *)
(* before, and forward them.  The unary ones, the branch operations,       *)
(* mutations, native transactions, ReleaseLob and GetCapabilities, check   *)
(* the request, choose whom to call, and check the answer.  A connection   *)
(* is acquired and released around each by ProviderServer.                 *)
(*                                                                         *)
(* Offsets and sizes are uint64 in the code: here MaxUint is the largest   *)
(* value, and sums wrap.  The contents of batches, warnings and branches   *)
(* are abstract; what is kept of them is what the handlers look at.        *)
(***************************************************************************)
EXTENDS Naturals, Sequences

CONSTANTS
    MaxUint,      \* largest unsigned integer (math.MaxUint64)
    Branch,       \* branch identifiers
    ResourceManager,  \* canonical resource manager identifiers
    MaxSent,      \* bound: responses of one call
    MaxBatch      \* bound: branches of one recovery batch

ASSUME StreamsAssumption ==
    /\ MaxUint \in Nat \ {0} /\ MaxSent \in Nat \ {0} /\ MaxBatch \in Nat
    /\ ResourceManager \cap {"none", "blank", "malformed", "unknown", "unsupported"} = {}

NoLength == MaxUint + 1       \* ReadLobRequest.length is absent

QueryRequest == [rpc : {"Query"}, acceptOutcome : BOOLEAN, allowPartial : BOOLEAN]
LobRequest == [rpc : {"ReadLob"}, offset : 0 .. MaxUint,
               length : 0 .. NoLength, maxChunk : 0 .. MaxUint]
RecoverRequest == [rpc : {"Recover"}]

\* What a QueryOutcomeStream reports.  A warning is of role WARNING, of role
\* PARTIAL_RESULT_CAUSE, or malformed (nil, blank, of no known role).
Outcome == [completion : {"COMPLETE", "PARTIAL", "UNSPECIFIED"},
            warnings : SUBSET {"WARNING", "CAUSE", "malformed"}]
Complete == [completion |-> "COMPLETE", warnings |-> {}]
NoOutcome == [completion |-> "none", warnings |-> {}]
NoRequest == [rpc |-> "none"]
ABatch == [tuples |-> "some"]

Chunk == [offset : 0 .. MaxUint, size : 0 .. MaxUint, end : BOOLEAN]

\* TransactionBranchState; HEURISTIC is any of its four heuristic outcomes, and
\* "unnamed" a number the protocol gives no name to.
BranchState == {"UNSPECIFIED", "NOT_FOUND", "ACTIVE", "PREPARED", "READ_ONLY",
                "COMMITTED", "ROLLED_BACK", "HEURISTIC", "unnamed"}
validRecoveryState(state) == state \in {"PREPARED", "HEURISTIC"}
Recovered == [branch : Branch, state : BranchState]
RecoveryBatch == UNION {[1 .. n -> Recovered] : n \in 0 .. MaxBatch}

VARIABLES
    request,      \* the call being served, or NoRequest
    sent,         \* responses sent to the client: batches, chunks, branches
    outcome,      \* what the provider reported at the end of a query, or NoOutcome
    told,         \* the outcome sent to the client, or NoOutcome
    drained,      \* the provider's stream ended by itself (io.EOF)
    expected,     \* expectedOffset of ReadLob
    bytes,        \* bytesSent of ReadLob
    status,       \* "running", "OK" or "error"
    manager,      \* the provider's recovery manager: none, or its identifier
    advert,       \* what GetCapabilities last told of recovery
    asked,        \* the unary call being served, or NoRequest
    reached,      \* whom it called: "connection", "manager" or "nobody"
    reply,        \* what the client was answered, or "none"
    result        \* "running", "OK" or "error"

streamVars == <<request, sent, outcome, told, drained, expected, bytes, status>>
unaryVars == <<manager, advert, asked, reached, reply, result>>
streamsVars == <<streamVars, unaryVars>>

StreamsTypeOK ==
    /\ request \in QueryRequest \cup LobRequest \cup RecoverRequest \cup {NoRequest}
    /\ sent \in Seq(Chunk \cup Recovered \cup {ABatch})
    /\ outcome \in Outcome \cup {NoOutcome}
    /\ told \in Outcome \cup {NoOutcome}
    /\ drained \in BOOLEAN
    /\ expected \in 0 .. MaxUint /\ bytes \in 0 .. MaxUint
    /\ status \in {"running", "OK", "error"}

StreamsInit ==
    /\ request = NoRequest /\ sent = <<>> /\ outcome = NoOutcome /\ told = NoOutcome
    /\ drained = FALSE /\ expected = 0 /\ bytes = 0 /\ status = "OK"
    /\ manager \in ResourceManager \cup {"none", "blank"} /\ advert = "unknown"
    /\ asked = NoRequest /\ reached = "nobody" /\ reply = "none" /\ result = "OK"

(***************************************************************************)
(* The start of a call, and how it ends early: an error of the provider,   *)
(* a nil or invalid response, a client that went away.                     *)
(***************************************************************************)
Start(r) ==
    /\ status # "running"
    /\ request' = r /\ sent' = <<>> /\ outcome' = NoOutcome /\ told' = NoOutcome
    /\ drained' = FALSE /\ bytes' = 0
    /\ expected' = IF r.rpc = "ReadLob" THEN r.offset ELSE 0
    /\ status' = IF r.rpc = "Query" /\ r.allowPartial /\ ~r.acceptOutcome
                 THEN "error" ELSE "running"

Fail ==
    /\ status = "running"
    /\ status' = "error"
    /\ UNCHANGED <<request, sent, outcome, told, drained, expected, bytes>>

\* The deferred Close of the provider's stream turns a success into its error.
Closing == {"OK", "error"}

Serving(rpc) == status = "running" /\ request.rpc = rpc /\ Len(sent) < MaxSent

(***************************************************************************)
(* Query.                                                                  *)
(***************************************************************************)
QueryBatch ==
    /\ Serving("Query")
    /\ sent' = Append(sent, ABatch)
    /\ UNCHANGED <<request, outcome, told, drained, expected, bytes, status>>

validateQueryOutcome(o) ==
    /\ o.completion # "UNSPECIFIED"
    /\ "malformed" \notin o.warnings
    /\ o.completion = "COMPLETE" => "CAUSE" \notin o.warnings
    /\ o.completion = "PARTIAL" => "CAUSE" \in o.warnings

\* prepareQueryOutcome lets the outcome of the provider pass for the request.
Accepts(r, o) ==
    /\ validateQueryOutcome(o)
    /\ o.completion = "PARTIAL" => r.allowPartial
    /\ ~r.acceptOutcome => o.warnings = {}

\* io.EOF: a stream that reports no outcome counts as complete (o is then
\* Complete); one that returns a nil outcome fails the call, see Fail.  The
\* outcome is sent to clients that accept it; sending may fail.
QueryEnd(o) ==
    /\ status = "running" /\ request.rpc = "Query"
    /\ outcome' = o /\ drained' = TRUE
    /\ \/ /\ Accepts(request, o)
          /\ told' = IF request.acceptOutcome THEN o ELSE NoOutcome
          /\ status' \in Closing
       \/ /\ ~Accepts(request, o) \/ request.acceptOutcome
          /\ status' = "error"
          /\ UNCHANGED told
    /\ UNCHANGED <<request, sent, expected, bytes>>

(***************************************************************************)
(* ReadLob.                                                                *)
(***************************************************************************)
\* Addition of unsigned integers.
AddUint(x, y) == (x + y) % (MaxUint + 1)

MutPasses(r, c) ==
    /\ c.offset = expected
    /\ c.end \/ c.size > 0
    /\ r.maxChunk > 0 => c.size <= r.maxChunk
    /\ r.length # NoLength => (c.size <= r.length /\ bytes <= r.length - c.size)

\* The checks a chunk passes, in the order of the code.
Passes(r, c) ==
    /\ c.offset = expected
    /\ c.end \/ c.size > 0
    /\ r.maxChunk > 0 => c.size <= r.maxChunk
    /\ r.length # NoLength => (c.size <= r.length /\ bytes <= r.length - c.size)
    /\ c.size <= MaxUint - expected

\* A chunk that does not pass fails the call, as does the end of the stream
\* before a chunk with end_of_read; see Fail.
LobChunk(c) ==
    /\ Serving("ReadLob") /\ Passes(request, c)
    /\ sent' = Append(sent, c)
    /\ expected' = AddUint(expected, c.size)
    /\ bytes' = AddUint(bytes, c.size)
    /\ status' \in IF c.end THEN Closing ELSE {"running"}
    /\ UNCHANGED <<request, outcome, told, drained>>

(***************************************************************************)
(* RecoverTransactionBranches: a batch is forwarded when all its branches  *)
(* are in a recoverable state and new in this scan; otherwise, or when it  *)
(* is empty, the call fails; see Fail.                                     *)
(***************************************************************************)
Admits(batch) ==
    /\ batch # <<>>
    /\ \A i \in DOMAIN batch :
         /\ validRecoveryState(batch[i].state)
         /\ \A j \in DOMAIN sent : sent[j].branch # batch[i].branch
         /\ \A j \in 1 .. i - 1 : batch[j].branch # batch[i].branch

RecoverBatch(batch) ==
    /\ Serving("Recover") /\ Admits(batch)
    /\ sent' = sent \o batch
    /\ UNCHANGED <<request, outcome, told, drained, expected, bytes, status>>

RecoverEnd ==
    /\ status = "running" /\ request.rpc = "Recover"
    /\ drained' = TRUE /\ status' \in Closing
    /\ UNCHANGED <<request, sent, outcome, told, expected, bytes>>

(***************************************************************************)
(* The unary handlers.  A request names a connection that may be absent,   *)
(* empty or unknown, "plain" or "able": the latter implements the optional *)
(* interface the call needs.  A branch identifier names a resource manager *)
(* or is malformed: missing, blank, empty or longer than 256 bytes.        *)
(***************************************************************************)
ConnectionId == {"empty", "unknown", "plain", "able"}
BranchId == ResourceManager \cup {"malformed"}

BranchRequest ==
    [rpc : {"Begin", "Prepare"}, branch : BranchId, conn : ConnectionId]
    \cup [rpc : {"Commit"}, branch : BranchId, conn : ConnectionId \cup {"absent"},
          onePhase : BOOLEAN]
    \cup [rpc : {"Rollback"}, branch : BranchId, conn : ConnectionId \cup {"absent"}]
    \cup [rpc : {"Status", "Forget"}, branch : BranchId]

MutationRequest ==
    [rpc : {"Insert", "Update", "Delete"}, conn : ConnectionId, valid : BOOLEAN]
NativeRequest ==
    [rpc : {"BeginTransaction", "CommitTransaction", "RollbackTransaction",
            "IsInTransaction"}, conn : ConnectionId]
ReleaseRequest == [rpc : {"ReleaseLob"}, conn : ConnectionId, valid : BOOLEAN]
UnaryRequest == BranchRequest \cup MutationRequest \cup NativeRequest \cup ReleaseRequest
CapabilitiesRequest == [rpc |-> "GetCapabilities"]

\* A manager whose identifier is not canonical is an error of the provider.
transactionRecoveryManager == manager \in ResourceManager

validateTransactionBranchID(branch, expectedId) == branch # "malformed" /\ branch = expectedId

prepareTransactionBranchRequest(branch) ==
    transactionRecoveryManager /\ validateTransactionBranchID(branch, manager)

acquireConnection(conn) == conn \in {"plain", "able"}

\* The connection is there and a TransactionBranchConnection.
BranchConnection(conn) == IF conn = "able" THEN "connection" ELSE "nobody"

\* A one-phase commit is the connection's, any other the manager's.
CommitTransactionBranch(r) ==
    IF r.onePhase THEN BranchConnection(r.conn)
    ELSE IF r.conn = "absent" THEN "manager" ELSE "nobody"

\* An active branch is rolled back on its connection, a prepared one by the manager.
RollbackTransactionBranch(r) ==
    IF r.conn = "absent" THEN "manager" ELSE BranchConnection(r.conn)

BranchCallee(r) ==
    CASE ~prepareTransactionBranchRequest(r.branch) -> "nobody"
      [] OTHER -> CASE r.rpc \in {"Begin", "Prepare"} -> BranchConnection(r.conn)
                    [] r.rpc = "Commit" -> CommitTransactionBranch(r)
                    [] r.rpc = "Rollback" -> RollbackTransactionBranch(r)
                    [] OTHER -> "manager"

MutationCallee(r) == IF acquireConnection(r.conn) /\ r.valid THEN "connection" ELSE "nobody"
NativeCallee(r) == IF acquireConnection(r.conn) THEN "connection" ELSE "nobody"
ReleaseLobCallee(r) == IF r.conn = "able" /\ r.valid THEN "connection" ELSE "nobody"

Callee(r) ==
    CASE r \in BranchRequest -> BranchCallee(r)
      [] r \in MutationRequest -> MutationCallee(r)
      [] r \in NativeRequest -> NativeCallee(r)
      [] OTHER -> ReleaseLobCallee(r)

\* A call that reaches nobody is refused.
Ask(r) ==
    /\ result # "running"
    /\ asked' = r /\ reply' = "none" /\ reached' = Callee(r)
    /\ result' = IF Callee(r) = "nobody" THEN "error" ELSE "running"
    /\ UNCHANGED <<manager, advert>>

validPrepareOutcome(a) == a \in {"PREPARED", "READ_ONLY"}
validReportedState(a) == a \in BranchState \ {"UNSPECIFIED", "unnamed"}
validResolutionState(a) ==
    a \in {"NOT_FOUND", "READ_ONLY", "COMMITTED", "ROLLED_BACK", "HEURISTIC"}

\* What the provider may answer: a state where the interface returns one; the
\* values Insert generated may be of kinds the client does not accept.  A nil
\* response to a mutation counts as an empty one.
Answers(r) ==
    CASE r.rpc \in {"Prepare", "Commit", "Rollback", "Status"} -> BranchState
      [] r.rpc = "Insert" -> {"done", "unsupported"}
      [] OTHER -> {"done"}

Passed(r, a) ==
    CASE r.rpc = "Prepare" -> validPrepareOutcome(a)
      [] r.rpc \in {"Commit", "Rollback"} -> validResolutionState(a)
      [] r.rpc = "Status" -> validReportedState(a)
      [] OTHER -> a # "unsupported"

\* The provider answers, or fails; an answer that does not pass is an error too.
Answer(a) ==
    /\ result = "running" /\ a \in Answers(asked) \cup {"failed"}
    /\ \/ /\ a # "failed" /\ Passed(asked, a)
          /\ reply' = a /\ result' = "OK"
       \/ /\ a = "failed" \/ ~Passed(asked, a)
          /\ result' = "error" /\ UNCHANGED reply
    /\ UNCHANGED <<manager, advert, asked, reached>>

\* recovery is what the capabilities say: unsupported, or a manager's identifier.
validateTransactionRecoveryImplementation(recovery) ==
    IF recovery = "unsupported" THEN manager = "none"
    ELSE transactionRecoveryManager /\ manager = recovery

\* Capabilities that are missing or invalid, recovery = "malformed", or at odds
\* with the provider's manager are not passed on.
GetCapabilities(recovery) ==
    /\ result # "running"
    /\ asked' = CapabilitiesRequest /\ reached' = "nobody"
    /\ \/ /\ recovery # "malformed"
          /\ validateTransactionRecoveryImplementation(recovery)
          /\ advert' = recovery /\ reply' = "done" /\ result' = "OK"
       \/ /\ recovery = "malformed" \/ ~validateTransactionRecoveryImplementation(recovery)
          /\ reply' = "none" /\ result' = "error" /\ UNCHANGED advert
    /\ UNCHANGED manager

(***************************************************************************)
(* Next-state relation.                                                    *)
(***************************************************************************)
StreamNext ==
    \/ \E r \in QueryRequest \cup LobRequest \cup RecoverRequest : Start(r)
    \/ Fail
    \/ QueryBatch
    \/ \E o \in Outcome : QueryEnd(o)
    \/ \E c \in Chunk : LobChunk(c)
    \/ \E batch \in RecoveryBatch : RecoverBatch(batch)
    \/ RecoverEnd

UnaryNext ==
    \/ \E r \in UnaryRequest : Ask(r)
    \/ \E a \in BranchState \cup {"done", "unsupported", "failed"} : Answer(a)
    \/ \E recovery \in BranchId \cup {"unsupported"} : GetCapabilities(recovery)

StreamsNext ==
    \/ StreamNext /\ UNCHANGED unaryVars
    \/ UnaryNext /\ UNCHANGED streamVars

StreamsSpec == StreamsInit /\ [][StreamsNext]_streamsVars

(***************************************************************************)
(* Properties.                                                             *)
(***************************************************************************)
Answered(rpc) == status = "OK" /\ request # NoRequest /\ request.rpc = rpc

\* A client never takes a partial result for a whole one, nor loses a
\* warning: when Query ends well, either the result was complete and without
\* warnings, or the client got exactly the provider's outcome, and a partial
\* one only if it allowed that.
QueryHonest ==
    Answered("Query") =>
        /\ drained
        /\ told = outcome \/ (told = NoOutcome /\ outcome = Complete)
        /\ outcome.completion = "PARTIAL" =>
             /\ request.allowPartial
             /\ "CAUSE" \in outcome.warnings

\* The chunks sent by ReadLob are one contiguous piece of the LOB from the
\* requested offset: no gap, no overlap, no wrap-around, no more than the
\* requested length, no chunk above the requested size, nothing after the
\* chunk that ends the read and no success without it.  The handlers' counters
\* and the rest of the state keep their types.
LobExact ==
    /\ StreamsTypeOK
    /\ (request # NoRequest /\ request.rpc = "ReadLob") =>
        /\ \A i \in DOMAIN sent :
             /\ sent[i].offset = IF i = 1 THEN request.offset
                                 ELSE sent[i - 1].offset + sent[i - 1].size
             /\ sent[i].offset + sent[i].size <= MaxUint
             /\ request.length # NoLength =>
                  sent[i].offset + sent[i].size - request.offset <= request.length
             /\ request.maxChunk > 0 => sent[i].size <= request.maxChunk
             /\ sent[i].end => i = Len(sent)
        /\ status = "OK" => sent # <<>> /\ sent[Len(sent)].end

\* A recovery scan lists each branch once and only branches a coordinator can
\* resolve or forget, and it ends well only when the provider's scan ended.
RecoverExact ==
    (request # NoRequest /\ request.rpc = "Recover") =>
        /\ \A i, j \in DOMAIN sent : sent[i].branch = sent[j].branch => i = j
        /\ \A i \in DOMAIN sent : validRecoveryState(sent[i].state)
        /\ status = "OK" => drained

UnaryTypeOK ==
    /\ manager \in ResourceManager \cup {"none", "blank"}
    /\ advert \in ResourceManager \cup {"unknown", "unsupported"}
    /\ asked \in UnaryRequest \cup {NoRequest, CapabilitiesRequest}
    /\ reached \in {"connection", "manager", "nobody"}
    /\ reply \in BranchState \cup {"none", "done"}
    /\ result \in {"running", "OK", "error"}

\* What a coordinator may rely on.  A client that was told of recovery was told
\* the truth: without it no branch call reaches anybody, with it only branches of
\* the advertised manager do.  A branch is settled by one party, the connection
\* for a one-phase commit and the manager only when no connection is named, and
\* a settling call that ends well says how: the branch is not left active or
\* prepared, and a prepared answer is never a made-up one.
UnaryExact ==
    /\ UnaryTypeOK
    /\ advert = "unsupported" => (asked \in BranchRequest => reached = "nobody")
    /\ advert \in ResourceManager =>
         (asked \in BranchRequest /\ reached # "nobody" => asked.branch = advert)
    /\ reached = "manager" => /\ asked.rpc \in {"Commit", "Rollback", "Status", "Forget"}
                              /\ asked.rpc = "Commit" => ~asked.onePhase
                              /\ asked.rpc \in {"Commit", "Rollback"} => asked.conn = "absent"
    /\ (asked \in BranchRequest /\ result = "OK") =>
         /\ reached # "nobody"
         /\ asked.rpc \in {"Commit", "Rollback"} =>
              reply \notin {"UNSPECIFIED", "unnamed", "ACTIVE", "PREPARED", "none"}
         /\ asked.rpc = "Prepare" => reply \in {"PREPARED", "READ_ONLY"}

\* All of them: whatever a provider returns, a query is answered honestly, a LOB
\* and a recovery scan exactly (Query, ReadLob, RecoverTransactionBranches), and a
\* branch operation by the party that owns the branch, with a state that means
\* what the call promises (CommitTransactionBranch and the other unary handlers).
StreamsExact == QueryHonest /\ LobExact /\ RecoverExact /\ UnaryExact
=============================================================================
