------------------------------ MODULE HostScan ------------------------------
(***************************************************************************)
(* Scans over one agent session of the Host Provider, both ends: the       *)
(* provider's Session and Scan (gateway/directory.go) with the receive     *)
(* loop of Connect (gateway/server.go) and the callers that consume scans  *)
(* (scanTarget, query/stream.go), and the agent's session loop with its    *)
(* scan goroutines (agent/session.go).                                     *)
(*                                                                         *)
(* The transport delivers in order in each direction until the session     *)
(* ends: then what is under way is lost, the loop returns and the agent    *)
(* cancels its scans and waits for them (Ended).  Rows are abstracted to   *)
(* the index of the batch that carries them: every scan has Batches of     *)
(* them.  Each locked section and each wait of the gateway is an action,   *)
(* so that a cancellation meets the receive loop between any two of them.  *)
(* A deadline may pass at any time.                                        *)
(***************************************************************************)
EXTENDS Naturals, Sequences, FiniteSets, SequencesExt

CONSTANTS
    Scan,           \* scan identifiers; each is used by one caller
    MaxScans,       \* MaxConcurrentScans of the agent's hello
    EventLimit,     \* scanEventBufferLimit
    RetiredLimit,   \* retiredScanLimit
    Batches         \* batches of a scan's result

ASSUME ScanAssumption ==
    /\ MaxScans \in Nat \ {0} /\ EventLimit \in Nat \ {0}
    /\ RetiredLimit \in Nat \ {0} /\ Batches \in Nat

VARIABLES
    ended,                \* how the session ended
    scans, retired,       \* Session.scans; retiredOrder and retiredScans
    forgotten,            \* history: scans dropped from the retired ones
    scan,                 \* Scan objects
    caller,               \* scanTarget, one per scan
    loop,                 \* receive loop of Connect
    toAgent, toGateway,   \* the stream's two directions
    exec                  \* scan goroutines of the agent

gateway == <<ended, scans, retired, forgotten, scan>>
vars == <<gateway, caller, loop, toAgent, toGateway, exec>>

open == ended = "no"

NoStatus == "none"
Status == {"succeeded", "failed", "cancelled"}

Message == [type : {"scan", "cancel", "batch", "finished"}, id : Scan,
            index : Nat, status : Status \cup {NoStatus}]

Request(c) == [type |-> "scan", id |-> c, index |-> 0, status |-> NoStatus]
CancelScan(c) == [type |-> "cancel", id |-> c, index |-> 0, status |-> NoStatus]
Batch(c, i) == [type |-> "batch", id |-> c, index |-> i, status |-> NoStatus]
Finished(c, s) == [type |-> "finished", id |-> c, index |-> 0, status |-> s]

\* No message is being handled by the loop.
Idle == [pc |-> "receive", msg |-> <<>>]

\* Scan goroutines that hold one of the agent's permits.
Permits == {c \in Scan : exec[c].pc \notin {"none", "over"}}

\* A scan goroutine that has returned.
Executed == [pc |-> "over", sent |-> 0, cancelled |-> FALSE]

TypeOK ==
    /\ ended \in {"no", "lost", "not_active", "invalid"}
    /\ scans \subseteq Scan /\ Cardinality(scans) <= MaxScans
    /\ retired \in Seq(Scan) /\ Len(retired) <= RetiredLimit
    /\ forgotten \subseteq Scan
    /\ scan \in [Scan -> [terminal : BOOLEAN, next : 0 .. Batches,
                          events : Seq(Message), abandoned : BOOLEAN]]
    /\ \A c \in Scan : Len(scan[c].events) <= EventLimit
    /\ caller \in [Scan ->
            [pc : {"idle", "registered", "waiting", "cancelling", "retiring",
                   "sending", "done"},
             got : Seq(0 .. Batches), quiet : BOOLEAN,
             result : {"none", "ok", "agent", "busy", "closed", "timeout", "limit"}]]
    /\ loop.pc \in {"receive", "found", "retire", "deliver"}
    /\ loop.pc # "receive" => loop.msg \in Message
    /\ toAgent \in Seq(Message) /\ toGateway \in Seq(Message)
    /\ exec \in [Scan ->
            [pc : {"none", "collecting", "running", "sending", "stopping",
                   "finished", "over"},
             sent : 0 .. Batches, cancelled : BOOLEAN]]
    /\ Cardinality(Permits) <= MaxScans

Init ==
    /\ ended = "no" /\ scans = {} /\ retired = <<>> /\ forgotten = {}
    /\ scan = [c \in Scan |-> [terminal |-> FALSE, next |-> 0, events |-> <<>>,
                               abandoned |-> FALSE]]
    /\ caller = [c \in Scan |-> [pc |-> "idle", got |-> <<>>, quiet |-> FALSE,
                                 result |-> "none"]]
    /\ loop = Idle
    /\ toAgent = <<>> /\ toGateway = <<>>
    /\ exec = [c \in Scan |-> [pc |-> "none", sent |-> 0, cancelled |-> FALSE]]

\* The session ends, on both ends of the stream.
Ended(how) ==
    /\ ended' = how
    /\ toAgent' = <<>> /\ toGateway' = <<>> /\ loop' = Idle
    /\ exec' = [c \in Scan |-> Executed]
    /\ UNCHANGED <<scans, retired, forgotten, scan, caller>>

\* scanTarget returns without rows.
Failed(c, why) ==
    caller' = [caller EXCEPT ![c] = [pc |-> "done", got |-> <<>>, quiet |-> FALSE,
                                     result |-> why]]

(***************************************************************************)
(* Session.StartScan, Scan.Next and Scan.Cancel, called by scanTarget.     *)
(***************************************************************************)
MutRetireScan(c) == scans' = scans \ {c} /\ UNCHANGED <<retired, forgotten>>

\* The scan's identifier is kept so that late messages of it are recognized;
\* the oldest one is dropped beyond the limit.
retireScan(c) ==
    LET known == c \notin scans \/ c \in ToSet(retired)
        full == Len(retired) >= RetiredLimit
    IN  /\ scans' = scans \ {c}
        /\ retired' = IF known THEN retired
                      ELSE Append(IF full THEN Tail(retired) ELSE retired, c)
        /\ forgotten' = IF ~known /\ full THEN forgotten \cup {Head(retired)}
                        ELSE forgotten

StartScan(c) ==
    /\ caller[c].pc = "idle"
    /\ IF open /\ Cardinality(scans) < MaxScans
       THEN /\ scans' = scans \cup {c}
            /\ caller' = [caller EXCEPT ![c].pc = "registered"]
       ELSE Failed(c, IF open THEN "busy" ELSE "closed") /\ UNCHANGED scans
    /\ UNCHANGED <<ended, retired, forgotten, scan, loop, toAgent, toGateway, exec>>

\* The request is sent outside the lock; a scan that cannot be sent is
\* retired and abandoned.
Dispatch(c) ==
    /\ caller[c].pc = "registered"
    /\ \/ /\ open
          /\ toAgent' = Append(toAgent, Request(c))
          /\ caller' = [caller EXCEPT ![c].pc = "waiting"]
          /\ UNCHANGED <<scans, retired, forgotten, scan>>
       \/ /\ retireScan(c)
          /\ scan' = [scan EXCEPT ![c].abandoned = TRUE]
          /\ Failed(c, "closed")
          /\ UNCHANGED toAgent
    /\ UNCHANGED <<ended, loop, toGateway, exec>>

\* Next returns an event: a batch is buffered, unless it exceeds a limit of
\* the target, and the terminal message ends the scan.
Read(c) ==
    /\ caller[c].pc = "waiting" /\ scan[c].events # <<>>
    /\ scan' = [scan EXCEPT ![c].events = Tail(@)]
    /\ LET m == Head(scan[c].events)
       IN  \/ /\ m.status = "succeeded"
              /\ caller' = [caller EXCEPT ![c].pc = "done", ![c].result = "ok"]
           \/ m.status \in {"failed", "cancelled"} /\ Failed(c, "agent")
           \/ /\ m.type = "batch"
              /\ caller' = [caller EXCEPT ![c].got = Append(@, m.index)]
           \/ /\ m.type = "batch"
              /\ caller' = [caller EXCEPT ![c].pc = "cancelling", ![c].result = "limit"]
    /\ UNCHANGED <<ended, scans, retired, forgotten, loop, toAgent, toGateway, exec>>

\* Next returns an error: the session was closed, or the deadline has passed
\* or the query was cancelled.
GiveUp(c) ==
    /\ caller[c].pc = "waiting"
    /\ caller' = [caller EXCEPT ![c].pc = "cancelling", ![c].result = "timeout"]
    /\ UNCHANGED <<gateway, loop, toAgent, toGateway, exec>>

Disconnected(c) ==
    /\ caller[c].pc = "waiting" /\ ~open
    /\ caller' = [caller EXCEPT ![c].pc = "cancelling", ![c].result = "closed"]
    /\ UNCHANGED <<gateway, loop, toAgent, toGateway, exec>>

\* Cancel: terminal is set under the scan's lock, the scan retired under the
\* session's, then abandoned and, unless it was terminal, cancelled remotely.
CancelMark(c) ==
    /\ caller[c].pc = "cancelling"
    /\ scan' = [scan EXCEPT ![c].terminal = TRUE]
    /\ caller' = [caller EXCEPT ![c].pc = "retiring", ![c].quiet = scan[c].terminal]
    /\ UNCHANGED <<ended, scans, retired, forgotten, loop, toAgent, toGateway, exec>>

CancelRetire(c) ==
    /\ caller[c].pc = "retiring"
    /\ retireScan(c)
    /\ caller' = [caller EXCEPT ![c].pc = "sending"]
    /\ UNCHANGED <<ended, scan, loop, toAgent, toGateway, exec>>

CancelSend(c) ==
    /\ caller[c].pc = "sending"
    /\ scan' = [scan EXCEPT ![c].abandoned = TRUE]
    /\ toAgent' = IF open /\ ~caller[c].quiet THEN Append(toAgent, CancelScan(c))
                  ELSE toAgent
    /\ Failed(c, caller[c].result)
    /\ UNCHANGED <<ended, scans, retired, forgotten, loop, toGateway, exec>>

(***************************************************************************)
(* The receive loop: deliverBatch and finishScan.                          *)
(***************************************************************************)
\* activeScan: a message of a retired scan is dropped, one of a scan that is
\* neither active nor retired ends the session.
Receive ==
    LET m == Head(toGateway)
    IN  /\ open /\ loop.pc = "receive" /\ toGateway # <<>>
        /\ \/ /\ m.id \in scans \cup ToSet(retired)
              /\ loop' = IF m.id \in scans THEN [pc |-> "found", msg |-> m] ELSE loop
              /\ toGateway' = Tail(toGateway)
              /\ UNCHANGED <<gateway, caller, toAgent, exec>>
           \/ m.id \notin scans \cup ToSet(retired) /\ Ended("not_active")

\* The section under the scan's lock.
Admit ==
    LET m == loop.msg
        s == scan[m.id]
    IN  /\ open /\ loop.pc = "found"
        /\ \/ /\ s.terminal
              /\ loop' = Idle
              /\ UNCHANGED <<gateway, caller, toAgent, toGateway, exec>>
           \/ /\ ~s.terminal /\ m.type = "batch" /\ m.index # s.next
              /\ Ended("invalid")
           \/ /\ ~s.terminal /\ m.type = "batch" /\ m.index = s.next
              /\ scan' = [scan EXCEPT ![m.id].next = @ + 1]
              /\ loop' = [loop EXCEPT !.pc = "deliver"]
              /\ UNCHANGED <<ended, scans, retired, forgotten, caller, toAgent, toGateway, exec>>
           \/ /\ ~s.terminal /\ m.type = "finished"
              /\ scan' = [scan EXCEPT ![m.id].terminal = TRUE]
              /\ loop' = [loop EXCEPT !.pc = "retire"]
              /\ UNCHANGED <<ended, scans, retired, forgotten, caller, toAgent, toGateway, exec>>

RetireFinished ==
    /\ open /\ loop.pc = "retire"
    /\ retireScan(loop.msg.id)
    /\ loop' = [loop EXCEPT !.pc = "deliver"]
    /\ UNCHANGED <<ended, scan, caller, toAgent, toGateway, exec>>

MutDeliverBlocking ==
    /\ open /\ loop.pc = "deliver"
    /\ Len(scan[loop.msg.id].events) < EventLimit
    /\ scan' = [scan EXCEPT ![loop.msg.id].events = Append(@, loop.msg)]
    /\ loop' = Idle
    /\ UNCHANGED <<ended, scans, retired, forgotten, caller, toAgent, toGateway, exec>>

\* The loop waits for room in the scan's buffer, or for its abandonment.
Deliver ==
    LET c == loop.msg.id
    IN  /\ open /\ loop.pc = "deliver"
        /\ \/ /\ Len(scan[c].events) < EventLimit
              /\ scan' = [scan EXCEPT ![c].events = Append(@, loop.msg)]
           \/ scan[c].abandoned /\ UNCHANGED scan
        /\ loop' = Idle
        /\ UNCHANGED <<ended, scans, retired, forgotten, caller, toAgent, toGateway, exec>>

\* The stream fails, its lease expires or it is replaced (HostGateway).
Lose == open /\ Ended("lost")

(***************************************************************************)
(* The agent.                                                              *)
(***************************************************************************)
\* A scan starts if a permit is free, and fails otherwise; a cancellation is
\* noted for a scan that is still executed.
AgentReceive ==
    /\ open /\ toAgent # <<>>
    /\ toAgent' = Tail(toAgent)
    /\ LET m == Head(toAgent)
           free == Cardinality(Permits) < MaxScans
       IN  \/ /\ m.type = "scan" /\ free
              /\ exec' = [exec EXCEPT ![m.id].pc = "collecting"]
              /\ UNCHANGED toGateway
           \/ /\ m.type = "scan" /\ ~free
              /\ toGateway' = Append(toGateway, Finished(m.id, "failed"))
              /\ UNCHANGED exec
           \/ /\ m.type = "cancel"
              /\ exec' = IF m.id \in Permits
                         THEN [exec EXCEPT ![m.id].cancelled = TRUE] ELSE exec
              /\ UNCHANGED toGateway
    /\ UNCHANGED <<gateway, caller, loop>>

\* The scan's own deadline passes on the agent.
Deadline(c) ==
    /\ open /\ c \in Permits /\ ~exec[c].cancelled
    /\ exec' = [exec EXCEPT ![c].cancelled = TRUE]
    /\ UNCHANGED <<gateway, caller, loop, toAgent, toGateway>>

Finish(c, status) ==
    /\ toGateway' = Append(toGateway, Finished(c, status))
    /\ exec' = [exec EXCEPT ![c].pc = "finished"]

\* collectScan fails, or its rows are ready to be sent.
Collect(c) ==
    /\ open /\ exec[c].pc = "collecting"
    /\ \/ Finish(c, IF exec[c].cancelled THEN "cancelled" ELSE "failed")
       \/ /\ exec' = [exec EXCEPT ![c].pc = IF exec[c].cancelled THEN "stopping"
                                            ELSE "running"]
          /\ UNCHANGED toGateway
    /\ UNCHANGED <<gateway, caller, loop, toAgent>>

\* sendScanRows looks at the context before it fills a batch, then sends it.
Fill(c) ==
    /\ open /\ exec[c].pc = "running" /\ exec[c].sent < Batches
    /\ exec' = [exec EXCEPT ![c].pc = IF exec[c].cancelled THEN "stopping"
                                      ELSE "sending"]
    /\ UNCHANGED <<gateway, caller, loop, toAgent, toGateway>>

SendBatch(c) ==
    /\ open /\ exec[c].pc = "sending"
    /\ toGateway' = Append(toGateway, Batch(c, exec[c].sent))
    /\ exec' = [exec EXCEPT ![c].pc = "running", ![c].sent = @ + 1]
    /\ UNCHANGED <<gateway, caller, loop, toAgent>>

\* The scan was cancelled, a row exceeds the batch limit, or all rows are sent.
SendFinished(c) ==
    /\ open
    /\ \/ exec[c].pc = "stopping" /\ Finish(c, "cancelled")
       \/ exec[c].pc = "running" /\ exec[c].sent < Batches /\ Finish(c, "failed")
       \/ exec[c].pc = "running" /\ exec[c].sent = Batches /\ Finish(c, "succeeded")
    /\ UNCHANGED <<gateway, caller, loop, toAgent>>

\* The goroutine ends: the permit is released after the last message.
ReleasePermit(c) ==
    /\ open /\ exec[c].pc = "finished"
    /\ exec' = [exec EXCEPT ![c] = Executed]
    /\ UNCHANGED <<gateway, caller, loop, toAgent, toGateway>>

(***************************************************************************)
(* Next-state relation.                                                    *)
(***************************************************************************)
CallerStep(c) ==
    Dispatch(c) \/ Read(c) \/ Disconnected(c) \/ CancelMark(c) \/ CancelRetire(c)
    \/ CancelSend(c)

LoopStep == Receive \/ Admit \/ RetireFinished \/ Deliver

AgentStep(c) ==
    Collect(c) \/ Fill(c) \/ SendBatch(c) \/ SendFinished(c) \/ ReleasePermit(c)

Next ==
    \/ \E c \in Scan : StartScan(c) \/ GiveUp(c) \/ Deadline(c) \/ CallerStep(c)
                       \/ AgentStep(c)
    \/ LoopStep
    \/ AgentReceive
    \/ Lose

Spec == Init /\ [][Next]_vars

\* Goroutines run, both loops receive, and the collectors return; that a
\* deadline passes is not assumed.
Fairness ==
    /\ WF_vars(LoopStep) /\ WF_vars(AgentReceive)
    /\ \A c \in Scan : WF_vars(CallerStep(c)) /\ WF_vars(AgentStep(c))

LiveSpec == Spec /\ Fairness

(***************************************************************************)
(* Properties.                                                             *)
(***************************************************************************)
\* A scan that succeeded has delivered every batch the agent sent, in order,
\* whatever its buffer, cancellations of others and the select statements did
\* (deliverBatch, finishScan, scanTarget).
SuccessComplete ==
    \A c \in Scan : caller[c].result = "ok" =>
        caller[c].got = [i \in 1 .. Batches |-> i - 1]

\* An answer to the scan is on its way to the caller.
Answered(c) ==
    \/ \E i \in DOMAIN toAgent : toAgent[i].type = "scan" /\ toAgent[i].id = c
    \/ exec[c].pc \in {"collecting", "running", "sending", "stopping"}
    \/ \E i \in DOMAIN toGateway : toGateway[i].type = "finished" /\ toGateway[i].id = c
    \/ loop.pc # "receive" /\ loop.msg.type = "finished" /\ loop.msg.id = c
    \/ \E i \in DOMAIN scan[c].events : scan[c].events[i].type = "finished"

\* As long as the session lives no caller waits for an answer that nobody will
\* send any more: a refused, failed, cancelled or completed scan always has its
\* terminal message under way (runSession, executeScan, finishScan).
NoLostScan == \A c \in Scan : caller[c].pc = "waiting" /\ open => Answered(c)

\* Cancellations and their late answers never end the session as long as the
\* gateway remembers the scans concerned: every message under way is of an
\* active or a retired scan, or of one that RetiredLimit others have pushed out
\* of the retired ones; only a message of such a scan ends the session, and no
\* batch ever has an index that is not expected (Cancel, retireScan,
\* activeScan, deliverBatch).
HealthySession ==
    /\ ended # "invalid"
    /\ ended = "not_active" => forgotten # {}
    /\ forgotten # {} => Len(retired) = RetiredLimit
    /\ \A i \in DOMAIN toGateway :
         toGateway[i].id \in scans \cup ToSet(retired) \cup forgotten

\* A scan's answer is whole, or still to come, or its session is gone, and the
\* messages and buffers that carry it keep their types (Session, runSession).
ScansExact == TypeOK /\ SuccessComplete /\ NoLostScan /\ HealthySession

\* Callers do not depend on their deadline: a scan ends also when no deadline
\* passes, so a full buffer or an abandoned scan never blocks the receive loop
\* for good (deliverBatch).
ScansEnd == \A c \in Scan : (caller[c].pc = "waiting") ~> (caller[c].pc = "done")
=============================================================================
