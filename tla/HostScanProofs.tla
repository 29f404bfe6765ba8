-------------------------- MODULE HostScanProofs --------------------------
(***************************************************************************)
(* Proofs about the scans of an agent session, for any scans, limits and   *)
(* number of batches: an answer that succeeded is whole, no caller waits   *)
(* for an answer nobody will send, and no cancellation and no late message *)
(* ends the session, but one of a scan that as many others as the limit    *)
(* allows have pushed out of the retired ones.                             *)
(*                                                                         *)
(* The argument follows a scan through its queues.  What the receive loop  *)
(* has not yet admitted of it is one ordered queue (Inbox); the batches in *)
(* it begin with the next one expected, have no gap and end with the last  *)
(* one sent; what was admitted continues what the caller has got.          *)
(***************************************************************************)
EXTENDS HostScan, FiniteSetTheorems, SequenceTheorems, TLAPS

\* Messages of the agent: batches and terminal messages.
Answer ==
    {m \in Message :
        \/ m.type = "batch" /\ m.status = NoStatus /\ m.index < Batches
        \/ m.type = "finished" /\ m.status \in Status /\ m.index = 0}

\* Messages of the gateway.
Demand ==
    {m \in Message :
        m.type \in {"scan", "cancel"} /\ m.index = 0 /\ m.status = NoStatus}

\* What the receive loop has still to admit, in order: the message it looks at
\* and those under way.
Inbox == (IF loop.pc = "found" THEN <<loop.msg>> ELSE <<>>) \o toGateway

\* Batches and terminal statuses of a scan in a queue, and the scan's request.
ComingIn(q, c) == {k \in 0 .. Batches : \E i \in DOMAIN q : q[i] = Batch(c, k)}
EndsIn(q, c) == {s \in Status : \E i \in DOMAIN q : q[i] = Finished(c, s)}
AskedIn(q, c) == \E i \in DOMAIN q : q[i] = Request(c)

Coming(c) == ComingIn(Inbox, c)
Ends(c) == EndsIn(Inbox, c)
Asked(c) == AskedIn(toAgent, c)
Working(c) == exec[c].pc \in {"collecting", "running", "sending", "stopping"}
Admitted(c) == loop.pc \in {"retire", "deliver"} /\ loop.msg.id = c

NewScan == [terminal |-> FALSE, next |-> 0, events |-> <<>>, abandoned |-> FALSE]

(***************************************************************************)
(* The invariant of the queues.                                            *)
(***************************************************************************)
QueueTypes ==
    /\ toAgent \in Seq(Demand) /\ toGateway \in Seq(Answer)
    /\ loop \in [pc : {"receive", "found", "retire", "deliver"}, msg : Answer \cup {<<>>}]
    /\ loop.pc # "receive" => loop.msg \in Answer
    /\ loop.pc = "retire" => loop.msg.type = "finished"
    /\ \A c \in Scan : scan[c].events \in Seq(Answer)
    /\ ~open => toAgent = <<>> /\ toGateway = <<>> /\ loop.pc = "receive"

\* The messages of one scan follow each other in the order of their indexes, and
\* its terminal message is the last of them.
Ordered(q) ==
    \A i, j \in DOMAIN q : i < j /\ q[i].id = q[j].id =>
        /\ q[i].type = "batch"
        /\ q[j].type = "batch" => q[i].index < q[j].index

\* A scan is requested once.
AskedOnce(q) ==
    \A i, j \in DOMAIN q : q[i] = q[j] /\ q[i].type = "scan" => i = j

(***************************************************************************)
(* The invariant of one scan.                                              *)
(***************************************************************************)
\* Nothing is known of a scan before it is sent.
Fresh(c) ==
    caller[c].pc \in {"idle", "registered"} =>
        /\ scan[c] = NewScan /\ caller[c].got = <<>>
        /\ ~Asked(c) /\ Coming(c) = {} /\ Ends(c) = {} /\ ~Admitted(c)
        /\ ~Working(c) /\ (open => exec[c].pc = "none")

\* A request that is under way has had no effect yet.
Unanswered(c) ==
    Asked(c) => /\ exec[c].pc = "none" /\ scan[c].next = 0
                /\ Coming(c) = {} /\ Ends(c) = {}

\* A goroutine of the agent sends its batches in order and ends with one
\* terminal message.
Sending(c) ==
    /\ exec[c].pc = "none" => exec[c].sent = 0
    /\ exec[c].pc = "sending" => exec[c].sent < Batches
    /\ Working(c) => Ends(c) = {} /\ \A k \in Coming(c) : k < exec[c].sent

\* A scan that is not terminal and of which something is to come has a caller.
Wanted(c) ==
    /\ ~scan[c].terminal /\ (Asked(c) \/ Working(c) \/ Coming(c) # {} \/ Ends(c) # {}) =>
        caller[c].pc \in {"waiting", "cancelling"}
    /\ ~scan[c].terminal /\ caller[c].pc \in {"registered", "waiting", "cancelling"} =>
        c \in scans

\* No batch is missing between the ones admitted and the ones sent.
Gapless(c) ==
    ~scan[c].terminal =>
        /\ \A k \in Coming(c) : scan[c].next <= k /\ (scan[c].next .. k) \subseteq Coming(c)
        /\ Working(c) => /\ scan[c].next <= exec[c].sent
                         /\ (scan[c].next .. (exec[c].sent - 1)) \subseteq Coming(c)
        /\ "succeeded" \in Ends(c) => (scan[c].next .. (Batches - 1)) \subseteq Coming(c)

\* A scan is terminal when its terminal message was admitted or when it was cancelled.
Marked(c) ==
    /\ caller[c].pc \in {"retiring", "sending"} => scan[c].terminal
    /\ scan[c].abandoned => caller[c].pc = "done"
    /\ Admitted(c) /\ loop.msg.type = "finished" => scan[c].terminal
    /\ \A i \in DOMAIN scan[c].events : scan[c].events[i].type = "finished" => scan[c].terminal

\* What the caller has got, the buffer and the message being delivered continue
\* each other.
Delivery(c) ==
    LET got == caller[c].got
        events == scan[c].events
        all == Len(got) + Len(events)
    IN  caller[c].pc = "waiting" =>
        /\ \A i \in 1 .. Len(got) : got[i] = i - 1
        /\ \A i \in 1 .. Len(events) :
              \/ events[i] = Batch(c, Len(got) + i - 1)
              \/ /\ i = Len(events) /\ events[i].type = "finished"
                 /\ events[i].status = "succeeded" => all = Batches + 1
        /\ Admitted(c) =>
              /\ \A i \in 1 .. Len(events) : events[i].type = "batch"
              /\ loop.msg.type = "batch" => loop.msg = Batch(c, all)
              /\ loop.msg.status = "succeeded" => all = Batches
        /\ open /\ ~scan[c].terminal => scan[c].next = all + (IF Admitted(c) THEN 1 ELSE 0)
        /\ open /\ scan[c].terminal =>
              \/ \E i \in 1 .. Len(events) : events[i].type = "finished"
              \/ Admitted(c) /\ loop.msg.type = "finished"

\* Somebody will answer.
Awaited(c) ==
    open /\ caller[c].pc = "waiting" /\ ~scan[c].terminal =>
        Asked(c) \/ Working(c) \/ Ends(c) # {}

\* A scan that succeeded is whole.
Complete(c) ==
    caller[c].result = "ok" =>
        caller[c].pc = "done" /\ caller[c].got = [i \in 1 .. Batches |-> i - 1]

ScanInv(c) ==
    /\ Fresh(c) /\ Unanswered(c) /\ Sending(c) /\ Wanted(c) /\ Gapless(c) /\ Marked(c)
    /\ Delivery(c) /\ Awaited(c) /\ Complete(c)

Finite == IsFiniteSet(scans) /\ IsFiniteSet(Permits)

IndInv ==
    /\ TypeOK /\ Finite /\ QueueTypes /\ Ordered(Inbox) /\ AskedOnce(toAgent)
    /\ \A c \in Scan : ScanInv(c)

(***************************************************************************)
(* Which scans the messages under way are of.                              *)
(***************************************************************************)
IdsIn(q) == {q[i].id : i \in DOMAIN q}

\* Scans that are active, retired, or were dropped from the retired ones.
Identifiers == scans \cup ToSet(retired) \cup forgotten

\* Each scan that a message names or may still name was registered, and one is
\* dropped only when the retired ones are as many as they may be.
Remembered ==
    /\ forgotten # {} => Len(retired) = RetiredLimit
    /\ \A c \in Scan : caller[c].pc \notin {"idle", "done"} \/ Working(c) => c \in Identifiers
    /\ IdsIn(toAgent) \subseteq Identifiers /\ IdsIn(toGateway) \subseteq Identifiers

HealthInv == IndInv /\ HealthySession /\ Remembered

-----------------------------------------------------------------------------
\* Lemmas about messages and queues.

LEMMA Messages ==
    ASSUME NEW c \in Scan
    PROVE  /\ Request(c) \in Demand /\ CancelScan(c) \in Demand
           /\ \A k \in 0 .. Batches : k < Batches => Batch(c, k) \in Answer
           /\ \A s \in Status : Finished(c, s) \in Answer
  BY ScanAssumption DEF Request, CancelScan, Batch, Finished, Demand, Answer, Message, NoStatus, Status

LEMMA AnswerForms ==
    ASSUME NEW m \in Answer
    PROVE  /\ m.id \in Scan /\ m.index \in 0 .. Batches
           /\ \/ /\ m.type = "batch" /\ m.index < Batches /\ m.status = NoStatus
                 /\ m = Batch(m.id, m.index)
              \/ /\ m.type = "finished" /\ m.status \in Status /\ m = Finished(m.id, m.status)
  BY ScanAssumption DEF Answer, Message, Batch, Finished, NoStatus, Status

LEMMA DemandForms ==
    ASSUME NEW m \in Demand
    PROVE  /\ m.id \in Scan
           /\ \/ m.type = "scan" /\ m = Request(m.id)
              \/ m.type = "cancel" /\ m = CancelScan(m.id)
  BY DEF Demand, Message, Request, CancelScan, NoStatus

LEMMA SameMessage ==
    ASSUME NEW c, NEW d, NEW k, NEW l, NEW s, NEW r
    PROVE  /\ Batch(c, k) = Batch(d, l) <=> c = d /\ k = l
           /\ Finished(c, s) = Finished(d, r) <=> c = d /\ s = r
           /\ Batch(c, k) # Finished(d, r) /\ Request(c) # CancelScan(d)
           /\ Request(c) = Request(d) <=> c = d
  BY DEF Batch, Finished, Request, CancelScan

BatchOf(m, c) == {k \in 0 .. Batches : m = Batch(c, k)}
EndOf(m, c) == {s \in Status : m = Finished(c, s)}

LEMMA OfMessage ==
    ASSUME NEW m \in Answer, NEW c \in Scan
    PROVE  /\ m.id # c => BatchOf(m, c) = {} /\ EndOf(m, c) = {}
           /\ m.id = c /\ m.type = "batch" => BatchOf(m, c) = {m.index} /\ EndOf(m, c) = {}
           /\ m.id = c /\ m.type = "finished" => BatchOf(m, c) = {} /\ EndOf(m, c) = {m.status}
  <1>1. /\ \A k : m = Batch(c, k) => m.id = c /\ m.index = k /\ m.type = "batch"
        /\ \A s : m = Finished(c, s) => m.id = c /\ m.status = s /\ m.type = "finished"
    BY DEF Batch, Finished
  <1> QED BY <1>1, AnswerForms DEF BatchOf, EndOf

\* A message is appended.
LEMMA AppendIn ==
    ASSUME NEW q \in Seq(Answer), NEW m \in Answer, NEW c \in Scan
    PROVE  /\ Append(q, m) \in Seq(Answer)
           /\ ComingIn(Append(q, m), c) =
                 ComingIn(q, c) \cup BatchOf(m, c)
           /\ EndsIn(Append(q, m), c) =
                 EndsIn(q, c) \cup EndOf(m, c)
  <1>1. /\ Append(q, m) \in Seq(Answer) /\ Len(q) \in Nat
        /\ DOMAIN q = 1 .. Len(q) /\ DOMAIN Append(q, m) = 1 .. Len(q) + 1
        /\ \A i \in 1 .. Len(q) : Append(q, m)[i] = q[i]
        /\ Append(q, m)[Len(q) + 1] = m
    OBVIOUS
  <1>2. \A x : (\E i \in DOMAIN Append(q, m) : Append(q, m)[i] = x) <=>
               (\E i \in DOMAIN q : q[i] = x) \/ m = x
    BY <1>1
  <1> QED BY <1>1, <1>2 DEF ComingIn, EndsIn, BatchOf, EndOf

LEMMA AppendAsked ==
    ASSUME NEW q \in Seq(Demand), NEW m \in Demand
    PROVE  /\ Append(q, m) \in Seq(Demand)
           /\ \A c : AskedIn(Append(q, m), c) <=> AskedIn(q, c) \/ m = Request(c)
  <1>1. /\ Append(q, m) \in Seq(Demand) /\ Len(q) \in Nat
        /\ DOMAIN q = 1 .. Len(q) /\ DOMAIN Append(q, m) = 1 .. Len(q) + 1
        /\ \A i \in 1 .. Len(q) : Append(q, m)[i] = q[i]
        /\ Append(q, m)[Len(q) + 1] = m
    OBVIOUS
  <1>2. \A x : (\E i \in DOMAIN Append(q, m) : Append(q, m)[i] = x) <=>
               (\E i \in DOMAIN q : q[i] = x) \/ m = x
    BY <1>1
  <1> QED BY <1>1, <1>2 DEF AskedIn

LEMMA AppendAskedOnce ==
    ASSUME NEW q \in Seq(Demand), NEW m \in Demand, AskedOnce(q),
           m.type = "scan" => m = Request(m.id) /\ ~AskedIn(q, m.id)
    PROVE  AskedOnce(Append(q, m))
  <1>1. /\ Len(q) \in Nat
        /\ DOMAIN q = 1 .. Len(q) /\ DOMAIN Append(q, m) = 1 .. Len(q) + 1
        /\ \A i \in 1 .. Len(q) : Append(q, m)[i] = q[i]
        /\ Append(q, m)[Len(q) + 1] = m
    OBVIOUS
  <1>2. m.type = "scan" => \A i \in 1 .. Len(q) : q[i] # m
    BY <1>1 DEF AskedIn
  <1> SUFFICES ASSUME NEW i \in 1 .. Len(q) + 1, NEW j \in 1 .. Len(q) + 1,
                      Append(q, m)[i] = Append(q, m)[j], Append(q, m)[i].type = "scan"
               PROVE  i = j
    BY <1>1 DEF AskedOnce
  <1>3. CASE i \in 1 .. Len(q) /\ j \in 1 .. Len(q)
    BY <1>1, <1>3 DEF AskedOnce
  <1>4. CASE i = Len(q) + 1 /\ j \in 1 .. Len(q)
    BY <1>1, <1>2, <1>4
  <1>5. CASE i \in 1 .. Len(q) /\ j = Len(q) + 1
    BY <1>1, <1>2, <1>5
  <1> QED BY <1>1, <1>3, <1>4, <1>5

\* The first message is taken from a queue.
LEMMA TailIn ==
    ASSUME NEW q \in Seq(Answer), q # <<>>, NEW c \in Scan
    PROVE  /\ Tail(q) \in Seq(Answer) /\ Head(q) \in Answer
           /\ ComingIn(q, c) =
                 ComingIn(Tail(q), c) \cup BatchOf(Head(q), c)
           /\ EndsIn(q, c) =
                 EndsIn(Tail(q), c) \cup EndOf(Head(q), c)
  <1>1. /\ Tail(q) \in Seq(Answer) /\ Len(q) \in Nat /\ Len(q) > 0
        /\ DOMAIN q = 1 .. Len(q) /\ DOMAIN Tail(q) = 1 .. Len(q) - 1
        /\ \A i \in 1 .. Len(q) - 1 : Tail(q)[i] = q[i + 1]
        /\ Head(q) = q[1] /\ Head(q) \in Answer
    OBVIOUS
  <1>2. ASSUME NEW x
        PROVE  (\E i \in DOMAIN q : q[i] = x) <=>
               (\E i \in DOMAIN Tail(q) : Tail(q)[i] = x) \/ Head(q) = x
    <2>1. ASSUME NEW i \in DOMAIN q, q[i] = x
          PROVE  (\E j \in DOMAIN Tail(q) : Tail(q)[j] = x) \/ Head(q) = x
      <3>1. CASE i = 1
        BY <1>1, <2>1, <3>1
      <3>2. CASE i # 1
        <4>1. i - 1 \in 1 .. Len(q) - 1 /\ (i - 1) + 1 = i
          BY <1>1, <3>2
        <4> QED BY <1>1, <2>1, <4>1
      <3> QED BY <3>1, <3>2
    <2>2. ASSUME NEW i \in DOMAIN Tail(q), Tail(q)[i] = x
          PROVE  \E j \in DOMAIN q : q[j] = x
      <3>1. i + 1 \in 1 .. Len(q)
        BY <1>1
      <3> QED BY <1>1, <2>2, <3>1
    <2>3. 1 \in DOMAIN q
      BY <1>1
    <2> QED BY <1>1, <2>1, <2>2, <2>3
  <1>3. ComingIn(q, c) =
          ComingIn(Tail(q), c) \cup BatchOf(Head(q), c)
    BY <1>2 DEF ComingIn, BatchOf
  <1>4. EndsIn(q, c) = EndsIn(Tail(q), c) \cup EndOf(Head(q), c)
    BY <1>2 DEF EndsIn, EndOf
  <1> QED BY <1>1, <1>3, <1>4

LEMMA TailAsked ==
    ASSUME NEW q \in Seq(Demand), q # <<>>, AskedOnce(q)
    PROVE  /\ Tail(q) \in Seq(Demand) /\ Head(q) \in Demand
           /\ \A c : AskedIn(q, c) <=> AskedIn(Tail(q), c) \/ Head(q) = Request(c)
           /\ \A c : Head(q) = Request(c) => ~AskedIn(Tail(q), c)
           /\ AskedOnce(Tail(q))
  <1>1. /\ Tail(q) \in Seq(Demand) /\ Len(q) \in Nat /\ Len(q) > 0
        /\ DOMAIN q = 1 .. Len(q) /\ DOMAIN Tail(q) = 1 .. Len(q) - 1
        /\ \A i \in 1 .. Len(q) - 1 : Tail(q)[i] = q[i + 1] /\ i + 1 \in 1 .. Len(q)
        /\ Head(q) = q[1] /\ Head(q) \in Demand
    OBVIOUS
  <1>2. \A i \in 1 .. Len(q) : i = 1 \/ (i - 1 \in 1 .. Len(q) - 1 /\ Tail(q)[i - 1] = q[i])
    BY <1>1
  <1>3. ASSUME NEW c
        PROVE  AskedIn(q, c) <=> AskedIn(Tail(q), c) \/ Head(q) = Request(c)
    <2>1. ASSUME NEW i \in DOMAIN q, q[i] = Request(c)
          PROVE  AskedIn(Tail(q), c) \/ Head(q) = Request(c)
      BY <1>1, <1>2, <2>1 DEF AskedIn
    <2>2. ASSUME NEW i \in DOMAIN Tail(q), Tail(q)[i] = Request(c)
          PROVE  AskedIn(q, c)
      BY <1>1, <2>2 DEF AskedIn
    <2>3. 1 \in DOMAIN q
      BY <1>1
    <2> QED BY <1>1, <2>1, <2>2, <2>3 DEF AskedIn
  <1>4. ASSUME NEW c, Head(q) = Request(c) PROVE ~AskedIn(Tail(q), c)
    <2> SUFFICES ASSUME NEW i \in DOMAIN Tail(q), Tail(q)[i] = Request(c) PROVE FALSE
      BY DEF AskedIn
    <2>1. q[i + 1] = q[1] /\ q[1].type = "scan" /\ i + 1 # 1 /\ i + 1 \in DOMAIN q /\ 1 \in DOMAIN q
      BY <1>1, <1>4 DEF Request
    <2> QED BY <2>1 DEF AskedOnce
  <1>5. AskedOnce(Tail(q))
    <2> SUFFICES ASSUME NEW i \in DOMAIN Tail(q), NEW j \in DOMAIN Tail(q),
                        Tail(q)[i] = Tail(q)[j], Tail(q)[i].type = "scan"
                 PROVE  i = j
      BY DEF AskedOnce
    <2>1. i + 1 = j + 1
      BY <1>1 DEF AskedOnce
    <2> QED BY <1>1, <2>1
  <1> QED BY <1>1, <1>3, <1>4, <1>5

\* In an ordered queue the first message of a scan is its next one.
LEMMA TailOrdered ==
    ASSUME NEW q \in Seq(Answer), q # <<>>, Ordered(q)
    PROVE  /\ Ordered(Tail(q))
           /\ \A c, k : Head(q) = Batch(c, k) => \A j \in ComingIn(Tail(q), c) : k < j
           /\ \A c, s : Head(q) = Finished(c, s) =>
                 ComingIn(Tail(q), c) = {} /\ EndsIn(Tail(q), c) = {}
  <1>1. /\ Len(q) \in Nat /\ Len(q) > 0
        /\ DOMAIN q = 1 .. Len(q) /\ DOMAIN Tail(q) = 1 .. Len(q) - 1
        /\ \A i \in 1 .. Len(q) - 1 : Tail(q)[i] = q[i + 1] /\ i + 1 \in 1 .. Len(q)
        /\ Head(q) = q[1]
    OBVIOUS
  <1>2. Ordered(Tail(q))
    <2> SUFFICES ASSUME NEW i \in DOMAIN Tail(q), NEW j \in DOMAIN Tail(q),
                        i < j, Tail(q)[i].id = Tail(q)[j].id
                 PROVE  /\ Tail(q)[i].type = "batch"
                        /\ Tail(q)[j].type = "batch" => Tail(q)[i].index < Tail(q)[j].index
      BY DEF Ordered
    <2>1. i + 1 < j + 1
      BY <1>1
    <2> QED BY <1>1, <2>1 DEF Ordered
  <1>3. ASSUME NEW i \in DOMAIN Tail(q), Tail(q)[i].id = Head(q).id
        PROVE  /\ Head(q).type = "batch"
               /\ Tail(q)[i].type = "batch" => Head(q).index < Tail(q)[i].index
    <2>1. 1 < i + 1 /\ 1 \in DOMAIN q /\ i + 1 \in DOMAIN q
      BY <1>1
    <2> QED BY <1>1, <1>3, <2>1 DEF Ordered
  <1>4. ASSUME NEW c, NEW k, Head(q) = Batch(c, k), NEW j \in ComingIn(Tail(q), c)
        PROVE  k < j
    <2>1. PICK i \in DOMAIN Tail(q) : Tail(q)[i] = Batch(c, j)
      BY <1>4 DEF ComingIn
    <2>2. /\ Tail(q)[i].id = Head(q).id /\ Tail(q)[i].type = "batch"
          /\ Tail(q)[i].index = j /\ Head(q).index = k
      BY <1>4, <2>1 DEF Batch
    <2> QED BY <1>3, <2>2
  <1>5. ASSUME NEW c, NEW s, Head(q) = Finished(c, s)
        PROVE  ComingIn(Tail(q), c) = {} /\ EndsIn(Tail(q), c) = {}
    <2>1. Head(q).id = c /\ Head(q).type = "finished"
      BY <1>5 DEF Finished
    <2>2. \A i \in DOMAIN Tail(q) : Tail(q)[i].id # c
      BY <1>3, <2>1
    <2>3. \A x : Batch(c, x).id = c /\ Finished(c, x).id = c
      BY DEF Batch, Finished
    <2> QED BY <2>2, <2>3 DEF ComingIn, EndsIn
  <1> QED BY <1>2, <1>4, <1>5

LEMMA AppendOrdered ==
    ASSUME NEW q \in Seq(Answer), NEW m \in Answer, Ordered(q),
           EndsIn(q, m.id) = {},
           m.type = "batch" => \A k \in ComingIn(q, m.id) : k < m.index
    PROVE  Ordered(Append(q, m))
  <1>1. /\ Len(q) \in Nat
        /\ DOMAIN q = 1 .. Len(q) /\ DOMAIN Append(q, m) = 1 .. Len(q) + 1
        /\ \A i \in 1 .. Len(q) : Append(q, m)[i] = q[i] /\ q[i] \in Answer
        /\ Append(q, m)[Len(q) + 1] = m
    OBVIOUS
  <1>2. ASSUME NEW i \in DOMAIN q, q[i].id = m.id
        PROVE  /\ q[i].type = "batch"
               /\ m.type = "batch" => q[i].index < m.index
    <2>1. /\ q[i].index \in 0 .. Batches
          /\ \/ q[i].type = "batch" /\ q[i] = Batch(m.id, q[i].index)
             \/ q[i].status \in Status /\ q[i] = Finished(m.id, q[i].status)
      BY <1>1, <1>2, AnswerForms
    <2>2. ~(q[i].status \in Status /\ q[i] = Finished(m.id, q[i].status))
      BY DEF EndsIn
    <2>3. q[i].index \in ComingIn(q, m.id)
      BY <2>1, <2>2 DEF ComingIn
    <2> QED BY <2>1, <2>2, <2>3
  <1> SUFFICES ASSUME NEW i \in 1 .. Len(q) + 1, NEW j \in 1 .. Len(q) + 1,
                      i < j, Append(q, m)[i].id = Append(q, m)[j].id
               PROVE  /\ Append(q, m)[i].type = "batch"
                      /\ Append(q, m)[j].type = "batch" =>
                            Append(q, m)[i].index < Append(q, m)[j].index
    BY <1>1 DEF Ordered
  <1>3. i \in 1 .. Len(q)
    BY <1>1
  <1>4. CASE j \in 1 .. Len(q)
    BY <1>1, <1>3, <1>4 DEF Ordered
  <1>5. CASE j = Len(q) + 1
    BY <1>1, <1>2, <1>3, <1>5
  <1> QED BY <1>1, <1>4, <1>5

LEMMA PushFront ==
    ASSUME NEW q \in Seq(Answer), NEW m \in Answer
    PROVE  /\ <<m>> \o q \in Seq(Answer) /\ <<m>> \o q # <<>>
           /\ Head(<<m>> \o q) = m /\ Tail(<<m>> \o q) = q
           /\ \A x \in Answer : <<m>> \o Append(q, x) = Append(<<m>> \o q, x)
           /\ <<>> \o q = q
           /\ q # <<>> => <<Head(q)>> \o Tail(q) = q
  <1>1. <<m>> \o q \in Seq(Answer) /\ Len(<<m>> \o q) = Len(q) + 1
    OBVIOUS
  <1>2. Tail(<<m>> \o q) = q
    OBVIOUS
  <1>3. \A x \in Answer : <<m>> \o Append(q, x) = Append(<<m>> \o q, x)
    OBVIOUS
  <1>4. q # <<>> => <<Head(q)>> \o Tail(q) = q
    OBVIOUS
  <1>5. <<>> \o q = q
    OBVIOUS
  <1>6. <<m>> \o q # <<>> /\ Head(<<m>> \o q) = m
    BY <1>1
  <1> QED BY <1>1, <1>2, <1>3, <1>4, <1>5, <1>6

-----------------------------------------------------------------------------
\* Frames: what a step leaves alone.

ScanRecord == [terminal : BOOLEAN, next : 0 .. Batches, events : Seq(Message),
               abandoned : BOOLEAN]

CallerRecord ==
    [pc : {"idle", "registered", "waiting", "cancelling", "retiring", "sending", "done"},
     got : Seq(0 .. Batches), quiet : BOOLEAN,
     result : {"none", "ok", "agent", "busy", "closed", "timeout", "limit"}]

ExecRecord ==
    [pc : {"none", "collecting", "running", "sending", "stopping", "finished", "over"},
     sent : 0 .. Batches, cancelled : BOOLEAN]

SlotsOK ==
    /\ scans \subseteq Scan /\ IsFiniteSet(scans) /\ Cardinality(scans) <= MaxScans
    /\ retired \in Seq(Scan) /\ Len(retired) <= RetiredLimit
    /\ forgotten \subseteq Scan

PermitsOK == IsFiniteSet(Permits) /\ Cardinality(Permits) <= MaxScans

Records ==
    /\ scan \in [Scan -> ScanRecord] /\ caller \in [Scan -> CallerRecord]
    /\ exec \in [Scan -> ExecRecord]
    /\ \A c \in Scan : Len(scan[c].events) <= EventLimit

\* The queues alone.
Queues == QueueTypes /\ Ordered(Inbox) /\ AskedOnce(toAgent)

SameScan(d) ==
    /\ scan'[d] = scan[d] /\ caller'[d] = caller[d] /\ exec'[d] = exec[d]
    /\ d \in scans' <=> d \in scans
    /\ Asked(d)' <=> Asked(d)
    /\ Coming(d)' = Coming(d) /\ Ends(d)' = Ends(d)
    /\ Admitted(d)' <=> Admitted(d)
    /\ Admitted(d) => loop'.msg = loop.msg
    /\ open' <=> open

LEMMA IndParts ==
    IndInv <=> /\ ended \in {"no", "lost", "not_active", "invalid"}
               /\ SlotsOK /\ PermitsOK /\ Records /\ Queues
               /\ \A c \in Scan : ScanInv(c)
  <1> USE DEF ScanRecord, CallerRecord, ExecRecord
  <1>1. QueueTypes => /\ loop.pc \in {"receive", "found", "retire", "deliver"}
                      /\ loop.pc # "receive" => loop.msg \in Message
                      /\ toAgent \in Seq(Message) /\ toGateway \in Seq(Message)
    <2>1. Answer \subseteq Message /\ Demand \subseteq Message
      BY DEF Answer, Demand
    <2> QED BY <2>1, SeqMonotonic DEF QueueTypes
  <1> QED BY <1>1 DEF IndInv, TypeOK, Finite, SlotsOK, PermitsOK, Records, Queues

LEMMA IndParts1 ==
    ASSUME /\ ended' \in {"no", "lost", "not_active", "invalid"}
           /\ SlotsOK' /\ PermitsOK' /\ Records' /\ Queues'
           /\ \A c \in Scan : ScanInv(c)'
    PROVE  IndInv'
  <1> USE DEF ScanRecord, CallerRecord, ExecRecord
  <1>1. QueueTypes' => /\ (loop.pc \in {"receive", "found", "retire", "deliver"})'
                       /\ (loop.pc # "receive" => loop.msg \in Message)'
                       /\ (toAgent \in Seq(Message) /\ toGateway \in Seq(Message))'
    <2>1. Answer \subseteq Message /\ Demand \subseteq Message
      BY DEF Answer, Demand
    <2> QED BY <2>1, SeqMonotonic DEF QueueTypes
  <1> QED BY <1>1 DEF IndInv, TypeOK, Finite, SlotsOK, PermitsOK, Records, Queues

LEMMA SameScanKept ==
    ASSUME NEW d \in Scan, ScanInv(d), SameScan(d)
    PROVE  ScanInv(d)'
  <1> USE DEF SameScan
  <1>1. Fresh(d)'
    BY DEF ScanInv, Fresh, Working
  <1>2. Unanswered(d)'
    BY DEF ScanInv, Unanswered
  <1>3. Sending(d)'
    BY DEF ScanInv, Sending, Working
  <1>4. Wanted(d)'
    BY DEF ScanInv, Wanted, Working
  <1>5. Gapless(d)'
    BY DEF ScanInv, Gapless, Working
  <1>6. Marked(d)'
    BY DEF ScanInv, Marked
  <1>7. Delivery(d)'
    BY DEF ScanInv, Delivery
  <1>8. Awaited(d)'
    BY DEF ScanInv, Awaited, Working
  <1>9. Complete(d)'
    BY DEF ScanInv, Complete
  <1> QED BY <1>1, <1>2, <1>3, <1>4, <1>5, <1>6, <1>7, <1>8, <1>9 DEF ScanInv

\* A step of one scan.
LEMMA OneScanMoves ==
    ASSUME IndInv, NEW c \in Scan,
           ended' \in {"no", "lost", "not_active", "invalid"},
           SlotsOK', PermitsOK', Records', Queues',
           \A d \in Scan : d # c => SameScan(d),
           ScanInv(c)'
    PROVE  IndInv'
  <1>1. \A d \in Scan : ScanInv(d)
    BY DEF IndInv
  <1>2. \A d \in Scan : ScanInv(d)'
    BY <1>1, SameScanKept
  <1> QED BY <1>2, IndParts1

LEMMA QueuesSame ==
    ASSUME UNCHANGED <<ended, loop, toAgent, toGateway>>,
           NEW d \in Scan
    PROVE  /\ Asked(d)' <=> Asked(d)
           /\ Coming(d)' = Coming(d) /\ Ends(d)' = Ends(d)
           /\ Admitted(d)' <=> Admitted(d)
           /\ open' <=> open
  BY DEF Asked, Coming, Ends, Admitted, Inbox, open

\* A caller moves and leaves the queues alone.
LEMMA CallerMoves ==
    ASSUME IndInv, NEW c \in Scan,
           UNCHANGED <<ended, loop, toAgent, toGateway, exec>>,
           SlotsOK', Records', scan'[c].events \in Seq(Answer),
           \A d \in Scan : d # c => /\ scan'[d] = scan[d] /\ caller'[d] = caller[d]
                                    /\ d \in scans' <=> d \in scans,
           ScanInv(c)'
    PROVE  IndInv'
  <1>1. /\ ended \in {"no", "lost", "not_active", "invalid"}
        /\ PermitsOK /\ Queues
    BY IndParts
  <1>2. PermitsOK'
    BY <1>1 DEF PermitsOK, Permits
  <1>3. Queues'
    BY <1>1 DEF Queues, QueueTypes, Inbox, open
  <1>4. \A d \in Scan : d # c => SameScan(d)
    BY QueuesSame DEF SameScan
  <1> QED BY <1>1, <1>2, <1>3, <1>4, OneScanMoves

LEMMA Parts ==
    ASSUME IndInv, NEW c \in Scan
    PROVE  /\ scan[c] \in ScanRecord /\ caller[c] \in CallerRecord /\ exec[c] \in ExecRecord
           /\ scan[c].events \in Seq(Answer) /\ Len(scan[c].events) <= EventLimit
           /\ SlotsOK /\ PermitsOK /\ Records /\ Queues
           /\ Fresh(c) /\ Unanswered(c) /\ Sending(c) /\ Wanted(c) /\ Gapless(c) /\ Marked(c)
           /\ Delivery(c) /\ Awaited(c) /\ Complete(c)
  BY IndParts DEF Records, Queues, QueueTypes, ScanInv

LEMMA RetireSlots ==
    ASSUME SlotsOK, NEW c \in Scan, retireScan(c)
    PROVE  SlotsOK' /\ c \notin scans' /\ \A d \in Scan : d # c => (d \in scans' <=> d \in scans)
  <1> USE DEF retireScan, SlotsOK
  <1>1. /\ scans' \subseteq Scan /\ IsFiniteSet(scans') /\ Cardinality(scans') <= Cardinality(scans)
        /\ Cardinality(scans') \in Nat /\ Cardinality(scans) \in Nat
    <2>1. scans' \in SUBSET scans
      OBVIOUS
    <2> QED BY <2>1, FS_Subset, FS_CardinalityType
  <1>2. retired' \in Seq(Scan) /\ Len(retired') <= RetiredLimit /\ forgotten' \subseteq Scan
    <2>1. CASE ~(Len(retired) >= RetiredLimit)
      BY <2>1, ScanAssumption
    <2>2. CASE Len(retired) >= RetiredLimit
      <3>1. retired # <<>>
        BY <2>2, ScanAssumption
      <3>2. /\ Append(Tail(retired), c) \in Seq(Scan) /\ Head(retired) \in Scan
            /\ Len(Append(Tail(retired), c)) = Len(retired)
        BY <3>1
      <3> QED BY <2>2, <3>2
    <2> QED BY <2>1, <2>2
  <1> QED BY <1>1, <1>2, ScanAssumption

-----------------------------------------------------------------------------
\* The callers.

LEMMA GiveUpKeeps ==
    ASSUME IndInv, NEW c \in Scan, GiveUp(c)
    PROVE  IndInv'
  <1>0. /\ scan[c] \in ScanRecord /\ caller[c] \in CallerRecord /\ exec[c] \in ExecRecord
        /\ scan[c].events \in Seq(Answer) /\ Len(scan[c].events) <= EventLimit
        /\ SlotsOK /\ Records
        /\ Fresh(c) /\ Unanswered(c) /\ Sending(c) /\ Wanted(c) /\ Gapless(c) /\ Marked(c)
        /\ Delivery(c) /\ Awaited(c) /\ Complete(c)
    BY Parts
  <1>1. /\ Asked(c)' <=> Asked(c)
        /\ Coming(c)' = Coming(c) /\ Ends(c)' = Ends(c)
        /\ Admitted(c)' <=> Admitted(c)
        /\ open' <=> open
        /\ Working(c)' <=> Working(c)
    BY QueuesSame DEF GiveUp, gateway, Working
  <1>2. /\ caller'[c].pc = "cancelling" /\ caller'[c].got = caller[c].got
        /\ caller'[c].result = "timeout" /\ caller[c].pc = "waiting"
        /\ caller'[c] \in CallerRecord
        /\ UNCHANGED <<scans, scan, exec, loop>>
    BY <1>0 DEF GiveUp, gateway, Records, CallerRecord
  <1>3. /\ Records' /\ \A d \in Scan : d # c => caller'[d] = caller[d]
    BY <1>0, <1>2 DEF GiveUp, gateway, Records
  <1>4. Fresh(c)'
    BY <1>0, <1>1, <1>2 DEF Fresh
  <1>5. Unanswered(c)'
    BY <1>0, <1>1, <1>2 DEF Unanswered
  <1>6. Sending(c)'
    BY <1>0, <1>1, <1>2 DEF Sending
  <1>7. Wanted(c)'
    BY <1>0, <1>1, <1>2 DEF Wanted
  <1>8. Gapless(c)'
    BY <1>0, <1>1, <1>2 DEF Gapless
  <1>9. Marked(c)'
    BY <1>0, <1>1, <1>2 DEF Marked
  <1>10. Delivery(c)'
    BY <1>0, <1>1, <1>2 DEF Delivery
  <1>11. Awaited(c)'
    BY <1>0, <1>1, <1>2 DEF Awaited
  <1>12. Complete(c)'
    BY <1>0, <1>1, <1>2 DEF Complete
  <1>13. ScanInv(c)'
    BY <1>4, <1>5, <1>6, <1>7, <1>8, <1>9, <1>10, <1>11, <1>12 DEF ScanInv
  <1> QED BY <1>0, <1>2, <1>3, <1>13, CallerMoves DEF GiveUp, gateway, SlotsOK

LEMMA DisconnectedKeeps ==
    ASSUME IndInv, NEW c \in Scan, Disconnected(c)
    PROVE  IndInv'
  <1>0. /\ scan[c] \in ScanRecord /\ caller[c] \in CallerRecord /\ exec[c] \in ExecRecord
        /\ scan[c].events \in Seq(Answer) /\ Len(scan[c].events) <= EventLimit
        /\ SlotsOK /\ Records
        /\ Fresh(c) /\ Unanswered(c) /\ Sending(c) /\ Wanted(c) /\ Gapless(c) /\ Marked(c)
        /\ Delivery(c) /\ Awaited(c) /\ Complete(c)
    BY Parts
  <1>1. /\ Asked(c)' <=> Asked(c)
        /\ Coming(c)' = Coming(c) /\ Ends(c)' = Ends(c)
        /\ Admitted(c)' <=> Admitted(c)
        /\ open' <=> open
        /\ Working(c)' <=> Working(c)
    BY QueuesSame DEF Disconnected, gateway, Working
  <1>2. /\ caller'[c].pc = "cancelling" /\ caller'[c].got = caller[c].got
        /\ caller'[c].result = "closed" /\ caller[c].pc = "waiting"
        /\ caller'[c] \in CallerRecord
        /\ UNCHANGED <<scans, scan, exec, loop>>
    BY <1>0 DEF Disconnected, gateway, Records, CallerRecord
  <1>3. /\ Records' /\ \A d \in Scan : d # c => caller'[d] = caller[d]
    BY <1>0, <1>2 DEF Disconnected, gateway, Records
  <1>4. Fresh(c)'
    BY <1>0, <1>1, <1>2 DEF Fresh
  <1>5. Unanswered(c)'
    BY <1>0, <1>1, <1>2 DEF Unanswered
  <1>6. Sending(c)'
    BY <1>0, <1>1, <1>2 DEF Sending
  <1>7. Wanted(c)'
    BY <1>0, <1>1, <1>2 DEF Wanted
  <1>8. Gapless(c)'
    BY <1>0, <1>1, <1>2 DEF Gapless
  <1>9. Marked(c)'
    BY <1>0, <1>1, <1>2 DEF Marked
  <1>10. Delivery(c)'
    BY <1>0, <1>1, <1>2 DEF Delivery
  <1>11. Awaited(c)'
    BY <1>0, <1>1, <1>2 DEF Awaited
  <1>12. Complete(c)'
    BY <1>0, <1>1, <1>2 DEF Complete
  <1>13. ScanInv(c)'
    BY <1>4, <1>5, <1>6, <1>7, <1>8, <1>9, <1>10, <1>11, <1>12 DEF ScanInv
  <1> QED BY <1>0, <1>2, <1>3, <1>13, CallerMoves DEF Disconnected, gateway, SlotsOK

LEMMA CancelMarkKeeps ==
    ASSUME IndInv, NEW c \in Scan, CancelMark(c)
    PROVE  IndInv'
  <1>0. /\ scan[c] \in ScanRecord /\ caller[c] \in CallerRecord /\ exec[c] \in ExecRecord
        /\ scan[c].events \in Seq(Answer) /\ Len(scan[c].events) <= EventLimit
        /\ SlotsOK /\ Records
        /\ Fresh(c) /\ Unanswered(c) /\ Sending(c) /\ Wanted(c) /\ Gapless(c) /\ Marked(c)
        /\ Delivery(c) /\ Awaited(c) /\ Complete(c)
    BY Parts
  <1>1. /\ Asked(c)' <=> Asked(c)
        /\ Coming(c)' = Coming(c) /\ Ends(c)' = Ends(c)
        /\ Admitted(c)' <=> Admitted(c)
        /\ open' <=> open
        /\ Working(c)' <=> Working(c)
    BY QueuesSame DEF CancelMark, gateway, Working
  <1>2. /\ caller'[c].pc = "retiring" /\ caller'[c].got = caller[c].got
        /\ caller'[c].result = caller[c].result /\ caller[c].pc = "cancelling"
        /\ caller'[c] \in CallerRecord
        /\ scan'[c].terminal = TRUE /\ scan'[c].next = scan[c].next
        /\ scan'[c].events = scan[c].events /\ scan'[c].abandoned = scan[c].abandoned
        /\ scan'[c] \in ScanRecord
        /\ UNCHANGED <<scans, exec, loop>>
    <2>1. /\ scan'[c] = [scan[c] EXCEPT !.terminal = TRUE]
          /\ caller'[c] = [caller[c] EXCEPT !.pc = "retiring", !.quiet = scan[c].terminal]
      BY <1>0 DEF CancelMark, Records
    <2>2. scan[c].terminal \in BOOLEAN
      BY <1>0 DEF ScanRecord
    <2>3. /\ caller'[c].pc = "retiring" /\ caller'[c].got = caller[c].got
          /\ caller'[c].result = caller[c].result /\ caller'[c] \in CallerRecord
      BY <1>0, <2>1, <2>2 DEF CallerRecord
    <2>4. /\ scan'[c].terminal = TRUE /\ scan'[c].next = scan[c].next
          /\ scan'[c].events = scan[c].events /\ scan'[c].abandoned = scan[c].abandoned
          /\ scan'[c] \in ScanRecord
      BY <1>0, <2>1 DEF ScanRecord
    <2> QED BY <2>3, <2>4 DEF CancelMark
  <1>3. /\ Records' /\ \A d \in Scan : d # c => caller'[d] = caller[d] /\ scan'[d] = scan[d]
    BY <1>0, <1>2 DEF CancelMark, Records
  <1>4. Fresh(c)'
    BY <1>0, <1>1, <1>2 DEF Fresh
  <1>5. Unanswered(c)'
    BY <1>0, <1>1, <1>2 DEF Unanswered
  <1>6. Sending(c)'
    BY <1>0, <1>1, <1>2 DEF Sending
  <1>7. Wanted(c)'
    BY <1>0, <1>1, <1>2 DEF Wanted
  <1>8. Gapless(c)'
    BY <1>0, <1>1, <1>2 DEF Gapless
  <1>9. Marked(c)'
    BY <1>0, <1>1, <1>2 DEF Marked
  <1>10. Delivery(c)'
    BY <1>0, <1>1, <1>2 DEF Delivery
  <1>11. Awaited(c)'
    BY <1>0, <1>1, <1>2 DEF Awaited
  <1>12. Complete(c)'
    BY <1>0, <1>1, <1>2 DEF Complete
  <1>13. ScanInv(c)'
    BY <1>4, <1>5, <1>6, <1>7, <1>8, <1>9, <1>10, <1>11, <1>12 DEF ScanInv
  <1> QED BY <1>0, <1>2, <1>3, <1>13, CallerMoves DEF CancelMark, SlotsOK

LEMMA CancelRetireKeeps ==
    ASSUME IndInv, NEW c \in Scan, CancelRetire(c)
    PROVE  IndInv'
  <1>0. /\ scan[c] \in ScanRecord /\ caller[c] \in CallerRecord /\ exec[c] \in ExecRecord
        /\ scan[c].events \in Seq(Answer) /\ Len(scan[c].events) <= EventLimit
        /\ SlotsOK /\ Records
        /\ Fresh(c) /\ Unanswered(c) /\ Sending(c) /\ Wanted(c) /\ Gapless(c) /\ Marked(c)
        /\ Delivery(c) /\ Awaited(c) /\ Complete(c)
    BY Parts
  <1>1. /\ Asked(c)' <=> Asked(c)
        /\ Coming(c)' = Coming(c) /\ Ends(c)' = Ends(c)
        /\ Admitted(c)' <=> Admitted(c)
        /\ open' <=> open
        /\ Working(c)' <=> Working(c)
    BY QueuesSame DEF CancelRetire, gateway, Working
  <1>2. /\ caller'[c].pc = "sending" /\ caller'[c].got = caller[c].got
        /\ caller'[c].result = caller[c].result /\ caller[c].pc = "retiring"
        /\ caller'[c] \in CallerRecord
        /\ UNCHANGED <<scan, exec, loop>>
    BY <1>0 DEF CancelRetire, Records, CallerRecord
  <1>3. /\ Records' /\ \A d \in Scan : d # c => caller'[d] = caller[d]
    BY <1>0, <1>2 DEF CancelRetire, Records
  <1>4. SlotsOK' /\ \A d \in Scan : d # c => (d \in scans' <=> d \in scans)
    BY <1>0, RetireSlots DEF CancelRetire
  <1>5. Fresh(c)'
    BY <1>0, <1>1, <1>2 DEF Fresh
  <1>6. Unanswered(c)'
    BY <1>0, <1>1, <1>2 DEF Unanswered
  <1>7. Sending(c)'
    BY <1>0, <1>1, <1>2 DEF Sending
  <1>8. Wanted(c)'
    BY <1>0, <1>1, <1>2 DEF Wanted
  <1>9. Gapless(c)'
    BY <1>0, <1>1, <1>2 DEF Gapless
  <1>10. Marked(c)'
    BY <1>0, <1>1, <1>2 DEF Marked
  <1>11. Delivery(c)'
    BY <1>0, <1>1, <1>2 DEF Delivery
  <1>12. Awaited(c)'
    BY <1>0, <1>1, <1>2 DEF Awaited
  <1>13. Complete(c)'
    BY <1>0, <1>1, <1>2 DEF Complete
  <1>14. ScanInv(c)'
    BY <1>5, <1>6, <1>7, <1>8, <1>9, <1>10, <1>11, <1>12, <1>13 DEF ScanInv
  <1> QED BY <1>0, <1>2, <1>3, <1>4, <1>14, CallerMoves DEF CancelRetire

LEMMA StartScanKeeps ==
    ASSUME IndInv, NEW c \in Scan, StartScan(c)
    PROVE  IndInv'
  <1>0. /\ scan[c] \in ScanRecord /\ caller[c] \in CallerRecord /\ exec[c] \in ExecRecord
        /\ scan[c].events \in Seq(Answer) /\ Len(scan[c].events) <= EventLimit
        /\ SlotsOK /\ Records
        /\ Fresh(c) /\ Unanswered(c) /\ Sending(c) /\ Wanted(c) /\ Gapless(c) /\ Marked(c)
        /\ Delivery(c) /\ Awaited(c) /\ Complete(c)
    BY Parts
  <1>1. /\ Asked(c)' <=> Asked(c)
        /\ Coming(c)' = Coming(c) /\ Ends(c)' = Ends(c)
        /\ Admitted(c)' <=> Admitted(c)
        /\ open' <=> open
        /\ Working(c)' <=> Working(c)
    BY QueuesSame DEF StartScan, gateway, Working
  <1>2. caller[c].pc = "idle" /\ UNCHANGED <<ended, retired, forgotten, scan, loop, toAgent, toGateway, exec>>
    BY DEF StartScan
  <1>3. CASE /\ open /\ Cardinality(scans) < MaxScans /\ scans' = scans \cup {c}
             /\ caller' = [caller EXCEPT ![c].pc = "registered"]
    <2>1. /\ caller'[c].pc = "registered" /\ caller'[c].got = caller[c].got
          /\ caller'[c].result = caller[c].result /\ caller'[c] \in CallerRecord
      BY <1>0, <1>3 DEF Records, CallerRecord
    <2>2. Records' /\ \A d \in Scan : d # c => caller'[d] = caller[d]
      BY <1>0, <1>2, <1>3, <2>1 DEF Records
    <2>3. SlotsOK'
      <3>1. /\ IsFiniteSet(scans \cup {c})
            /\ Cardinality(scans \cup {c}) = IF c \in scans THEN Cardinality(scans)
                                            ELSE Cardinality(scans) + 1
        BY <1>0, FS_AddElement DEF SlotsOK
      <3>2. Cardinality(scans) \in Nat
        BY <1>0, FS_CardinalityType DEF SlotsOK
      <3> QED BY <1>0, <1>2, <1>3, <3>1, <3>2, ScanAssumption DEF SlotsOK
    <2>4. Fresh(c)'
      BY <1>0, <1>1, <1>2, <1>3, <2>1 DEF Fresh
    <2>5. Unanswered(c)'
      BY <1>0, <1>1, <1>2, <1>3, <2>1 DEF Unanswered
    <2>6. Sending(c)'
      BY <1>0, <1>1, <1>2, <1>3, <2>1 DEF Sending
    <2>7. Wanted(c)'
      BY <1>0, <1>1, <1>2, <1>3, <2>1 DEF Wanted
    <2>8. Gapless(c)'
      BY <1>0, <1>1, <1>2, <1>3, <2>1 DEF Gapless
    <2>9. Marked(c)'
      BY <1>0, <1>1, <1>2, <1>3, <2>1 DEF Marked
    <2>10. Delivery(c)'
      BY <1>0, <1>1, <1>2, <1>3, <2>1 DEF Delivery
    <2>11. Awaited(c)'
      BY <1>0, <1>1, <1>2, <1>3, <2>1 DEF Awaited
    <2>12. Complete(c)'
      BY <1>0, <1>1, <1>2, <1>3, <2>1 DEF Complete
    <2>13. ScanInv(c)'
      BY <2>4, <2>5, <2>6, <2>7, <2>8, <2>9, <2>10, <2>11, <2>12 DEF ScanInv
    <2> QED BY <1>0, <1>2, <1>3, <2>1, <2>2, <2>3, <2>13, CallerMoves
  <1>4. CASE \E why \in {"busy", "closed"} : Failed(c, why) /\ UNCHANGED scans
    <2>1. /\ caller'[c].pc = "done" /\ caller'[c].got = <<>>
          /\ caller'[c].result \in {"busy", "closed"} /\ caller'[c] \in CallerRecord
      BY <1>0, <1>4 DEF Records, CallerRecord, Failed
    <2>2. Records' /\ \A d \in Scan : d # c => caller'[d] = caller[d]
      BY <1>0, <1>2, <1>4, <2>1 DEF Records, Failed
    <2>3. SlotsOK'
      BY <1>0, <1>2, <1>4 DEF SlotsOK
    <2>4. Fresh(c)'
      BY <1>0, <1>1, <1>2, <1>4, <2>1 DEF Fresh
    <2>5. Unanswered(c)'
      BY <1>0, <1>1, <1>2, <1>4, <2>1 DEF Unanswered, Fresh, NewScan
    <2>6. Sending(c)'
      BY <1>0, <1>1, <1>2, <1>4, <2>1 DEF Sending, Fresh, NewScan
    <2>7. Wanted(c)'
      BY <1>0, <1>1, <1>2, <1>4, <2>1 DEF Wanted, Fresh, NewScan
    <2>8. Gapless(c)'
      BY <1>0, <1>1, <1>2, <1>4, <2>1 DEF Gapless, Fresh, NewScan
    <2>9. Marked(c)'
      BY <1>0, <1>1, <1>2, <1>4, <2>1 DEF Marked, Fresh, NewScan
    <2>10. Delivery(c)'
      BY <1>0, <1>1, <1>2, <1>4, <2>1 DEF Delivery, Fresh, NewScan
    <2>11. Awaited(c)'
      BY <1>0, <1>1, <1>2, <1>4, <2>1 DEF Awaited, Fresh, NewScan
    <2>12. Complete(c)'
      BY <1>0, <1>1, <1>2, <1>4, <2>1 DEF Complete, Fresh, NewScan
    <2>13. ScanInv(c)'
      BY <2>4, <2>5, <2>6, <2>7, <2>8, <2>9, <2>10, <2>11, <2>12 DEF ScanInv
    <2> QED BY <1>0, <1>2, <1>4, <2>1, <2>2, <2>3, <2>13, CallerMoves
  <1> QED BY <1>3, <1>4 DEF StartScan

\* Next returns the first event of the buffer.
LEMMA ReadKeeps ==
    ASSUME IndInv, NEW c \in Scan, Read(c)
    PROVE  IndInv'
  <1>0. /\ scan[c] \in ScanRecord /\ caller[c] \in CallerRecord /\ exec[c] \in ExecRecord
        /\ scan[c].events \in Seq(Answer) /\ Len(scan[c].events) <= EventLimit
        /\ SlotsOK /\ Records
        /\ Fresh(c) /\ Unanswered(c) /\ Sending(c) /\ Wanted(c) /\ Gapless(c) /\ Marked(c)
        /\ Delivery(c) /\ Awaited(c) /\ Complete(c)
    BY Parts
  <1>1. /\ Asked(c)' <=> Asked(c)
        /\ Coming(c)' = Coming(c) /\ Ends(c)' = Ends(c)
        /\ Admitted(c)' <=> Admitted(c)
        /\ open' <=> open
        /\ Working(c)' <=> Working(c)
    BY QueuesSame DEF Read, gateway, Working
  <1> DEFINE got == caller[c].got
             events == scan[c].events
             m == Head(events)
  <1>2. /\ caller[c].pc = "waiting" /\ events # <<>>
        /\ scan' = [scan EXCEPT ![c].events = Tail(@)]
        /\ UNCHANGED <<ended, scans, retired, forgotten, loop, toAgent, toGateway, exec>>
    BY DEF Read
  <1>3. /\ Len(events) \in Nat /\ Len(events) > 0 /\ Len(got) \in Nat
        /\ m = events[1] /\ m \in Answer /\ Tail(events) \in Seq(Answer)
        /\ Len(Tail(events)) = Len(events) - 1 /\ DOMAIN events = 1 .. Len(events)
        /\ DOMAIN Tail(events) = 1 .. Len(events) - 1
        /\ \A i \in 1 .. Len(events) - 1 : Tail(events)[i] = events[i + 1]
        /\ Tail(events) \in Seq(Message) /\ got \in Seq(0 .. Batches)
        /\ DOMAIN got = 1 .. Len(got)
    <2>1. events \in Seq(Message) /\ got \in Seq(0 .. Batches)
      BY <1>0 DEF ScanRecord, CallerRecord
    <2> HIDE DEF events, got
    <2>2. Tail(events) \in Seq(Message)
      BY <1>2, <2>1
    <2>3. events \in Seq(Answer)
      BY <1>0 DEF events
    <2> QED BY <1>2, <2>1, <2>2, <2>3
  <1>4. /\ scan'[c].events = Tail(events) /\ scan'[c].next = scan[c].next
        /\ scan'[c].terminal = scan[c].terminal /\ scan'[c].abandoned = scan[c].abandoned
        /\ scan'[c] \in ScanRecord
        /\ \A d \in Scan : d # c => scan'[d] = scan[d]
        /\ scan' \in [Scan -> ScanRecord]
        /\ \A d \in Scan : Len(scan'[d].events) <= EventLimit
    <2>1. scan'[c] = [scan[c] EXCEPT !.events = Tail(events)]
      BY <1>0, <1>2 DEF Records
    <2>2. /\ scan'[c].events = Tail(events) /\ scan'[c].next = scan[c].next
          /\ scan'[c].terminal = scan[c].terminal /\ scan'[c].abandoned = scan[c].abandoned
          /\ scan'[c] \in ScanRecord
      BY <1>0, <1>3, <2>1 DEF ScanRecord
    <2>3. \A d \in Scan : d # c => scan'[d] = scan[d]
      BY <1>0, <1>2 DEF Records
    <2>4. Len(Tail(events)) <= EventLimit
      BY <1>0, <1>3, ScanAssumption
    <2> QED BY <1>0, <1>2, <2>2, <2>3, <2>4 DEF Records
  <1>5. SlotsOK'
    BY <1>0, <1>2 DEF SlotsOK
  <1>6. \/ m = Batch(c, Len(got))
        \/ /\ Len(events) = 1 /\ m.type = "finished"
           /\ m.status = "succeeded" => Len(got) = Batches
    <2>1. \/ events[1] = Batch(c, Len(got) + 1 - 1)
          \/ /\ 1 = Len(events) /\ events[1].type = "finished"
             /\ events[1].status = "succeeded" => Len(got) + Len(events) = Batches + 1
      <3>1. 1 \in 1 .. Len(events)
        BY <1>3
      <3> QED BY <1>0, <1>2, <3>1 DEF Delivery
    <2>2. Len(got) + 1 - 1 = Len(got)
      BY <1>3
    <2> HIDE DEF got, events, m
    <2>3. 1 = Len(events) /\ Len(got) + Len(events) = Batches + 1 => Len(got) = Batches
      <3> DEFINE n == Len(got)
                 l == Len(events)
      <3>1. n \in Nat /\ l \in Nat /\ Batches \in Nat
        BY <1>3, ScanAssumption
      <3> HIDE DEF n, l
      <3>2. 1 = l /\ n + l = Batches + 1 => n = Batches
        BY <3>1
      <3> QED BY <3>2 DEF n, l
    <2> QED BY <1>3, <2>1, <2>2, <2>3
  <1>8. m.type = "finished" => scan[c].terminal
    BY <1>0, <1>3 DEF Marked
  <1>9. \A i \in DOMAIN Tail(events) : Tail(events)[i].type = "finished" => scan[c].terminal
    BY <1>0, <1>3 DEF Marked
  <1> HIDE DEF got, events, m
  <1>10. CASE /\ m.status = "succeeded"
              /\ caller' = [caller EXCEPT ![c].pc = "done", ![c].result = "ok"]
    <2>1. /\ caller'[c].pc = "done" /\ caller'[c].got = got /\ caller'[c].result = "ok"
          /\ caller'[c] \in CallerRecord
      <3>1. caller'[c] = [caller[c] EXCEPT !.pc = "done", !.result = "ok"]
        BY <1>0, <1>10 DEF Records
      <3> QED BY <1>0, <3>1 DEF CallerRecord, got
    <2>2. Records' /\ \A d \in Scan : d # c => caller'[d] = caller[d]
      BY <1>0, <1>2, <1>4, <1>10, <2>1 DEF Records
    <2>3. m.type = "finished" /\ Len(got) = Batches
      <3>1. m # Batch(c, Len(got))
        BY <1>10 DEF Batch, NoStatus
      <3> QED BY <1>6, <1>10, <3>1
    <2>4. got = [i \in 1 .. Batches |-> i - 1]
      <3>1. \A i \in 1 .. Len(got) : got[i] = i - 1
        BY <1>0, <1>2 DEF Delivery, got
      <3> QED BY <1>3, <2>3, <3>1
    <2>5. Fresh(c)'
      BY <1>0, <1>1, <1>2, <1>4, <1>8, <1>9, <2>1, <2>3, <2>4 DEF Fresh
    <2>6. Unanswered(c)'
      BY <1>0, <1>1, <1>2, <1>4, <1>8, <1>9, <2>1, <2>3, <2>4 DEF Unanswered
    <2>7. Sending(c)'
      BY <1>0, <1>1, <1>2, <1>4, <1>8, <1>9, <2>1, <2>3, <2>4 DEF Sending
    <2>8. Wanted(c)'
      BY <1>0, <1>1, <1>2, <1>4, <1>8, <1>9, <2>1, <2>3, <2>4 DEF Wanted
    <2>9. Gapless(c)'
      BY <1>0, <1>1, <1>2, <1>4, <1>8, <1>9, <2>1, <2>3, <2>4 DEF Gapless
    <2>10. Marked(c)'
      BY <1>0, <1>1, <1>2, <1>4, <1>8, <1>9, <2>1, <2>3, <2>4 DEF Marked
    <2>11. Delivery(c)'
      BY <1>0, <1>1, <1>2, <1>4, <1>8, <1>9, <2>1, <2>3, <2>4 DEF Delivery
    <2>12. Awaited(c)'
      BY <1>0, <1>1, <1>2, <1>4, <1>8, <1>9, <2>1, <2>3, <2>4 DEF Awaited
    <2>13. Complete(c)'
      BY <1>0, <1>1, <1>2, <1>4, <1>8, <1>9, <2>1, <2>3, <2>4 DEF Complete
    <2>14. ScanInv(c)'
      BY <2>5, <2>6, <2>7, <2>8, <2>9, <2>10, <2>11, <2>12, <2>13 DEF ScanInv
    <2> QED BY <1>2, <1>3, <1>4, <1>5, <2>2, <2>14, CallerMoves
  <1>11. CASE m.status \in {"failed", "cancelled"} /\ Failed(c, "agent")
    <2>1. /\ caller'[c].pc = "done" /\ caller'[c].got = <<>> /\ caller'[c].result = "agent"
          /\ caller'[c] \in CallerRecord
      BY <1>0, <1>11 DEF Records, CallerRecord, Failed
    <2>2. Records' /\ \A d \in Scan : d # c => caller'[d] = caller[d]
      BY <1>0, <1>2, <1>4, <1>11, <2>1 DEF Records, Failed
    <2>3. m.type = "finished"
      <3>1. m # Batch(c, Len(got))
        BY <1>11 DEF Batch, NoStatus
      <3> QED BY <1>6, <1>11, <3>1
    <2>4. Fresh(c)'
      BY <1>0, <1>1, <1>2, <1>4, <1>8, <1>9, <2>1, <2>3 DEF Fresh
    <2>5. Unanswered(c)'
      BY <1>0, <1>1, <1>2, <1>4, <1>8, <1>9, <2>1, <2>3 DEF Unanswered
    <2>6. Sending(c)'
      BY <1>0, <1>1, <1>2, <1>4, <1>8, <1>9, <2>1, <2>3 DEF Sending
    <2>7. Wanted(c)'
      BY <1>0, <1>1, <1>2, <1>4, <1>8, <1>9, <2>1, <2>3 DEF Wanted
    <2>8. Gapless(c)'
      BY <1>0, <1>1, <1>2, <1>4, <1>8, <1>9, <2>1, <2>3 DEF Gapless
    <2>9. Marked(c)'
      BY <1>0, <1>1, <1>2, <1>4, <1>8, <1>9, <2>1, <2>3 DEF Marked
    <2>10. Delivery(c)'
      BY <1>0, <1>1, <1>2, <1>4, <1>8, <1>9, <2>1, <2>3 DEF Delivery
    <2>11. Awaited(c)'
      BY <1>0, <1>1, <1>2, <1>4, <1>8, <1>9, <2>1, <2>3 DEF Awaited
    <2>12. Complete(c)'
      BY <1>0, <1>1, <1>2, <1>4, <1>8, <1>9, <2>1, <2>3 DEF Complete
    <2>13. ScanInv(c)'
      BY <2>4, <2>5, <2>6, <2>7, <2>8, <2>9, <2>10, <2>11, <2>12 DEF ScanInv
    <2> QED BY <1>2, <1>3, <1>4, <1>5, <2>2, <2>13, CallerMoves
  <1>12. CASE m.type = "batch" /\ caller' = [caller EXCEPT ![c].got = Append(@, m.index)]
    <2>0. /\ m.index = Len(got) /\ m = Batch(c, Len(got)) /\ m.index \in 0 .. Batches
      BY <1>3, <1>6, <1>12, AnswerForms DEF Batch
    <2>1. /\ caller'[c].pc = "waiting" /\ caller'[c].got = Append(got, m.index)
          /\ caller'[c].result = caller[c].result /\ caller'[c] \in CallerRecord
      <3>1. caller'[c] = [caller[c] EXCEPT !.got = Append(got, m.index)]
        BY <1>0, <1>12 DEF Records, got
      <3>2. Append(got, m.index) \in Seq(0 .. Batches)
        BY <1>3, <2>0
      <3> QED BY <1>0, <1>2, <3>1, <3>2 DEF CallerRecord
    <2>2. Records' /\ \A d \in Scan : d # c => caller'[d] = caller[d]
      BY <1>0, <1>2, <1>4, <1>12, <2>1 DEF Records
    <2>3. /\ Len(Append(got, m.index)) = Len(got) + 1
          /\ \A i \in 1 .. Len(got) : Append(got, m.index)[i] = got[i]
          /\ Append(got, m.index)[Len(got) + 1] = Len(got)
      BY <1>3, <2>0
    <2>4. Fresh(c)'
      BY <1>0, <1>1, <1>2, <1>4, <1>8, <1>9, <2>1 DEF Fresh
    <2>5. Unanswered(c)'
      BY <1>0, <1>1, <1>2, <1>4, <1>8, <1>9, <2>1 DEF Unanswered
    <2>6. Sending(c)'
      BY <1>0, <1>1, <1>2, <1>4, <1>8, <1>9, <2>1 DEF Sending
    <2>7. Wanted(c)'
      BY <1>0, <1>1, <1>2, <1>4, <1>8, <1>9, <2>1 DEF Wanted
    <2>8. Gapless(c)'
      BY <1>0, <1>1, <1>2, <1>4, <1>8, <1>9, <2>1 DEF Gapless
    <2>9. Marked(c)'
      BY <1>0, <1>1, <1>2, <1>4, <1>8, <1>9, <2>1 DEF Marked
    <2>10. Delivery(c)'
      <3> DEFINE g == Append(got, m.index)
                 e == Tail(events)
      <3>1. /\ Len(g) = Len(got) + 1 /\ Len(e) = Len(events) - 1
            /\ Len(g) + Len(e) = Len(got) + Len(events)
        BY <1>3, <2>3
      <3>2. \A i \in 1 .. Len(g) : g[i] = i - 1
        <4>1. \A i \in 1 .. Len(got) : got[i] = i - 1
          BY <1>0, <1>2 DEF Delivery, got
        <4> QED BY <1>3, <2>3, <4>1
      <3>3. ASSUME NEW i \in 1 .. Len(e)
            PROVE  \/ e[i] = Batch(c, Len(g) + i - 1)
                   \/ /\ i = Len(e) /\ e[i].type = "finished"
                      /\ e[i].status = "succeeded" => Len(g) + Len(e) = Batches + 1
        <4>1. i + 1 \in 1 .. Len(events) /\ e[i] = events[i + 1]
          BY <1>3
        <4>2. \/ events[i + 1] = Batch(c, Len(got) + (i + 1) - 1)
              \/ /\ i + 1 = Len(events) /\ events[i + 1].type = "finished"
                 /\ events[i + 1].status = "succeeded" => Len(got) + Len(events) = Batches + 1
          BY <1>0, <1>2, <4>1 DEF Delivery, got, events
        <4>3. Len(got) + (i + 1) - 1 = Len(g) + i - 1 /\ (i + 1 = Len(events) => i = Len(e))
          <5> DEFINE n == Len(got)
                     l == Len(events)
                     x == Len(g)
                     y == Len(e)
          <5>1. i \in Nat /\ n \in Nat /\ l \in Nat /\ x = n + 1 /\ y = l - 1
            BY <1>3, <3>1
          <5> HIDE DEF n, l, x, y
          <5>2. n + (i + 1) - 1 = x + i - 1 /\ (i + 1 = l => i = y)
            BY <5>1
          <5> QED BY <5>2 DEF n, l, x, y
        <4> QED BY <3>1, <4>1, <4>2, <4>3
      <3>4. Admitted(c) =>
              /\ \A i \in 1 .. Len(e) : e[i].type = "batch"
              /\ loop.msg.type = "batch" => loop.msg = Batch(c, Len(g) + Len(e))
              /\ loop.msg.status = "succeeded" => Len(g) + Len(e) = Batches
        <4>1. Admitted(c) =>
              /\ \A i \in 1 .. Len(events) : events[i].type = "batch"
              /\ loop.msg.type = "batch" => loop.msg = Batch(c, Len(got) + Len(events))
              /\ loop.msg.status = "succeeded" => Len(got) + Len(events) = Batches
          BY <1>0, <1>2 DEF Delivery, got, events
        <4> QED BY <1>3, <3>1, <4>1
      <3>5. open /\ ~scan[c].terminal =>
              scan[c].next = Len(g) + Len(e) + (IF Admitted(c) THEN 1 ELSE 0)
        <4>1. open /\ ~scan[c].terminal =>
              scan[c].next = Len(got) + Len(events) + (IF Admitted(c) THEN 1 ELSE 0)
          BY <1>0, <1>2 DEF Delivery, got, events
        <4> QED BY <3>1, <4>1
      <3>6. open /\ scan[c].terminal =>
              \/ \E i \in 1 .. Len(e) : e[i].type = "finished"
              \/ Admitted(c) /\ loop.msg.type = "finished"
        <4>1. open /\ scan[c].terminal =>
              \/ \E i \in 1 .. Len(events) : events[i].type = "finished"
              \/ Admitted(c) /\ loop.msg.type = "finished"
          BY <1>0, <1>2 DEF Delivery, got, events
        <4>2. ASSUME NEW i \in 1 .. Len(events), events[i].type = "finished"
              PROVE  \E j \in 1 .. Len(e) : e[j].type = "finished"
          <5>1. i # 1
            BY <1>3, <1>12, <4>2
          <5>2. i - 1 \in 1 .. Len(e) /\ e[i - 1] = events[(i - 1) + 1] /\ (i - 1) + 1 = i
            BY <1>3, <5>1
          <5> QED BY <4>2, <5>2
        <4> QED BY <4>1, <4>2
      <3>7. caller'[c].got = g /\ scan'[c].events = e /\ loop' = loop
        BY <1>2, <1>4, <2>1
      <3> HIDE DEF g, e
      <3> QED BY <1>1, <1>4, <3>2, <3>3, <3>4, <3>5, <3>6, <3>7 DEF Delivery
    <2>11. Awaited(c)'
      BY <1>0, <1>1, <1>2, <1>4, <1>8, <1>9, <2>1 DEF Awaited
    <2>12. Complete(c)'
      BY <1>0, <1>1, <1>2, <1>4, <1>8, <1>9, <2>1 DEF Complete
    <2>13. ScanInv(c)'
      BY <2>4, <2>5, <2>6, <2>7, <2>8, <2>9, <2>10, <2>11, <2>12 DEF ScanInv
    <2> QED BY <1>2, <1>3, <1>4, <1>5, <2>2, <2>13, CallerMoves
  <1>13. CASE /\ m.type = "batch"
              /\ caller' = [caller EXCEPT ![c].pc = "cancelling", ![c].result = "limit"]
    <2>1. /\ caller'[c].pc = "cancelling" /\ caller'[c].got = got /\ caller'[c].result = "limit"
          /\ caller'[c] \in CallerRecord
      <3>1. caller'[c] = [caller[c] EXCEPT !.pc = "cancelling", !.result = "limit"]
        BY <1>0, <1>13 DEF Records
      <3> QED BY <1>0, <3>1 DEF CallerRecord, got
    <2>2. Records' /\ \A d \in Scan : d # c => caller'[d] = caller[d]
      BY <1>0, <1>2, <1>4, <1>13, <2>1 DEF Records
    <2>3. Fresh(c)'
      BY <1>0, <1>1, <1>2, <1>4, <1>8, <1>9, <2>1 DEF Fresh
    <2>4. Unanswered(c)'
      BY <1>0, <1>1, <1>2, <1>4, <1>8, <1>9, <2>1 DEF Unanswered
    <2>5. Sending(c)'
      BY <1>0, <1>1, <1>2, <1>4, <1>8, <1>9, <2>1 DEF Sending
    <2>6. Wanted(c)'
      BY <1>0, <1>1, <1>2, <1>4, <1>8, <1>9, <2>1 DEF Wanted
    <2>7. Gapless(c)'
      BY <1>0, <1>1, <1>2, <1>4, <1>8, <1>9, <2>1 DEF Gapless
    <2>8. Marked(c)'
      BY <1>0, <1>1, <1>2, <1>4, <1>8, <1>9, <2>1 DEF Marked
    <2>9. Delivery(c)'
      BY <1>0, <1>1, <1>2, <1>4, <1>8, <1>9, <2>1 DEF Delivery
    <2>10. Awaited(c)'
      BY <1>0, <1>1, <1>2, <1>4, <1>8, <1>9, <2>1 DEF Awaited
    <2>11. Complete(c)'
      BY <1>0, <1>1, <1>2, <1>4, <1>8, <1>9, <2>1 DEF Complete
    <2>12. ScanInv(c)'
      BY <2>3, <2>4, <2>5, <2>6, <2>7, <2>8, <2>9, <2>10, <2>11 DEF ScanInv
    <2> QED BY <1>2, <1>3, <1>4, <1>5, <2>2, <2>12, CallerMoves
  <1> QED BY <1>10, <1>11, <1>12, <1>13 DEF Read, m, events

\* A step appends to the queue of the agent.
LEMMA DemandMoves ==
    ASSUME IndInv, NEW c \in Scan, NEW m \in Demand, m.id = c,
           UNCHANGED <<ended, loop, toGateway, exec>>,
           open, toAgent' = Append(toAgent, m),
           m.type = "scan" => m = Request(c) /\ ~Asked(c),
           m.type # "scan" => m = CancelScan(c),
           SlotsOK', Records', scan'[c].events = scan[c].events,
           \A d \in Scan : d # c => /\ scan'[d] = scan[d] /\ caller'[d] = caller[d]
                                    /\ d \in scans' <=> d \in scans,
           ScanInv(c)'
    PROVE  IndInv'
  <1>1. /\ ended \in {"no", "lost", "not_active", "invalid"}
        /\ PermitsOK /\ Queues
    BY IndParts
  <1>2. PermitsOK'
    BY <1>1 DEF PermitsOK, Permits
  <1>3. toAgent' \in Seq(Demand) /\ \A d : Asked(d)' <=> Asked(d) \/ m = Request(d)
    BY <1>1, AppendAsked DEF Queues, QueueTypes, Asked
  <1>4. AskedOnce(toAgent)'
    BY <1>1, AppendAskedOnce DEF Queues, QueueTypes, Asked
  <1>5. Queues'
    BY <1>1, <1>3, <1>4 DEF Queues, QueueTypes, Inbox, open
  <1>6. \A d \in Scan : d # c => SameScan(d)
    <2>1. \A d \in Scan : d # c => (Asked(d)' <=> Asked(d))
      BY <1>3, SameMessage DEF Request, CancelScan
    <2>2. \A d \in Scan : /\ Coming(d)' = Coming(d) /\ Ends(d)' = Ends(d)
                          /\ Admitted(d)' <=> Admitted(d)
                          /\ open' <=> open
      BY DEF Coming, Ends, Admitted, Inbox, open
    <2> QED BY <2>1, <2>2 DEF SameScan
  <1> QED BY <1>1, <1>2, <1>5, <1>6, OneScanMoves

LEMMA DispatchKeeps ==
    ASSUME IndInv, NEW c \in Scan, Dispatch(c)
    PROVE  IndInv'
  <1>0. /\ scan[c] \in ScanRecord /\ caller[c] \in CallerRecord /\ exec[c] \in ExecRecord
        /\ scan[c].events \in Seq(Answer) /\ Len(scan[c].events) <= EventLimit
        /\ SlotsOK /\ Records
        /\ Fresh(c) /\ Unanswered(c) /\ Sending(c) /\ Wanted(c) /\ Gapless(c) /\ Marked(c)
        /\ Delivery(c) /\ Awaited(c) /\ Complete(c)
    BY Parts
  <1>1. caller[c].pc = "registered" /\ UNCHANGED <<ended, loop, toGateway, exec>>
    BY DEF Dispatch
  <1>2. /\ Coming(c)' = Coming(c) /\ Ends(c)' = Ends(c)
        /\ Admitted(c)' <=> Admitted(c)
        /\ open' <=> open
        /\ Working(c)' <=> Working(c)
    BY <1>1 DEF Coming, Ends, Admitted, Inbox, open, Working
  <1>3. CASE /\ open /\ toAgent' = Append(toAgent, Request(c))
             /\ caller' = [caller EXCEPT ![c].pc = "waiting"]
             /\ UNCHANGED <<scans, retired, forgotten, scan>>
    <2>1. /\ caller'[c].pc = "waiting" /\ caller'[c].got = <<>>
          /\ caller'[c].result = caller[c].result /\ caller'[c] \in CallerRecord
      BY <1>0, <1>1, <1>3 DEF Records, CallerRecord, Fresh
    <2>2. Records' /\ \A d \in Scan : d # c => caller'[d] = caller[d]
      BY <1>0, <1>1, <1>3, <2>1 DEF Records
    <2>3. Request(c) \in Demand /\ Request(c).id = c /\ Request(c).type = "scan"
      BY Messages DEF Request
    <2>4. toAgent \in Seq(Demand)
      BY Parts DEF Queues, QueueTypes
    <2>5. Asked(c)' /\ ~Asked(c)
      BY <1>0, <1>1, <1>3, <2>3, <2>4, AppendAsked DEF Asked, Fresh
    <2>6. /\ scan[c] = NewScan /\ scan' = scan /\ scans' = scans /\ Coming(c)' = {} /\ Ends(c)' = {}
          /\ ~Admitted(c)' /\ ~Working(c)' /\ exec'[c].pc = "none" /\ exec'[c].sent = 0
          /\ caller[c].result # "ok" /\ c \in scans
      BY <1>0, <1>1, <1>2, <1>3 DEF Fresh, Sending, Complete, Wanted, NewScan
    <2>7. /\ ~scan'[c].terminal /\ scan'[c].next = 0 /\ scan'[c].events = <<>>
          /\ ~scan'[c].abandoned
      BY <2>6 DEF NewScan
    <2>8. Fresh(c)'
      BY <2>1, <2>5, <2>6, <2>7 DEF Fresh
    <2>9. Unanswered(c)'
      BY <2>1, <2>5, <2>6, <2>7 DEF Unanswered
    <2>10. Sending(c)'
      BY <2>1, <2>5, <2>6, <2>7 DEF Sending
    <2>11. Wanted(c)'
      BY <2>1, <2>5, <2>6, <2>7 DEF Wanted
    <2>12. Gapless(c)'
      BY <2>1, <2>5, <2>6, <2>7 DEF Gapless
    <2>13. Marked(c)'
      BY <2>1, <2>5, <2>6, <2>7 DEF Marked
    <2>14. Delivery(c)'
      BY <2>1, <2>5, <2>6, <2>7 DEF Delivery
    <2>15. Awaited(c)'
      BY <2>1, <2>5, <2>6, <2>7 DEF Awaited
    <2>16. Complete(c)'
      BY <2>1, <2>5, <2>6, <2>7 DEF Complete
    <2>17. ScanInv(c)'
      BY <2>8, <2>9, <2>10, <2>11, <2>12, <2>13, <2>14, <2>15, <2>16 DEF ScanInv
    <2> QED BY <1>0, <1>1, <1>3, <2>2, <2>3, <2>5, <2>17, DemandMoves DEF SlotsOK
  <1>4. CASE /\ retireScan(c) /\ scan' = [scan EXCEPT ![c].abandoned = TRUE]
             /\ Failed(c, "closed") /\ UNCHANGED toAgent
    <2>1. /\ caller'[c].pc = "done" /\ caller'[c].got = <<>>
          /\ caller'[c].result = "closed" /\ caller'[c] \in CallerRecord
      BY <1>0, <1>4 DEF Records, CallerRecord, Failed
    <2>2. /\ scan'[c].terminal = scan[c].terminal /\ scan'[c].next = scan[c].next
          /\ scan'[c].events = scan[c].events /\ scan'[c].abandoned = TRUE
          /\ scan'[c] \in ScanRecord
      BY <1>0, <1>4 DEF Records, ScanRecord
    <2>3. Records' /\ \A d \in Scan : d # c => caller'[d] = caller[d] /\ scan'[d] = scan[d]
      BY <1>0, <1>1, <1>4, <2>1, <2>2 DEF Records, Failed
    <2>4. SlotsOK' /\ \A d \in Scan : d # c => (d \in scans' <=> d \in scans)
      BY <1>0, <1>4, RetireSlots
    <2>5. Asked(c)' <=> Asked(c)
      BY <1>4 DEF Asked
    <2>6. /\ scan[c] = NewScan /\ Coming(c)' = {} /\ Ends(c)' = {}
          /\ ~Admitted(c)' /\ ~Working(c)' /\ ~Asked(c)' /\ exec' = exec
      BY <1>0, <1>1, <1>2, <2>5 DEF Fresh
    <2>7. /\ ~scan'[c].terminal /\ scan'[c].next = 0 /\ scan'[c].events = <<>>
      BY <2>2, <2>6 DEF NewScan
    <2>8. Fresh(c)'
      BY <1>0, <2>1, <2>6, <2>7 DEF Fresh
    <2>9. Unanswered(c)'
      BY <1>0, <2>1, <2>6, <2>7 DEF Unanswered
    <2>10. Sending(c)'
      BY <1>0, <2>1, <2>6, <2>7 DEF Sending
    <2>11. Wanted(c)'
      BY <1>0, <2>1, <2>6, <2>7 DEF Wanted
    <2>12. Gapless(c)'
      BY <1>0, <2>1, <2>6, <2>7 DEF Gapless
    <2>13. Marked(c)'
      BY <1>0, <2>1, <2>6, <2>7 DEF Marked
    <2>14. Delivery(c)'
      BY <1>0, <2>1, <2>6, <2>7 DEF Delivery
    <2>15. Awaited(c)'
      BY <1>0, <2>1, <2>6, <2>7 DEF Awaited
    <2>16. Complete(c)'
      BY <1>0, <2>1, <2>6, <2>7 DEF Complete
    <2>17. ScanInv(c)'
      BY <2>8, <2>9, <2>10, <2>11, <2>12, <2>13, <2>14, <2>15, <2>16 DEF ScanInv
    <2> QED BY <1>0, <1>1, <1>4, <2>2, <2>3, <2>4, <2>17, CallerMoves
  <1> QED BY <1>3, <1>4 DEF Dispatch

LEMMA CancelSendKeeps ==
    ASSUME IndInv, NEW c \in Scan, CancelSend(c)
    PROVE  IndInv'
  <1>0. /\ scan[c] \in ScanRecord /\ caller[c] \in CallerRecord /\ exec[c] \in ExecRecord
        /\ scan[c].events \in Seq(Answer) /\ Len(scan[c].events) <= EventLimit
        /\ SlotsOK /\ Records
        /\ Fresh(c) /\ Unanswered(c) /\ Sending(c) /\ Wanted(c) /\ Gapless(c) /\ Marked(c)
        /\ Delivery(c) /\ Awaited(c) /\ Complete(c)
    BY Parts
  <1>1. /\ caller[c].pc = "sending" /\ UNCHANGED <<ended, scans, retired, forgotten, loop, toGateway, exec>>
        /\ scan' = [scan EXCEPT ![c].abandoned = TRUE] /\ Failed(c, caller[c].result)
    BY DEF CancelSend
  <1>2. /\ Coming(c)' = Coming(c) /\ Ends(c)' = Ends(c)
        /\ Admitted(c)' <=> Admitted(c)
        /\ open' <=> open
        /\ Working(c)' <=> Working(c)
    BY <1>1 DEF Coming, Ends, Admitted, Inbox, open, Working
  <1>3. /\ caller'[c].pc = "done" /\ caller'[c].got = <<>>
        /\ caller'[c].result = caller[c].result /\ caller'[c] \in CallerRecord
    BY <1>0, <1>1 DEF Records, CallerRecord, Failed
  <1>4. /\ scan'[c].terminal = scan[c].terminal /\ scan'[c].next = scan[c].next
        /\ scan'[c].events = scan[c].events /\ scan'[c].abandoned = TRUE
        /\ scan'[c] \in ScanRecord
    BY <1>0, <1>1 DEF Records, ScanRecord
  <1>5. Records' /\ \A d \in Scan : d # c => caller'[d] = caller[d] /\ scan'[d] = scan[d]
    BY <1>0, <1>1, <1>3, <1>4 DEF Records, Failed
  <1>6. Asked(c)' <=> Asked(c)
    <2>1. CASE toAgent' = Append(toAgent, CancelScan(c))
      <3>1. toAgent \in Seq(Demand) /\ CancelScan(c) \in Demand
        BY Parts, Messages DEF Queues, QueueTypes
      <3>2. AskedIn(Append(toAgent, CancelScan(c)), c) <=>
              AskedIn(toAgent, c) \/ CancelScan(c) = Request(c)
        BY <3>1, AppendAsked
      <3>3. CancelScan(c) # Request(c)
        BY SameMessage
      <3> QED BY <2>1, <3>2, <3>3 DEF Asked
    <2>2. CASE toAgent' = toAgent
      BY <2>2 DEF Asked
    <2> QED BY <2>1, <2>2 DEF CancelSend
  <1>7. scan[c].terminal /\ caller[c].result # "ok"
    BY <1>0, <1>1 DEF Marked, Complete
  <1>8. Fresh(c)'
    BY <1>0, <1>1, <1>2, <1>3, <1>4, <1>6, <1>7 DEF Fresh
  <1>9. Unanswered(c)'
    BY <1>0, <1>1, <1>2, <1>3, <1>4, <1>6, <1>7 DEF Unanswered
  <1>10. Sending(c)'
    BY <1>0, <1>1, <1>2, <1>3, <1>4, <1>6, <1>7 DEF Sending
  <1>11. Wanted(c)'
    BY <1>0, <1>1, <1>2, <1>3, <1>4, <1>6, <1>7 DEF Wanted
  <1>12. Gapless(c)'
    BY <1>0, <1>1, <1>2, <1>3, <1>4, <1>6, <1>7 DEF Gapless
  <1>13. Marked(c)'
    BY <1>0, <1>1, <1>2, <1>3, <1>4, <1>6, <1>7 DEF Marked
  <1>14. Delivery(c)'
    BY <1>0, <1>1, <1>2, <1>3, <1>4, <1>6, <1>7 DEF Delivery
  <1>15. Awaited(c)'
    BY <1>0, <1>1, <1>2, <1>3, <1>4, <1>6, <1>7 DEF Awaited
  <1>16. Complete(c)'
    BY <1>0, <1>1, <1>2, <1>3, <1>4, <1>6, <1>7 DEF Complete
  <1>17. ScanInv(c)'
    BY <1>8, <1>9, <1>10, <1>11, <1>12, <1>13, <1>14, <1>15, <1>16 DEF ScanInv
  <1>18. SlotsOK'
    BY <1>0, <1>1 DEF SlotsOK
  <1>19. CASE open /\ toAgent' = Append(toAgent, CancelScan(c))
    <2>1. CancelScan(c) \in Demand /\ CancelScan(c).id = c /\ CancelScan(c).type # "scan"
      BY Messages DEF CancelScan
    <2> QED BY <1>1, <1>4, <1>5, <1>18, <1>19, <2>1, <1>17, DemandMoves
  <1>20. CASE toAgent' = toAgent
    BY <1>0, <1>1, <1>4, <1>5, <1>18, <1>20, <1>17, CallerMoves
  <1> QED BY <1>19, <1>20 DEF CancelSend

-----------------------------------------------------------------------------
\* The agent.

LEMMA InboxType ==
    ASSUME Queues
    PROVE  Inbox \in Seq(Answer)
  <1>1. CASE loop.pc = "found"
    BY <1>1, PushFront DEF Queues, QueueTypes, Inbox
  <1>2. CASE loop.pc # "found"
    BY <1>2 DEF Queues, QueueTypes, Inbox
  <1> QED BY <1>1, <1>2

\* The agent sends the next message of a scan.
LEMMA InboxAppended ==
    ASSUME Queues, NEW m \in Answer, NEW d \in Scan, UNCHANGED loop, toGateway' = Append(toGateway, m),
           Ends(m.id) = {}, m.type = "batch" => \A k \in Coming(m.id) : k < m.index
    PROVE  /\ toGateway' \in Seq(Answer) /\ Ordered(Inbox)'
           /\ Coming(d)' = Coming(d) \cup BatchOf(m, d)
           /\ Ends(d)' = Ends(d) \cup EndOf(m, d)
           /\ Admitted(d)' <=> Admitted(d)
  <1>1. toGateway \in Seq(Answer) /\ Inbox \in Seq(Answer)
    BY InboxType DEF Queues, QueueTypes
  <1>2. Inbox' = Append(Inbox, m)
    <2>1. CASE loop.pc = "found"
      <3>1. loop.msg \in Answer
        BY <2>1 DEF Queues, QueueTypes
      <3> QED BY <1>1, <2>1, <3>1, PushFront DEF Inbox
    <2>2. CASE loop.pc # "found"
      <3>1. <<>> \o toGateway = toGateway /\ <<>> \o Append(toGateway, m) = Append(toGateway, m)
        BY <1>1
      <3> QED BY <2>2, <3>1 DEF Inbox
    <2> QED BY <2>1, <2>2
  <1>3. Ordered(Append(Inbox, m))
    <2> DEFINE q == Inbox
    <2>1. q \in Seq(Answer) /\ Ordered(q) /\ EndsIn(q, m.id) = {}
      BY <1>1 DEF Queues, Ends
    <2>2. m.type = "batch" => \A k \in ComingIn(q, m.id) : k < m.index
      BY DEF Coming
    <2> HIDE DEF q
    <2>3. Ordered(Append(q, m))
      BY <2>1, <2>2, AppendOrdered
    <2> QED BY <2>3 DEF q
  <1>4. /\ Coming(d)' = Coming(d) \cup BatchOf(m, d)
        /\ Ends(d)' = Ends(d) \cup EndOf(m, d)
    <2> DEFINE q == Inbox
    <2>1. q \in Seq(Answer)
      BY <1>1
    <2> HIDE DEF q
    <2>2. /\ ComingIn(Append(q, m), d) = ComingIn(q, d) \cup BatchOf(m, d)
          /\ EndsIn(Append(q, m), d) = EndsIn(q, d) \cup EndOf(m, d)
      BY <2>1, AppendIn
    <2> QED BY <1>2, <2>2 DEF Coming, Ends, q
  <1> QED BY <1>1, <1>2, <1>3, <1>4 DEF Admitted

LEMMA PermitsShrink ==
    ASSUME PermitsOK, Permits' \subseteq Permits
    PROVE  PermitsOK'
  <1>1. Permits' \in SUBSET Permits
    OBVIOUS
  <1>2. IsFiniteSet(Permits') /\ Cardinality(Permits') <= Cardinality(Permits)
    BY <1>1, FS_Subset DEF PermitsOK
  <1>3. Cardinality(Permits') \in Nat /\ Cardinality(Permits) \in Nat
    BY <1>2, FS_CardinalityType DEF PermitsOK
  <1> QED BY <1>2, <1>3, ScanAssumption DEF PermitsOK

\* A goroutine of the agent moves, and sends nothing or the message m.
LEMMA AgentMoves ==
    ASSUME IndInv, NEW c \in Scan, open,
           UNCHANGED <<ended, scans, retired, forgotten, scan, caller, loop, toAgent>>,
           exec' \in [Scan -> ExecRecord], Permits' \subseteq Permits,
           \A d \in Scan : d # c => exec'[d] = exec[d],
           \/ UNCHANGED toGateway
           \/ \E m \in Answer :
                 /\ m.id = c /\ toGateway' = Append(toGateway, m) /\ Ends(c) = {}
                 /\ m.type = "batch" => \A k \in Coming(c) : k < m.index,
           ScanInv(c)'
    PROVE  IndInv'
  <1>1. /\ ended \in {"no", "lost", "not_active", "invalid"}
        /\ SlotsOK /\ PermitsOK /\ Records /\ Queues
    BY IndParts
  <1>2. SlotsOK' /\ PermitsOK' /\ Records'
    BY <1>1, PermitsShrink DEF SlotsOK, Records
  <1>3. CASE UNCHANGED toGateway
    <2>1. Queues'
      BY <1>1, <1>3 DEF Queues, QueueTypes, Inbox, open
    <2>2. \A d \in Scan : d # c => SameScan(d)
      BY <1>3, QueuesSame DEF SameScan
    <2> QED BY <1>1, <1>2, <2>1, <2>2, OneScanMoves
  <1>4. CASE \E m \in Answer :
                 /\ m.id = c /\ toGateway' = Append(toGateway, m) /\ Ends(c) = {}
                 /\ m.type = "batch" => \A k \in Coming(c) : k < m.index
    <2>1. PICK m \in Answer :
                 /\ m.id = c /\ toGateway' = Append(toGateway, m) /\ Ends(c) = {}
                 /\ m.type = "batch" => \A k \in Coming(c) : k < m.index
      BY <1>4
    <2>0. Ends(m.id) = {} /\ (m.type = "batch" => \A k \in Coming(m.id) : k < m.index)
      BY <2>1
    <2>2. /\ toGateway' \in Seq(Answer) /\ Ordered(Inbox)'
      BY <1>1, <2>0, <2>1, InboxAppended
    <2>3. Queues'
      BY <1>1, <2>2 DEF Queues, QueueTypes, open
    <2>4. ASSUME NEW d \in Scan, d # c PROVE SameScan(d)
      <3>1. BatchOf(m, d) = {} /\ EndOf(m, d) = {}
        BY <2>1, <2>4, OfMessage
      <3>2. Coming(d)' = Coming(d) /\ Ends(d)' = Ends(d) /\ (Admitted(d)' <=> Admitted(d))
        <4>1. /\ Coming(d)' = Coming(d) \cup BatchOf(m, d)
              /\ Ends(d)' = Ends(d) \cup EndOf(m, d)
              /\ Admitted(d)' <=> Admitted(d)
          BY <1>1, <2>0, <2>1, InboxAppended
        <4> QED BY <3>1, <4>1
      <3> QED BY <2>4, <3>2 DEF SameScan, Asked, open
    <2> QED BY <1>1, <1>2, <2>3, <2>4, OneScanMoves
  <1> QED BY <1>3, <1>4

\* A goroutine moves on without a message.
LEMMA QuietKeeps ==
    ASSUME IndInv, NEW c \in Scan, open, NEW x \in ExecRecord,
           UNCHANGED <<ended, scans, retired, forgotten, scan, caller, loop, toAgent, toGateway>>,
           exec' = [exec EXCEPT ![c] = x], exec[c].pc \notin {"none", "over"}, x.pc # "none",
           x.pc = "over" \/ x.sent = exec[c].sent,
           x.pc = "sending" => x.sent < Batches,
           x.pc \in {"collecting", "running", "sending", "stopping"} <=> Working(c)
    PROVE  IndInv'
  <1>0. /\ scan[c] \in ScanRecord /\ caller[c] \in CallerRecord /\ exec[c] \in ExecRecord
        /\ scan[c].events \in Seq(Answer) /\ SlotsOK /\ PermitsOK /\ Records /\ Queues
        /\ Fresh(c) /\ Unanswered(c) /\ Sending(c) /\ Wanted(c) /\ Gapless(c) /\ Marked(c)
        /\ Delivery(c) /\ Awaited(c) /\ Complete(c)
    BY Parts
  <1>1. /\ Asked(c)' <=> Asked(c)
        /\ Coming(c)' = Coming(c) /\ Ends(c)' = Ends(c)
        /\ Admitted(c)' <=> Admitted(c)
        /\ open' <=> open
    BY QueuesSame
  <1>2. /\ exec'[c] = x /\ exec' \in [Scan -> ExecRecord]
        /\ \A d \in Scan : d # c => exec'[d] = exec[d]
    BY <1>0 DEF Records
  <1>3. Permits' \subseteq Permits
    BY <1>2 DEF Permits
  <1>4. Working(c)' <=> Working(c)
    BY <1>2 DEF Working
  <1>5. Working(c) => x.sent = exec[c].sent
    BY DEF Working
  <1>6. Fresh(c)'
    BY <1>0, <1>1, <1>2, <1>4, <1>5 DEF Fresh
  <1>7. Unanswered(c)'
    BY <1>0, <1>1, <1>2, <1>4, <1>5 DEF Unanswered
  <1>8. Sending(c)'
    BY <1>0, <1>1, <1>2, <1>4, <1>5 DEF Sending
  <1>9. Wanted(c)'
    BY <1>0, <1>1, <1>2, <1>4, <1>5 DEF Wanted
  <1>10. Gapless(c)'
    BY <1>0, <1>1, <1>2, <1>4, <1>5 DEF Gapless
  <1>11. Marked(c)'
    BY <1>0, <1>1, <1>2, <1>4, <1>5 DEF Marked
  <1>12. Delivery(c)'
    BY <1>0, <1>1, <1>2, <1>4, <1>5 DEF Delivery
  <1>13. Awaited(c)'
    BY <1>0, <1>1, <1>2, <1>4, <1>5 DEF Awaited
  <1>14. Complete(c)'
    BY <1>0, <1>1, <1>2, <1>4, <1>5 DEF Complete
  <1>15. ScanInv(c)'
    BY <1>6, <1>7, <1>8, <1>9, <1>10, <1>11, <1>12, <1>13, <1>14 DEF ScanInv
  <1> QED BY <1>2, <1>3, <1>15, AgentMoves

LEMMA DeadlineKeeps ==
    ASSUME IndInv, NEW c \in Scan, Deadline(c)
    PROVE  IndInv'
  <1>1. exec[c] \in ExecRecord /\ Records /\ Sending(c)
    BY Parts
  <1>2. PICK x \in ExecRecord :
          /\ exec' = [exec EXCEPT ![c] = x] /\ x.pc = exec[c].pc /\ x.sent = exec[c].sent
    <2>1. exec' = [exec EXCEPT ![c] = [exec[c] EXCEPT !.cancelled = TRUE]]
      BY DEF Deadline
    <2> DEFINE x == [exec[c] EXCEPT !.cancelled = TRUE]
    <2>2. x \in ExecRecord /\ x.pc = exec[c].pc /\ x.sent = exec[c].sent
      BY <1>1 DEF ExecRecord
    <2> QED BY <2>1, <2>2
  <1>3. exec[c].pc \notin {"none", "over"} /\ open
    BY DEF Deadline, Permits
  <1>4. x.pc = "sending" => x.sent < Batches
    BY <1>1, <1>2 DEF Sending
  <1> QED BY <1>2, <1>3, <1>4, QuietKeeps DEF Deadline, gateway, Working

LEMMA FillKeeps ==
    ASSUME IndInv, NEW c \in Scan, Fill(c)
    PROVE  IndInv'
  <1>1. exec[c] \in ExecRecord /\ Records
    BY Parts
  <1>2. PICK x \in ExecRecord :
          /\ exec' = [exec EXCEPT ![c] = x] /\ x.pc \in {"stopping", "sending"}
          /\ x.sent = exec[c].sent
    <2> DEFINE p == IF exec[c].cancelled THEN "stopping" ELSE "sending"
               x == [exec[c] EXCEPT !.pc = p]
    <2>1. exec' = [exec EXCEPT ![c] = x]
      BY DEF Fill
    <2>2. p \in {"stopping", "sending"}
      OBVIOUS
    <2> HIDE DEF p
    <2>3. x \in ExecRecord /\ x.pc = p /\ x.sent = exec[c].sent
      BY <1>1, <2>2 DEF ExecRecord
    <2> QED BY <2>1, <2>2, <2>3
  <1>3. exec[c].pc = "running" /\ open /\ exec[c].sent < Batches
    BY DEF Fill
  <1> QED BY <1>2, <1>3, QuietKeeps DEF Fill, gateway, Working

LEMMA ReleasePermitKeeps ==
    ASSUME IndInv, NEW c \in Scan, ReleasePermit(c)
    PROVE  IndInv'
  <1>1. Executed \in ExecRecord /\ Executed.pc = "over"
    BY ScanAssumption DEF Executed, ExecRecord
  <1>2. exec[c].pc = "finished" /\ open /\ exec' = [exec EXCEPT ![c] = Executed]
    BY DEF ReleasePermit
  <1> QED BY <1>1, <1>2, QuietKeeps DEF ReleasePermit, gateway, Working

\* The terminal message is sent.
LEMMA FinishKeeps ==
    ASSUME IndInv, NEW c \in Scan, NEW s \in Status, open, Working(c), Finish(c, s),
           s = "succeeded" => exec[c].sent = Batches,
           UNCHANGED <<ended, scans, retired, forgotten, scan, caller, loop, toAgent>>
    PROVE  IndInv'
  <1>0. /\ scan[c] \in ScanRecord /\ caller[c] \in CallerRecord /\ exec[c] \in ExecRecord
        /\ scan[c].events \in Seq(Answer) /\ SlotsOK /\ PermitsOK /\ Records /\ Queues
        /\ Fresh(c) /\ Unanswered(c) /\ Sending(c) /\ Wanted(c) /\ Gapless(c) /\ Marked(c)
        /\ Delivery(c) /\ Awaited(c) /\ Complete(c)
    BY Parts
  <1>1. /\ exec'[c].pc = "finished" /\ exec' \in [Scan -> ExecRecord]
        /\ \A d \in Scan : d # c => exec'[d] = exec[d]
    BY <1>0 DEF Records, Finish, ExecRecord
  <1>2. Finished(c, s) \in Answer /\ Finished(c, s).id = c /\ Finished(c, s).type = "finished"
    BY Messages DEF Finished
  <1>3. Ends(c) = {}
    BY <1>0 DEF Sending
  <1>4. /\ Coming(c)' = Coming(c) \cup BatchOf(Finished(c, s), c)
        /\ Ends(c)' = Ends(c) \cup EndOf(Finished(c, s), c)
        /\ Admitted(c)' <=> Admitted(c)
    <2> DEFINE m == Finished(c, s)
    <2>1. m \in Answer /\ m.id = c /\ m.type # "batch" /\ toGateway' = Append(toGateway, m)
      BY <1>2 DEF Finish
    <2> HIDE DEF m
    <2>2. /\ Coming(c)' = Coming(c) \cup BatchOf(m, c)
          /\ Ends(c)' = Ends(c) \cup EndOf(m, c)
          /\ Admitted(c)' <=> Admitted(c)
      <3>1. Ends(m.id) = {} /\ ~(m.type = "batch") /\ loop' = loop
        BY <1>3, <2>1
      <3> QED BY <1>0, <2>1, <3>1, InboxAppended
    <2> QED BY <2>2 DEF m
  <1>5. Coming(c)' = Coming(c) /\ Ends(c)' = {s}
    <2>1. BatchOf(Finished(c, s), c) = {} /\ EndOf(Finished(c, s), c) = {Finished(c, s).status}
      BY <1>2, OfMessage
    <2>2. Finished(c, s).status = s
      BY DEF Finished
    <2> QED BY <1>3, <1>4, <2>1, <2>2
  <1>6. /\ ~Working(c)' /\ (open' <=> open) /\ (Asked(c)' <=> Asked(c)) /\ ~Asked(c)
    BY <1>0, <1>1 DEF Working, open, Asked, Unanswered
  <1>7. Permits' \subseteq Permits
    BY <1>1 DEF Permits, Working
  <1>8. Fresh(c)'
    BY <1>0, <1>1, <1>4, <1>5, <1>6 DEF Fresh
  <1>9. Unanswered(c)'
    BY <1>0, <1>1, <1>4, <1>5, <1>6 DEF Unanswered
  <1>10. Sending(c)'
    BY <1>0, <1>1, <1>4, <1>5, <1>6 DEF Sending
  <1>11. Wanted(c)'
    BY <1>0, <1>1, <1>4, <1>5, <1>6 DEF Wanted
  <1>12. Gapless(c)'
    BY <1>0, <1>1, <1>4, <1>5, <1>6 DEF Gapless
  <1>13. Marked(c)'
    BY <1>0, <1>1, <1>4, <1>5, <1>6 DEF Marked
  <1>14. Delivery(c)'
    BY <1>0, <1>1, <1>4, <1>5, <1>6 DEF Delivery
  <1>15. Awaited(c)'
    BY <1>0, <1>1, <1>4, <1>5, <1>6 DEF Awaited
  <1>16. Complete(c)'
    BY <1>0, <1>1, <1>4, <1>5, <1>6 DEF Complete
  <1>17. ScanInv(c)'
    BY <1>8, <1>9, <1>10, <1>11, <1>12, <1>13, <1>14, <1>15, <1>16 DEF ScanInv
  <1> QED BY <1>1, <1>2, <1>3, <1>7, <1>17, AgentMoves DEF Finish

LEMMA CollectKeeps ==
    ASSUME IndInv, NEW c \in Scan, Collect(c)
    PROVE  IndInv'
  <1>1. exec[c] \in ExecRecord /\ Records /\ exec[c].pc = "collecting" /\ open
    BY Parts DEF Collect
  <1>2. CASE Finish(c, IF exec[c].cancelled THEN "cancelled" ELSE "failed")
    <2>1. PICK s \in {"cancelled", "failed"} : Finish(c, s)
      BY <1>2
    <2> QED BY <1>1, <2>1, FinishKeeps DEF Collect, gateway, Working, Status
  <1>3. CASE /\ exec' = [exec EXCEPT ![c].pc = IF exec[c].cancelled THEN "stopping"
                                               ELSE "running"]
             /\ UNCHANGED toGateway
    <2>1. PICK x \in ExecRecord :
            /\ exec' = [exec EXCEPT ![c] = x] /\ x.pc \in {"stopping", "running"}
            /\ x.sent = exec[c].sent
      <3> DEFINE p == IF exec[c].cancelled THEN "stopping" ELSE "running"
                 x == [exec[c] EXCEPT !.pc = p]
      <3>1. exec' = [exec EXCEPT ![c] = x]
        BY <1>3
      <3>2. p \in {"stopping", "running"}
        OBVIOUS
      <3> HIDE DEF p
      <3>3. x \in ExecRecord /\ x.pc = p /\ x.sent = exec[c].sent
        BY <1>1, <3>2 DEF ExecRecord
      <3> QED BY <3>1, <3>2, <3>3
    <2> QED BY <1>1, <1>3, <2>1, QuietKeeps DEF Collect, gateway, Working
  <1> QED BY <1>2, <1>3 DEF Collect

LEMMA SendFinishedKeeps ==
    ASSUME IndInv, NEW c \in Scan, SendFinished(c)
    PROVE  IndInv'
  <1>1. PICK s \in Status : Finish(c, s) /\ (s = "succeeded" => exec[c].sent = Batches)
    BY DEF SendFinished, Status
  <1>2. Working(c) /\ open /\ UNCHANGED <<ended, scans, retired, forgotten, scan, caller, loop, toAgent>>
    BY DEF SendFinished, Working, gateway
  <1> QED BY <1>1, <1>2, FinishKeeps

LEMMA SendBatchKeeps ==
    ASSUME IndInv, NEW c \in Scan, SendBatch(c)
    PROVE  IndInv'
  <1>0. /\ scan[c] \in ScanRecord /\ caller[c] \in CallerRecord /\ exec[c] \in ExecRecord
        /\ scan[c].events \in Seq(Answer) /\ SlotsOK /\ PermitsOK /\ Records /\ Queues
        /\ Fresh(c) /\ Unanswered(c) /\ Sending(c) /\ Wanted(c) /\ Gapless(c) /\ Marked(c)
        /\ Delivery(c) /\ Awaited(c) /\ Complete(c)
    BY Parts
  <1>1. /\ open /\ exec[c].pc = "sending" /\ exec[c].sent \in 0 .. Batches
        /\ exec[c].sent < Batches /\ Working(c)
        /\ UNCHANGED <<ended, scans, retired, forgotten, scan, caller, loop, toAgent>>
    BY <1>0 DEF SendBatch, gateway, Sending, ExecRecord, Working
  <1> DEFINE n == exec[c].sent
  <1>2. /\ exec'[c].pc = "running" /\ exec'[c].sent = n + 1
        /\ exec' \in [Scan -> ExecRecord]
        /\ \A d \in Scan : d # c => exec'[d] = exec[d]
    <2>1. exec' = [exec EXCEPT ![c] = [exec[c] EXCEPT !.pc = "running", !.sent = n + 1]]
      BY <1>0 DEF SendBatch, Records
    <2>2. n + 1 \in 0 .. Batches
      BY <1>1, ScanAssumption
    <2>3. [exec[c] EXCEPT !.pc = "running", !.sent = n + 1] \in ExecRecord
      BY <1>0, <2>2 DEF ExecRecord
    <2>4. exec'[c] = [exec[c] EXCEPT !.pc = "running", !.sent = n + 1]
      BY <1>0, <2>1 DEF Records
    <2>5. exec'[c].pc = "running" /\ exec'[c].sent = n + 1
      BY <1>0, <2>4 DEF ExecRecord
    <2> QED BY <1>0, <2>1, <2>3, <2>5 DEF Records
  <1>3. Batch(c, n) \in Answer /\ Batch(c, n).id = c /\ Batch(c, n).index = n
    BY <1>1, Messages DEF Batch
  <1>4. Ends(c) = {} /\ \A k \in Coming(c) : k < n
    BY <1>0, <1>1 DEF Sending
  <1>5. n \in 0 .. Batches /\ n < Batches /\ n \in Nat /\ toGateway' = Append(toGateway, Batch(c, n))
    BY <1>1, ScanAssumption DEF SendBatch
  <1>6. /\ Coming(c)' = Coming(c) \cup {n}
        /\ Ends(c)' = {}
        /\ Admitted(c)' <=> Admitted(c)
    <2> DEFINE m == Batch(c, n)
    <2>1. m \in Answer /\ m.id = c /\ m.index = n /\ toGateway' = Append(toGateway, m)
      BY <1>3, <1>5
    <2> HIDE DEF m
    <2>2. /\ Coming(c)' = Coming(c) \cup BatchOf(m, c)
          /\ Ends(c)' = Ends(c) \cup EndOf(m, c)
          /\ Admitted(c)' <=> Admitted(c)
      <3>1. Ends(m.id) = {} /\ (\A k \in Coming(m.id) : k < m.index) /\ loop' = loop
        BY <1>1, <1>4, <2>1
      <3> QED BY <1>0, <2>1, <3>1, InboxAppended
    <2>3. BatchOf(m, c) = {n} /\ EndOf(m, c) = {}
      <3>1. m.type = "batch"
        BY DEF m, Batch
      <3> QED BY <2>1, <3>1, OfMessage
    <2> QED BY <1>4, <2>2, <2>3
  <1>7. /\ Working(c)' /\ (open' <=> open) /\ (Asked(c)' <=> Asked(c)) /\ ~Asked(c)
    BY <1>0, <1>1, <1>2 DEF Working, open, Asked, Unanswered
  <1>8. Permits' \subseteq Permits
    BY <1>1, <1>2 DEF Permits
  <1>9. scan[c].next \in 0 .. Batches
    BY <1>0 DEF ScanRecord
  <1> HIDE DEF n
  <1>10. Fresh(c)'
    BY <1>0, <1>1, <1>2, <1>4, <1>5, <1>6, <1>7, <1>9 DEF Fresh
  <1>11. Unanswered(c)'
    BY <1>0, <1>1, <1>2, <1>4, <1>5, <1>6, <1>7, <1>9 DEF Unanswered
  <1>12. Sending(c)'
    <2>1. \A k \in Coming(c) : k \in Nat
      BY ScanAssumption DEF Coming, ComingIn
    <2>2. \A k \in Coming(c)' : k < n + 1
      BY <1>4, <1>5, <1>6, <2>1
    <2> QED BY <1>2, <1>6, <1>7, <2>2 DEF Sending
  <1>13. Wanted(c)'
    BY <1>0, <1>1, <1>2, <1>4, <1>5, <1>6, <1>7, <1>9 DEF Wanted
  <1>14. Gapless(c)'
    <2> DEFINE l == scan[c].next
               C == Coming(c) \cup {n}
    <2>1. ASSUME ~scan[c].terminal
          PROVE  /\ \A k \in C : l <= k /\ (l .. k) \subseteq C
                 /\ l <= n + 1 /\ (l .. (n + 1 - 1)) \subseteq C
      <3>1. /\ \A k \in Coming(c) : l <= k /\ (l .. k) \subseteq Coming(c)
            /\ l <= n /\ (l .. (n - 1)) \subseteq Coming(c) /\ l \in Nat
        BY <1>0, <1>1, <1>9, <2>1, ScanAssumption DEF Gapless, n
      <3> HIDE DEF l
      <3>2. (l .. n) \subseteq Coming(c) \cup {n}
        BY <1>5, <3>1
      <3>3. n + 1 - 1 = n /\ l <= n + 1
        BY <1>5, <3>1
      <3> QED BY <3>1, <3>2, <3>3
    <2>2. Coming(c)' = C /\ "succeeded" \notin Ends(c)'
      BY <1>6
    <2>3. scan'[c] = scan[c] /\ exec'[c].sent = n + 1
      BY <1>1, <1>2
    <2> DEFINE Begins(S, b) == \A k \in S : b <= k /\ (b .. k) \subseteq S
    <2>4. ~scan'[c].terminal => Begins(Coming(c)', scan'[c].next)
      BY <2>1, <2>2, <2>3
    <2>5. ~scan'[c].terminal =>
            /\ scan'[c].next <= exec'[c].sent
            /\ (scan'[c].next .. (exec'[c].sent - 1)) \subseteq Coming(c)'
      <3>1. exec'[c].sent - 1 = n + 1 - 1
        BY <1>5, <2>3
      <3> HIDE DEF C
      <3> QED BY <2>1, <2>2, <2>3, <3>1
    <2> HIDE DEF C, l
    <2> QED BY <2>2, <2>4, <2>5 DEF Gapless
  <1>15. Marked(c)'
    BY <1>0, <1>1, <1>2, <1>4, <1>5, <1>6, <1>7, <1>9 DEF Marked
  <1>16. Delivery(c)'
    BY <1>0, <1>1, <1>2, <1>4, <1>5, <1>6, <1>7, <1>9 DEF Delivery
  <1>17. Awaited(c)'
    BY <1>0, <1>1, <1>2, <1>4, <1>5, <1>6, <1>7, <1>9 DEF Awaited
  <1>18. Complete(c)'
    BY <1>0, <1>1, <1>2, <1>4, <1>5, <1>6, <1>7, <1>9 DEF Complete
  <1>19. ScanInv(c)'
    BY <1>10, <1>11, <1>12, <1>13, <1>14, <1>15, <1>16, <1>17, <1>18 DEF ScanInv
  <1> QED BY <1>1, <1>2, <1>3, <1>4, <1>5, <1>8, <1>19, AgentMoves

-----------------------------------------------------------------------------
\* The receive loop.

\* The loop takes the first message of the inbox away.
LEMMA InboxPopped ==
    ASSUME Queues, Inbox # <<>>, Inbox' = Tail(Inbox), NEW d \in Scan, NEW m, m = Head(Inbox)
    PROVE  /\ m \in Answer /\ Ordered(Inbox)'
           /\ Coming(d) = Coming(d)' \cup BatchOf(m, d) /\ Ends(d) = Ends(d)' \cup EndOf(m, d)
           /\ m.id = d /\ m.type = "batch" => \A k \in Coming(d)' : m.index < k
           /\ m.id = d /\ m.type = "finished" => Coming(d)' = {} /\ Ends(d)' = {}
  <1> DEFINE q == Inbox
  <1>1. q \in Seq(Answer) /\ Ordered(q) /\ q # <<>> /\ m = Head(q)
    BY InboxType DEF Queues
  <1>2. /\ Coming(d) = ComingIn(q, d) /\ Ends(d) = EndsIn(q, d)
        /\ Coming(d)' = ComingIn(Tail(q), d) /\ Ends(d)' = EndsIn(Tail(q), d)
    BY DEF Coming, Ends
  <1>3. Ordered(Inbox)' <=> Ordered(Tail(q))
    OBVIOUS
  <1> HIDE DEF q
  <1>4. /\ Tail(q) \in Seq(Answer) /\ Head(q) \in Answer
        /\ ComingIn(q, d) = ComingIn(Tail(q), d) \cup BatchOf(Head(q), d)
        /\ EndsIn(q, d) = EndsIn(Tail(q), d) \cup EndOf(Head(q), d)
    BY <1>1, TailIn
  <1>5. /\ Ordered(Tail(q))
        /\ \A c, k : Head(q) = Batch(c, k) => \A j \in ComingIn(Tail(q), c) : k < j
        /\ \A c, s : Head(q) = Finished(c, s) =>
              ComingIn(Tail(q), c) = {} /\ EndsIn(Tail(q), c) = {}
    BY <1>1, TailOrdered
  <1>6. /\ m.id = d /\ m.type = "batch" => \A k \in Coming(d)' : m.index < k
    <2> SUFFICES ASSUME m.id = d, m.type = "batch" PROVE \A k \in ComingIn(Tail(q), d) : m.index < k
      BY <1>2
    <2>1. Head(q) = Batch(d, m.index)
      BY <1>1, <1>4, AnswerForms
    <2> QED BY <1>5, <2>1
  <1>7. /\ m.id = d /\ m.type = "finished" => Coming(d)' = {} /\ Ends(d)' = {}
    <2> SUFFICES ASSUME m.id = d, m.type = "finished"
                 PROVE  ComingIn(Tail(q), d) = {} /\ EndsIn(Tail(q), d) = {}
      BY <1>2
    <2>1. Head(q) = Finished(d, m.status)
      BY <1>1, <1>4, AnswerForms
    <2> QED BY <1>5, <2>1
  <1> QED BY <1>1, <1>2, <1>3, <1>4, <1>5, <1>6, <1>7

\* The messages of other scans stay.
LEMMA PoppedOthers ==
    ASSUME Queues, Inbox # <<>>, Inbox' = Tail(Inbox), NEW d \in Scan, Head(Inbox).id # d
    PROVE  Coming(d)' = Coming(d) /\ Ends(d)' = Ends(d)
  <1> DEFINE m == Head(Inbox)
  <1>1. /\ m \in Answer /\ Coming(d) = Coming(d)' \cup BatchOf(m, d)
        /\ Ends(d) = Ends(d)' \cup EndOf(m, d)
    BY InboxPopped
  <1>2. m.id # d
    OBVIOUS
  <1> HIDE DEF m
  <1>3. BatchOf(m, d) = {} /\ EndOf(m, d) = {}
    BY <1>1, <1>2, OfMessage
  <1> QED BY <1>1, <1>3

\* A message of a terminal scan is dropped.
LEMMA DroppedKeeps ==
    ASSUME IndInv, NEW c \in Scan, open, scan[c].terminal,
           UNCHANGED <<ended, scans, retired, forgotten, scan, caller, toAgent, exec>>,
           Inbox # <<>>, Inbox' = Tail(Inbox), Head(Inbox).id = c,
           loop.pc \in {"receive", "found"}, loop'.pc = "receive",
           toGateway' \in Seq(Answer),
           loop' \in [pc : {"receive", "found", "retire", "deliver"}, msg : Answer \cup {<<>>}]
    PROVE  IndInv'
  <1>0. /\ scan[c] \in ScanRecord /\ caller[c] \in CallerRecord /\ exec[c] \in ExecRecord
        /\ scan[c].events \in Seq(Answer) /\ SlotsOK /\ PermitsOK /\ Records /\ Queues
        /\ Fresh(c) /\ Unanswered(c) /\ Sending(c) /\ Wanted(c) /\ Gapless(c) /\ Marked(c)
        /\ Delivery(c) /\ Awaited(c) /\ Complete(c)
    BY Parts
  <1>1. /\ Coming(c) = Coming(c)' \cup BatchOf(Head(Inbox), c)
        /\ Ends(c) = Ends(c)' \cup EndOf(Head(Inbox), c)
        /\ Ordered(Inbox)'
    BY <1>0, InboxPopped
  <1>2. Coming(c)' \subseteq Coming(c) /\ Ends(c)' \subseteq Ends(c)
    BY <1>1
  <1>3. \A d \in Scan : ~Admitted(d) /\ ~Admitted(d)'
    BY DEF Admitted
  <1>4. /\ (open' <=> open) /\ (Asked(c)' <=> Asked(c)) /\ (Working(c)' <=> Working(c))
    BY DEF open, Asked, Working
  <1>5. ASSUME NEW d \in Scan, d # c PROVE SameScan(d)
    <2>1. Coming(d)' = Coming(d) /\ Ends(d)' = Ends(d)
      BY <1>0, <1>5, PoppedOthers
    <2> QED BY <1>3, <2>1 DEF SameScan, Asked, open
  <1>6. Queues'
    BY <1>0, <1>1 DEF Queues, QueueTypes, open
  <1>7. SlotsOK' /\ PermitsOK' /\ Records' /\ ended' \in {"no", "lost", "not_active", "invalid"}
    BY <1>0, IndParts DEF SlotsOK, PermitsOK, Records, Permits
  <1>8. ~Admitted(c) /\ ~Admitted(c)'
    BY <1>3
  <1>9. Fresh(c)'
    BY <1>0, <1>2, <1>4, <1>8 DEF Fresh
  <1>10. Unanswered(c)'
    BY <1>0, <1>2, <1>4, <1>8 DEF Unanswered
  <1>11. Sending(c)'
    BY <1>0, <1>2, <1>4, <1>8 DEF Sending
  <1>12. Wanted(c)'
    BY <1>0, <1>2, <1>4, <1>8 DEF Wanted
  <1>13. Gapless(c)'
    BY <1>0, <1>2, <1>4, <1>8 DEF Gapless
  <1>14. Marked(c)'
    BY <1>0, <1>2, <1>4, <1>8 DEF Marked
  <1>15. Delivery(c)'
    BY <1>0, <1>2, <1>4, <1>8 DEF Delivery
  <1>16. Awaited(c)'
    BY <1>0, <1>2, <1>4, <1>8 DEF Awaited
  <1>17. Complete(c)'
    BY <1>0, <1>2, <1>4, <1>8 DEF Complete
  <1>18. ScanInv(c)'
    BY <1>9, <1>10, <1>11, <1>12, <1>13, <1>14, <1>15, <1>16, <1>17 DEF ScanInv
  <1> QED BY <1>5, <1>6, <1>7, <1>18, OneScanMoves

\* Every scan is ended on the agent, and nothing is under way any more.
LEMMA EndedKeeps ==
    ASSUME IndInv, NEW how \in {"lost", "not_active", "invalid"}, Ended(how)
    PROVE  IndInv'
  <1>1. /\ SlotsOK /\ PermitsOK /\ Records /\ Queues
    BY IndParts
  <1>2. Executed \in ExecRecord /\ Executed.pc = "over"
    BY ScanAssumption DEF Executed, ExecRecord
  <1>3. /\ \A d \in Scan : exec'[d].pc = "over" /\ exec'[d] \in ExecRecord
        /\ exec' \in [Scan -> ExecRecord]
        /\ ~open' /\ loop' = Idle /\ toAgent' = <<>> /\ toGateway' = <<>>
        /\ UNCHANGED <<scans, retired, forgotten, scan, caller>>
    BY <1>2 DEF Ended, open
  <1>4. Inbox' = <<>>
    BY <1>3 DEF Inbox, Idle
  <1>5. SlotsOK' /\ Records' /\ ended' \in {"no", "lost", "not_active", "invalid"}
    BY <1>1, <1>3 DEF SlotsOK, Records, Ended
  <1>6. PermitsOK'
    <2>1. Permits' = {}
      BY <1>3 DEF Permits
    <2> QED BY <1>1, <2>1, PermitsShrink
  <1>7. Queues'
    <2>1. <<>> \in Seq(Demand) /\ <<>> \in Seq(Answer)
      OBVIOUS
    <2> QED BY <1>1, <1>3, <1>4, <2>1 DEF Queues, QueueTypes, Ordered, AskedOnce, Idle
  <1>8. ASSUME NEW c \in Scan PROVE ScanInv(c)'
    <2>0. /\ Fresh(c) /\ Unanswered(c) /\ Sending(c) /\ Wanted(c) /\ Gapless(c) /\ Marked(c)
          /\ Delivery(c) /\ Awaited(c) /\ Complete(c)
      BY Parts
    <2>1. /\ Coming(c)' = {} /\ Ends(c)' = {} /\ ~Asked(c)' /\ ~Admitted(c)' /\ ~Working(c)'
          /\ exec'[c].pc = "over"
      BY <1>3, <1>4 DEF Coming, Ends, ComingIn, EndsIn, Asked, AskedIn, Admitted, Working, Idle
    <2>2. Fresh(c)'
      BY <1>3, <2>0, <2>1 DEF Fresh
    <2>3. Unanswered(c)'
      BY <1>3, <2>0, <2>1 DEF Unanswered
    <2>4. Sending(c)'
      BY <1>3, <2>0, <2>1 DEF Sending
    <2>5. Wanted(c)'
      BY <1>3, <2>0, <2>1 DEF Wanted
    <2>6. Gapless(c)'
      BY <1>3, <2>0, <2>1 DEF Gapless
    <2>7. Marked(c)'
      BY <1>3, <2>0, <2>1 DEF Marked
    <2>8. Delivery(c)'
      BY <1>3, <2>0, <2>1 DEF Delivery
    <2>9. Awaited(c)'
      BY <1>3, <2>0, <2>1 DEF Awaited
    <2>10. Complete(c)'
      BY <1>3, <2>0, <2>1 DEF Complete
    <2>11. ScanInv(c)'
      BY <2>2, <2>3, <2>4, <2>5, <2>6, <2>7, <2>8, <2>9, <2>10 DEF ScanInv
    <2> QED BY <2>11
  <1> QED BY <1>5, <1>6, <1>7, <1>8, IndParts1

\* The loop looks at the first message, drops it, or ends the session.
LEMMA ReceiveKeeps ==
    ASSUME IndInv, Receive
    PROVE  IndInv'
  <1>1. /\ open /\ loop.pc = "receive" /\ toGateway # <<>>
    BY DEF Receive
  <1>2. /\ SlotsOK /\ PermitsOK /\ Records /\ Queues /\ toGateway \in Seq(Answer)
        /\ ended \in {"no", "lost", "not_active", "invalid"}
    BY IndParts DEF Queues, QueueTypes
  <1>3. Inbox = toGateway
    BY <1>1, <1>2, PushFront DEF Inbox
  <1>a. PICK m \in Answer : m = Head(toGateway) /\ Tail(toGateway) \in Seq(Answer)
    BY <1>1, <1>2
  <1>b. PICK c \in Scan : c = m.id
    BY AnswerForms
  <1>4. m \in Answer /\ m = Head(toGateway) /\ Tail(toGateway) \in Seq(Answer) /\ c = m.id
    BY <1>a, <1>b
  <1>5. CASE m.id \notin scans \cup ToSet(retired) /\ Ended("not_active")
    BY <1>5, EndedKeeps
  <1>6. CASE /\ c \in scans /\ loop' = [pc |-> "found", msg |-> m]
             /\ toGateway' = Tail(toGateway) /\ UNCHANGED <<gateway, caller, toAgent, exec>>
    <2>1. Inbox' = Inbox
      <3>1. Inbox' = <<Head(toGateway)>> \o Tail(toGateway)
        BY <1>4, <1>6 DEF Inbox
      <3> QED BY <1>1, <1>2, <1>3, <1>4, <3>1, PushFront
    <2>2. ASSUME NEW d \in Scan PROVE SameScan(d)
      BY <1>1, <1>6, <2>1 DEF SameScan, Coming, Ends, Asked, Admitted, gateway, open
    <2>3. Queues'
      BY <1>1, <1>2, <1>4, <1>6, <2>1 DEF Queues, QueueTypes, gateway, open
    <2>4. SlotsOK' /\ PermitsOK' /\ Records'
      BY <1>2, <1>6 DEF SlotsOK, PermitsOK, Records, Permits, gateway
    <2>5. \A d \in Scan : ScanInv(d)'
      BY <2>2, SameScanKept DEF IndInv
    <2> QED BY <1>2, <1>6, <2>3, <2>4, <2>5, IndParts1 DEF gateway
  <1>7. CASE /\ c \notin scans /\ loop' = loop
             /\ toGateway' = Tail(toGateway) /\ UNCHANGED <<gateway, caller, toAgent, exec>>
    <2>1. Inbox' = Tail(Inbox) /\ Head(Inbox) = m /\ Inbox # <<>>
      BY <1>1, <1>3, <1>4, <1>7, PushFront DEF Inbox
    <2>2. scan[c].terminal
      <3>1. /\ Coming(c) = Coming(c)' \cup BatchOf(m, c) /\ Ends(c) = Ends(c)' \cup EndOf(m, c)
        BY <1>2, <1>4, <2>1, InboxPopped
      <3>2. BatchOf(m, c) # {} \/ EndOf(m, c) # {}
        BY <1>4, OfMessage, AnswerForms
      <3>3. Coming(c) # {} \/ Ends(c) # {}
        BY <3>1, <3>2
      <3>4. Wanted(c) /\ scan[c] \in ScanRecord
        BY <1>4, Parts
      <3> QED BY <1>7, <3>3, <3>4 DEF Wanted, ScanRecord
    <2>3. toGateway' \in Seq(Answer) /\ loop' \in [pc : {"receive", "found", "retire", "deliver"},
                                                   msg : Answer \cup {<<>>}]
      BY <1>2, <1>4, <1>7 DEF Queues, QueueTypes
    <2>4. Head(Inbox).id = c
      BY <1>4, <2>1
    <2> QED BY <1>1, <1>4, <1>7, <2>1, <2>2, <2>3, <2>4, DroppedKeeps DEF gateway
  <1> QED BY <1>4, <1>5, <1>6, <1>7 DEF Receive

LEMMA AdmitKeeps ==
    ASSUME IndInv, Admit
    PROVE  IndInv'
  <1>a. PICK m \in Answer : m = loop.msg
    BY IndParts DEF Admit, Queues, QueueTypes
  <1>b. PICK c \in Scan : c = m.id
    BY AnswerForms
  <1>0. /\ scan[c] \in ScanRecord /\ caller[c] \in CallerRecord /\ exec[c] \in ExecRecord
        /\ scan[c].events \in Seq(Answer) /\ SlotsOK /\ PermitsOK /\ Records /\ Queues
        /\ Fresh(c) /\ Unanswered(c) /\ Sending(c) /\ Wanted(c) /\ Gapless(c) /\ Marked(c)
        /\ Delivery(c) /\ Awaited(c) /\ Complete(c)
    BY Parts
  <1>1. /\ open /\ loop.pc = "found" /\ c = loop.msg.id /\ m = loop.msg /\ m.id = c
        /\ toGateway \in Seq(Answer) /\ ended \in {"no", "lost", "not_active", "invalid"}
        /\ toAgent \in Seq(Demand) /\ Idle \in [pc : {"receive", "found", "retire", "deliver"}, msg : Answer \cup {<<>>}]
        /\ loop \in [pc : {"receive", "found", "retire", "deliver"}, msg : Answer \cup {<<>>}]
    BY <1>a, <1>b, IndParts DEF Admit, Queues, QueueTypes, Idle
  <1>2. Inbox = <<m>> \o toGateway /\ Inbox # <<>> /\ Head(Inbox) = m /\ Tail(Inbox) = toGateway
    <2>1. Inbox = <<m>> \o toGateway
      BY <1>1 DEF Inbox
    <2> QED BY <1>1, <2>1, PushFront
  <1>3. ASSUME toGateway' = toGateway, loop'.pc # "found" PROVE Inbox' = Tail(Inbox)
    BY <1>1, <1>2, <1>3, PushFront DEF Inbox
  <1>4. CASE scan[c].terminal /\ loop' = Idle /\ UNCHANGED <<gateway, caller, toAgent, toGateway, exec>>
    <2>1. Inbox' = Tail(Inbox) /\ loop'.pc = "receive"
      BY <1>3, <1>4 DEF Idle
    <2> QED BY <1>1, <1>2, <1>4, <2>1, DroppedKeeps DEF gateway
  <1>5. CASE Ended("invalid")
    BY <1>5, EndedKeeps
  <1>6. ASSUME Inbox' = Tail(Inbox)
        PROVE  /\ Ordered(Inbox)'
               /\ Coming(c) = Coming(c)' \cup BatchOf(m, c) /\ Ends(c) = Ends(c)' \cup EndOf(m, c)
               /\ m.type = "batch" => \A k \in Coming(c)' : m.index < k
               /\ m.type = "finished" => Coming(c)' = {} /\ Ends(c)' = {}
               /\ \A d \in Scan : d # c => Coming(d)' = Coming(d) /\ Ends(d)' = Ends(d)
    <2>1. ASSUME NEW d \in Scan, d # c PROVE Coming(d)' = Coming(d) /\ Ends(d)' = Ends(d)
      BY <1>0, <1>1, <1>2, <1>6, <2>1, PoppedOthers
    <2>2. /\ Ordered(Inbox)'
          /\ Coming(c) = Coming(c)' \cup BatchOf(m, c) /\ Ends(c) = Ends(c)' \cup EndOf(m, c)
          /\ m.id = c /\ m.type = "batch" => \A k \in Coming(c)' : m.index < k
          /\ m.id = c /\ m.type = "finished" => Coming(c)' = {} /\ Ends(c)' = {}
      BY <1>0, <1>2, <1>6, InboxPopped
    <2> QED BY <1>1, <2>1, <2>2
  <1>7. \A d \in Scan : ~Admitted(d)
    BY <1>1 DEF Admitted
  <1>8. ASSUME ~scan[c].terminal, UNCHANGED <<ended, scans, retired, forgotten, caller, toAgent, toGateway, exec>>,
               \/ loop' = [loop EXCEPT !.pc = "deliver"]
               \/ loop' = [loop EXCEPT !.pc = "retire"] /\ m.type = "finished",
               \A d \in Scan : d # c => scan'[d] = scan[d],
               scan' \in [Scan -> ScanRecord], scan'[c].events = scan[c].events,
               ScanInv(c)'
        PROVE  IndInv'
    <2>1. /\ loop'.pc \in {"deliver", "retire"} /\ loop'.msg = m
          /\ loop' \in [pc : {"receive", "found", "retire", "deliver"}, msg : Answer \cup {<<>>}]
          /\ loop'.pc = "retire" => m.type = "finished"
      BY <1>1, <1>8
    <2>2. Inbox' = Tail(Inbox)
      BY <1>3, <1>8, <2>1
    <2>3. Queues'
      BY <1>0, <1>1, <1>6, <1>8, <2>1, <2>2 DEF Queues, QueueTypes, open
    <2>4. SlotsOK' /\ PermitsOK' /\ Records'
      BY <1>0, <1>8 DEF SlotsOK, PermitsOK, Permits, Records
    <2>5. ASSUME NEW d \in Scan, d # c PROVE SameScan(d)
      <3>1. Coming(d)' = Coming(d) /\ Ends(d)' = Ends(d)
        BY <1>6, <2>2, <2>5
      <3>2. ~Admitted(d) /\ ~Admitted(d)'
        BY <1>1, <1>7, <2>1, <2>5 DEF Admitted
      <3> QED BY <1>8, <2>5, <3>1, <3>2 DEF SameScan, Asked, open
    <2> QED BY <1>1, <1>8, <2>3, <2>4, <2>5, OneScanMoves
  <1>9. CASE /\ ~scan[c].terminal /\ m.type = "batch" /\ m.index = scan[c].next
             /\ scan' = [scan EXCEPT ![c].next = @ + 1]
             /\ loop' = [loop EXCEPT !.pc = "deliver"]
             /\ UNCHANGED <<ended, scans, retired, forgotten, caller, toAgent, toGateway, exec>>
    <2> DEFINE l == scan[c].next
    <2>1. /\ loop'.pc = "deliver" /\ loop'.msg = m
      BY <1>1, <1>9
    <2>2. l \in Nat /\ l < Batches /\ l + 1 \in 0 .. Batches /\ m = Batch(c, l) /\ m.status = NoStatus
      BY <1>1, <1>9, AnswerForms, ScanAssumption
    <2>3. /\ scan'[c].next = l + 1 /\ scan'[c].events = scan[c].events
          /\ scan'[c].terminal = scan[c].terminal /\ scan'[c].abandoned = scan[c].abandoned
          /\ scan' \in [Scan -> ScanRecord] /\ \A d \in Scan : d # c => scan'[d] = scan[d]
      <3>1. scan'[c] = [scan[c] EXCEPT !.next = l + 1]
        BY <1>0, <1>9 DEF Records
      <3>2. /\ scan'[c].next = l + 1 /\ scan'[c].events = scan[c].events
            /\ scan'[c].terminal = scan[c].terminal /\ scan'[c].abandoned = scan[c].abandoned
            /\ scan'[c] \in ScanRecord
        BY <1>0, <2>2, <3>1 DEF ScanRecord
      <3>3. \A d \in Scan : d # c => scan'[d] = scan[d]
        BY <1>0, <1>9 DEF Records
      <3> QED BY <1>0, <1>9, <3>2, <3>3 DEF Records
    <2>4. Inbox' = Tail(Inbox)
      BY <1>3, <1>9, <2>1
    <2>5. BatchOf(m, c) = {l} /\ EndOf(m, c) = {}
      BY <1>1, <1>9, OfMessage
    <2>6. /\ Coming(c) = Coming(c)' \cup {l} /\ Ends(c)' = Ends(c)
          /\ \A k \in Coming(c)' : l < k
      BY <1>6, <1>9, <2>4, <2>5
    <2>7. /\ ~Asked(c) /\ (Asked(c)' <=> Asked(c)) /\ (open' <=> open) /\ (Working(c)' <=> Working(c))
          /\ caller[c].pc \in {"waiting", "cancelling"} /\ c \in scans
          /\ caller' = caller /\ scans' = scans /\ exec' = exec
      <3>1. Coming(c) # {}
        BY <2>6
      <3>2. caller[c].pc \in {"waiting", "cancelling"}
        BY <1>0, <1>9, <3>1 DEF Wanted
      <3>3. ~Asked(c)
        BY <1>0, <3>1 DEF Unanswered
      <3>4. c \in scans
        BY <1>0, <1>9, <3>2 DEF Wanted
      <3>5. /\ (Asked(c)' <=> Asked(c)) /\ (open' <=> open) /\ (Working(c)' <=> Working(c))
        BY <1>9 DEF Asked, open, Working
      <3> QED BY <1>9, <3>2, <3>3, <3>4, <3>5
    <2>8. Admitted(c)' /\ ~Admitted(c)
      BY <1>1, <1>7, <2>1 DEF Admitted
    <2>9. Coming(c) \subseteq Nat
      BY ScanAssumption DEF Coming, ComingIn
    <2> HIDE DEF l
    <2>10. Fresh(c)'
      BY <1>0, <1>1, <1>9, <2>1, <2>2, <2>3, <2>6, <2>7, <2>8 DEF Fresh
    <2>11. Unanswered(c)'
      BY <1>0, <1>1, <1>9, <2>1, <2>2, <2>3, <2>6, <2>7, <2>8 DEF Unanswered
    <2>12. Sending(c)'
      BY <1>0, <1>1, <1>9, <2>1, <2>2, <2>3, <2>6, <2>7, <2>8 DEF Sending
    <2>13. Wanted(c)'
      BY <1>0, <1>1, <1>9, <2>1, <2>2, <2>3, <2>6, <2>7, <2>8 DEF Wanted
    <2>14. Gapless(c)'
      <3> DEFINE C == Coming(c)'
      <3>1. /\ \A k \in Coming(c) : l <= k /\ (l .. k) \subseteq Coming(c)
            /\ Working(c) => l <= exec[c].sent /\ (l .. (exec[c].sent - 1)) \subseteq Coming(c)
            /\ "succeeded" \in Ends(c) => (l .. (Batches - 1)) \subseteq Coming(c)
            /\ exec[c].sent \in Nat
        BY <1>0, <1>9, ScanAssumption DEF Gapless, l, ExecRecord
      <3>2. Coming(c) = C \cup {l} /\ \A k \in C : l < k
        BY <2>6
      <3>3. Working(c) => l < exec[c].sent
        BY <1>0, <3>2 DEF Sending
      <3>4. /\ C \subseteq Nat /\ l \in Nat
        BY <2>2, <2>9, <3>2
      <3> HIDE DEF C
      <3>5. \A b : (l .. b) \subseteq Coming(c) => ((l + 1) .. b) \subseteq C
        <4> SUFFICES ASSUME NEW b, (l .. b) \subseteq Coming(c), NEW k \in (l + 1) .. b
                     PROVE  k \in C
          OBVIOUS
        <4>1. k \in l .. b /\ k # l
          BY <3>4
        <4> QED BY <3>2, <4>1
      <3>6. \A k \in C : l + 1 <= k /\ ((l + 1) .. k) \subseteq C
        BY <3>1, <3>2, <3>4, <3>5
      <3>7. Working(c) => l + 1 <= exec[c].sent /\ ((l + 1) .. (exec[c].sent - 1)) \subseteq C
        BY <3>1, <3>3, <3>4, <3>5
      <3>8. "succeeded" \in Ends(c) => ((l + 1) .. (Batches - 1)) \subseteq C
        BY <3>1, <3>5
      <3>9. C = Coming(c)' /\ exec'[c] = exec[c]
        BY <2>7 DEF C
      <3> QED BY <2>3, <2>6, <2>7, <3>6, <3>7, <3>8, <3>9 DEF Gapless
    <2>15. Marked(c)'
      BY <1>0, <1>1, <1>9, <2>1, <2>2, <2>3, <2>6, <2>7, <2>8 DEF Marked
    <2>16. Delivery(c)'
      <3> SUFFICES ASSUME caller[c].pc = "waiting" PROVE Delivery(c)'
        BY <2>7 DEF Delivery
      <3> DEFINE got == caller[c].got
                 events == scan[c].events
                 all == Len(got) + Len(events)
      <3>1. /\ \A i \in 1 .. Len(got) : got[i] = i - 1
            /\ \A i \in 1 .. Len(events) :
                  \/ events[i] = Batch(c, Len(got) + i - 1)
                  \/ /\ i = Len(events) /\ events[i].type = "finished"
                     /\ events[i].status = "succeeded" => all = Batches + 1
            /\ l = all + 0
        BY <1>0, <1>1, <1>9, <2>8 DEF Delivery, l
      <3>2. \A i \in 1 .. Len(events) : events[i].type = "batch"
        <4>1. \A i \in 1 .. Len(events) : events[i].type # "finished"
          <5>1. DOMAIN events = 1 .. Len(events)
            BY <1>0
          <5> QED BY <1>0, <1>9, <5>1 DEF Marked
        <4>2. \A i \in 1 .. Len(events) : events[i] \in Answer
          BY <1>0
        <4> QED BY <4>1, <4>2 DEF Answer
      <3>3. all \in Nat
        <4>1. got \in Seq(0 .. Batches) /\ events \in Seq(Answer)
          BY <1>0 DEF CallerRecord
        <4>2. Len(got) \in Nat /\ Len(events) \in Nat
          BY <4>1
        <4> HIDE DEF got, events
        <4> QED BY <4>2
      <3>4. caller'[c].got = got /\ scan'[c].events = events /\ scan'[c].next = l + 1 /\ ~scan'[c].terminal
        BY <1>9, <2>3, <2>7
      <3>5. l = all
        BY <3>1, <3>3
      <3>6. loop'.msg = Batch(c, all) /\ loop'.msg.status # "succeeded"
        BY <2>1, <2>2, <3>5 DEF NoStatus
      <3> HIDE DEF got, events
      <3> QED BY <2>8, <3>1, <3>2, <3>4, <3>5, <3>6 DEF Delivery
    <2>17. Awaited(c)'
      BY <1>0, <1>1, <1>9, <2>1, <2>2, <2>3, <2>6, <2>7, <2>8 DEF Awaited
    <2>18. Complete(c)'
      BY <1>0, <1>1, <1>9, <2>1, <2>2, <2>3, <2>6, <2>7, <2>8 DEF Complete
    <2>19. ScanInv(c)'
      BY <2>10, <2>11, <2>12, <2>13, <2>14, <2>15, <2>16, <2>17, <2>18 DEF ScanInv
    <2>20. /\ ~scan[c].terminal /\ loop' = [loop EXCEPT !.pc = "deliver"]
           /\ UNCHANGED <<ended, scans, retired, forgotten, caller, toAgent, toGateway, exec>>
      BY <1>9
    <2>21. scan'[c].events = scan[c].events /\ scan' \in [Scan -> ScanRecord]
           /\ \A d \in Scan : d # c => scan'[d] = scan[d]
      BY <2>3
    <2> QED BY <1>8, <2>20, <2>21, <2>19
  <1>10. CASE /\ ~scan[c].terminal /\ m.type = "finished"
              /\ scan' = [scan EXCEPT ![c].terminal = TRUE]
              /\ loop' = [loop EXCEPT !.pc = "retire"]
              /\ UNCHANGED <<ended, scans, retired, forgotten, caller, toAgent, toGateway, exec>>
    <2>1. /\ loop'.pc = "retire" /\ loop'.msg = m
      BY <1>1, <1>10
    <2>3. /\ scan'[c].next = scan[c].next /\ scan'[c].events = scan[c].events
          /\ scan'[c].terminal /\ scan'[c].abandoned = scan[c].abandoned
          /\ scan' \in [Scan -> ScanRecord] /\ \A d \in Scan : d # c => scan'[d] = scan[d]
      <3>1. scan'[c] = [scan[c] EXCEPT !.terminal = TRUE]
        BY <1>0, <1>10 DEF Records
      <3>2. /\ scan'[c].next = scan[c].next /\ scan'[c].events = scan[c].events
            /\ scan'[c].terminal /\ scan'[c].abandoned = scan[c].abandoned
            /\ scan'[c] \in ScanRecord
        BY <1>0, <3>1 DEF ScanRecord
      <3>3. \A d \in Scan : d # c => scan'[d] = scan[d]
        BY <1>0, <1>10 DEF Records
      <3> QED BY <1>0, <1>10, <3>2, <3>3 DEF Records
    <2>4. Inbox' = Tail(Inbox)
      BY <1>3, <1>10, <2>1
    <2>5. BatchOf(m, c) = {} /\ EndOf(m, c) = {m.status}
      BY <1>1, <1>10, OfMessage
    <2>6. /\ Coming(c)' = {} /\ Ends(c)' = {} /\ Coming(c) = {} /\ Ends(c) = {m.status}
      BY <1>6, <1>10, <2>4, <2>5
    <2>7. /\ ~Asked(c) /\ (Asked(c)' <=> Asked(c)) /\ (open' <=> open) /\ (Working(c)' <=> Working(c))
          /\ caller[c].pc \in {"waiting", "cancelling"}
          /\ caller' = caller /\ scans' = scans /\ exec' = exec
      <3>2. caller[c].pc \in {"waiting", "cancelling"}
        BY <1>0, <1>10, <2>6 DEF Wanted
      <3>3. ~Asked(c)
        BY <1>0, <2>6 DEF Unanswered
      <3>5. /\ (Asked(c)' <=> Asked(c)) /\ (open' <=> open) /\ (Working(c)' <=> Working(c))
        BY <1>10 DEF Asked, open, Working
      <3> QED BY <1>10, <3>2, <3>3, <3>5
    <2>8. Admitted(c)' /\ ~Admitted(c)
      BY <1>1, <1>7, <2>1 DEF Admitted
    <2>9. m.status = "succeeded" => scan[c].next = Batches
      <3>1. m.status = "succeeded" => (scan[c].next .. (Batches - 1)) \subseteq {}
        BY <1>0, <1>10, <2>6 DEF Gapless
      <3>2. scan[c].next \in 0 .. Batches
        BY <1>0 DEF ScanRecord
      <3>3. scan[c].next # Batches => scan[c].next \in scan[c].next .. (Batches - 1)
        BY <3>2, ScanAssumption
      <3> QED BY <3>1, <3>3
    <2>10. Fresh(c)'
      BY <1>0, <1>1, <1>10, <2>1, <2>3, <2>6, <2>7, <2>8 DEF Fresh
    <2>11. Unanswered(c)'
      BY <1>0, <1>1, <1>10, <2>1, <2>3, <2>6, <2>7, <2>8 DEF Unanswered
    <2>12. Sending(c)'
      BY <1>0, <1>1, <1>10, <2>1, <2>3, <2>6, <2>7, <2>8 DEF Sending
    <2>13. Wanted(c)'
      BY <1>0, <1>1, <1>10, <2>1, <2>3, <2>6, <2>7, <2>8 DEF Wanted
    <2>14. Gapless(c)'
      BY <1>0, <1>1, <1>10, <2>1, <2>3, <2>6, <2>7, <2>8 DEF Gapless
    <2>15. Marked(c)'
      BY <1>0, <1>1, <1>10, <2>1, <2>3, <2>6, <2>7, <2>8 DEF Marked
    <2>16. Delivery(c)'
      <3> SUFFICES ASSUME caller[c].pc = "waiting" PROVE Delivery(c)'
        BY <2>7 DEF Delivery
      <3> DEFINE got == caller[c].got
                 events == scan[c].events
                 all == Len(got) + Len(events)
      <3>1. /\ \A i \in 1 .. Len(got) : got[i] = i - 1
            /\ \A i \in 1 .. Len(events) :
                  \/ events[i] = Batch(c, Len(got) + i - 1)
                  \/ /\ i = Len(events) /\ events[i].type = "finished"
                     /\ events[i].status = "succeeded" => all = Batches + 1
            /\ scan[c].next = all + 0
        BY <1>0, <1>1, <1>10, <2>8 DEF Delivery
      <3>2. \A i \in 1 .. Len(events) : events[i].type = "batch"
        <4>1. \A i \in 1 .. Len(events) : events[i].type # "finished"
          <5>1. DOMAIN events = 1 .. Len(events)
            BY <1>0
          <5> QED BY <1>0, <1>10, <5>1 DEF Marked
        <4>2. \A i \in 1 .. Len(events) : events[i] \in Answer
          BY <1>0
        <4> QED BY <4>1, <4>2 DEF Answer
      <3>3. all \in Nat
        <4>1. got \in Seq(0 .. Batches) /\ events \in Seq(Answer)
          BY <1>0 DEF CallerRecord
        <4>2. Len(got) \in Nat /\ Len(events) \in Nat
          BY <4>1
        <4> HIDE DEF got, events
        <4> QED BY <4>2
      <3>4. caller'[c].got = got /\ scan'[c].events = events /\ scan'[c].terminal
        BY <1>10, <2>3, <2>7
      <3>5. scan[c].next = all
        BY <3>1, <3>3
      <3>6. loop'.msg.type = "finished" /\ (loop'.msg.status = "succeeded" => all = Batches)
        BY <1>10, <2>1, <2>9, <3>5
      <3> HIDE DEF got, events
      <3> QED BY <2>8, <3>1, <3>2, <3>4, <3>6 DEF Delivery
    <2>17. Awaited(c)'
      BY <1>0, <1>1, <1>10, <2>1, <2>3, <2>6, <2>7, <2>8 DEF Awaited
    <2>18. Complete(c)'
      BY <1>0, <1>1, <1>10, <2>1, <2>3, <2>6, <2>7, <2>8 DEF Complete
    <2>19. ScanInv(c)'
      BY <2>10, <2>11, <2>12, <2>13, <2>14, <2>15, <2>16, <2>17, <2>18 DEF ScanInv
    <2> QED BY <1>8, <1>10, <2>3, <2>19
  <1> QED BY <1>1, <1>4, <1>5, <1>9, <1>10 DEF Admit

LEMMA RetireFinishedKeeps ==
    ASSUME IndInv, RetireFinished
    PROVE  IndInv'
  <1>a. PICK m \in Answer : m = loop.msg
    BY IndParts DEF RetireFinished, Queues, QueueTypes
  <1>b. PICK c \in Scan : c = m.id
    BY AnswerForms
  <1>0. /\ scan[c] \in ScanRecord /\ caller[c] \in CallerRecord /\ exec[c] \in ExecRecord
        /\ scan[c].events \in Seq(Answer) /\ SlotsOK /\ PermitsOK /\ Records /\ Queues
        /\ Fresh(c) /\ Unanswered(c) /\ Sending(c) /\ Wanted(c) /\ Gapless(c) /\ Marked(c)
        /\ Delivery(c) /\ Awaited(c) /\ Complete(c)
    BY Parts
  <1>1. /\ open /\ loop.pc = "retire" /\ c = loop.msg.id /\ m.id = c /\ m = loop.msg
        /\ m.type = "finished" /\ retireScan(c)
        /\ ended \in {"no", "lost", "not_active", "invalid"}
        /\ loop \in [pc : {"receive", "found", "retire", "deliver"}, msg : Answer \cup {<<>>}]
        /\ loop' = [loop EXCEPT !.pc = "deliver"]
        /\ UNCHANGED <<ended, scan, caller, toAgent, toGateway, exec>>
    BY <1>a, <1>b, IndParts DEF RetireFinished, Queues, QueueTypes
  <1>2. /\ loop'.pc = "deliver" /\ loop'.msg = m
        /\ loop' \in [pc : {"receive", "found", "retire", "deliver"}, msg : Answer \cup {<<>>}]
    BY <1>1
  <1>3. Inbox' = Inbox
    BY <1>1, <1>2 DEF Inbox
  <1>4. SlotsOK' /\ \A d \in Scan : d # c => (d \in scans' <=> d \in scans)
    BY <1>0, <1>1, RetireSlots
  <1>5. PermitsOK' /\ Records' /\ Queues'
    BY <1>0, <1>1, <1>2, <1>3 DEF PermitsOK, Permits, Records, Queues, QueueTypes, open
  <1>6. ASSUME NEW d \in Scan PROVE Admitted(d)' <=> Admitted(d)
    BY <1>1, <1>2 DEF Admitted
  <1>7. ASSUME NEW d \in Scan, d # c PROVE SameScan(d)
    <2>1. Admitted(d)' <=> Admitted(d)
      BY <1>6
    <2> QED BY <1>1, <1>2, <1>3, <1>4, <1>7, <2>1 DEF SameScan, Coming, Ends, Asked, open
  <1>8. /\ Admitted(c) /\ Admitted(c)' /\ Coming(c)' = Coming(c) /\ Ends(c)' = Ends(c)
        /\ (Asked(c)' <=> Asked(c)) /\ (open' <=> open) /\ (Working(c)' <=> Working(c))
        /\ scan[c].terminal /\ loop'.msg = loop.msg
    BY <1>0, <1>1, <1>2, <1>3 DEF Admitted, Coming, Ends, Asked, open, Working, Marked
  <1>9. Fresh(c)'
    BY <1>0, <1>1, <1>8 DEF Fresh
  <1>10. Unanswered(c)'
    BY <1>0, <1>1, <1>8 DEF Unanswered
  <1>11. Sending(c)'
    BY <1>0, <1>1, <1>8 DEF Sending
  <1>12. Wanted(c)'
    BY <1>0, <1>1, <1>8 DEF Wanted
  <1>13. Gapless(c)'
    BY <1>0, <1>1, <1>8 DEF Gapless
  <1>14. Marked(c)'
    BY <1>0, <1>1, <1>8 DEF Marked
  <1>15. Delivery(c)'
    BY <1>0, <1>1, <1>8 DEF Delivery
  <1>16. Awaited(c)'
    BY <1>0, <1>1, <1>8 DEF Awaited
  <1>17. Complete(c)'
    BY <1>0, <1>1, <1>8 DEF Complete
  <1>18. ScanInv(c)'
    BY <1>9, <1>10, <1>11, <1>12, <1>13, <1>14, <1>15, <1>16, <1>17 DEF ScanInv
  <1> QED BY <1>1, <1>4, <1>5, <1>7, <1>18, OneScanMoves

LEMMA DeliverKeeps ==
    ASSUME IndInv, Deliver
    PROVE  IndInv'
  <1>a. PICK m \in Answer : m = loop.msg
    BY IndParts DEF Deliver, Queues, QueueTypes
  <1>b. PICK c \in Scan : c = m.id
    BY AnswerForms
  <1>0. /\ scan[c] \in ScanRecord /\ caller[c] \in CallerRecord /\ exec[c] \in ExecRecord
        /\ scan[c].events \in Seq(Answer) /\ SlotsOK /\ PermitsOK /\ Records /\ Queues
        /\ Fresh(c) /\ Unanswered(c) /\ Sending(c) /\ Wanted(c) /\ Gapless(c) /\ Marked(c)
        /\ Delivery(c) /\ Awaited(c) /\ Complete(c)
    BY Parts
  <1>1. /\ open /\ loop.pc = "deliver" /\ c = loop.msg.id /\ m.id = c /\ m = loop.msg
        /\ ended \in {"no", "lost", "not_active", "invalid"}
        /\ loop' = Idle
        /\ UNCHANGED <<ended, scans, retired, forgotten, caller, toAgent, toGateway, exec>>
    BY <1>a, <1>b, IndParts DEF Deliver
  <1>2. /\ loop'.pc = "receive"
        /\ loop' \in [pc : {"receive", "found", "retire", "deliver"}, msg : Answer \cup {<<>>}]
    BY <1>1 DEF Idle
  <1>3. Inbox' = Inbox
    BY <1>1, <1>2 DEF Inbox
  <1>4. SlotsOK' /\ PermitsOK'
    BY <1>0, <1>1 DEF SlotsOK, PermitsOK, Permits
  <1>5. /\ Admitted(c) /\ ~Admitted(c)' /\ Coming(c)' = Coming(c) /\ Ends(c)' = Ends(c)
        /\ (Asked(c)' <=> Asked(c)) /\ (open' <=> open) /\ (Working(c)' <=> Working(c))
    BY <1>1, <1>2, <1>3 DEF Admitted, Coming, Ends, Asked, open, Working
  <1>6. ASSUME NEW d \in Scan, d # c, scan'[d] = scan[d] PROVE SameScan(d)
    <2>1. ~Admitted(d) /\ ~Admitted(d)'
      BY <1>1, <1>2, <1>6 DEF Admitted
    <2> QED BY <1>1, <1>3, <1>6, <2>1 DEF SameScan, Coming, Ends, Asked, open
  <1>7. CASE scan[c].abandoned /\ UNCHANGED scan
    <2>1. caller[c].pc = "done"
      BY <1>0, <1>7 DEF Marked
    <2>2. Records' /\ Queues'
      BY <1>0, <1>1, <1>2, <1>3, <1>7 DEF Records, Queues, QueueTypes, open
    <2>3. Fresh(c)'
      BY <1>0, <1>1, <1>5, <1>7, <2>1 DEF Fresh
    <2>4. Unanswered(c)'
      BY <1>0, <1>1, <1>5, <1>7, <2>1 DEF Unanswered
    <2>5. Sending(c)'
      BY <1>0, <1>1, <1>5, <1>7, <2>1 DEF Sending
    <2>6. Wanted(c)'
      BY <1>0, <1>1, <1>5, <1>7, <2>1 DEF Wanted
    <2>7. Gapless(c)'
      BY <1>0, <1>1, <1>5, <1>7, <2>1 DEF Gapless
    <2>8. Marked(c)'
      BY <1>0, <1>1, <1>5, <1>7, <2>1 DEF Marked
    <2>9. Delivery(c)'
      BY <1>0, <1>1, <1>5, <1>7, <2>1 DEF Delivery
    <2>10. Awaited(c)'
      BY <1>0, <1>1, <1>5, <1>7, <2>1 DEF Awaited
    <2>11. Complete(c)'
      BY <1>0, <1>1, <1>5, <1>7, <2>1 DEF Complete
    <2>12. ScanInv(c)'
      BY <2>3, <2>4, <2>5, <2>6, <2>7, <2>8, <2>9, <2>10, <2>11 DEF ScanInv
    <2> QED BY <1>1, <1>4, <1>6, <1>7, <2>2, <2>12, OneScanMoves
  <1>8. CASE /\ Len(scan[c].events) < EventLimit
             /\ scan' = [scan EXCEPT ![c].events = Append(@, m)]
    <2> DEFINE events == scan[c].events
               new == Append(events, m)
               got == caller[c].got
    <2>1. /\ Len(events) \in Nat /\ DOMAIN events = 1 .. Len(events)
          /\ new \in Seq(Answer) /\ Len(new) = Len(events) + 1
          /\ DOMAIN new = 1 .. Len(events) + 1
          /\ \A i \in 1 .. Len(events) : new[i] = events[i]
          /\ new[Len(events) + 1] = m
      <3>1. events \in Seq(Answer)
        BY <1>0
      <3> HIDE DEF events
      <3> QED BY <3>1
    <2>2. new \in Seq(Message)
      <3>1. Answer \subseteq Message
        BY DEF Answer
      <3> HIDE DEF new
      <3> QED BY <2>1, <3>1, SeqMonotonic
    <2> HIDE DEF new
    <2>3. /\ scan'[c].next = scan[c].next /\ scan'[c].events = new
          /\ scan'[c].terminal = scan[c].terminal /\ scan'[c].abandoned = scan[c].abandoned
          /\ scan' \in [Scan -> ScanRecord] /\ \A d \in Scan : d # c => scan'[d] = scan[d]
      <3>1. scan'[c] = [scan[c] EXCEPT !.events = new]
        BY <1>0, <1>8 DEF Records, new
      <3>2. /\ scan'[c].next = scan[c].next /\ scan'[c].events = new
            /\ scan'[c].terminal = scan[c].terminal /\ scan'[c].abandoned = scan[c].abandoned
            /\ scan'[c] \in ScanRecord
        BY <1>0, <2>2, <3>1 DEF ScanRecord
      <3>3. \A d \in Scan : d # c => scan'[d] = scan[d]
        BY <1>0, <1>8 DEF Records
      <3> QED BY <1>0, <1>8, <3>2, <3>3 DEF Records
    <2>4. Records'
      <3>1. Len(new) <= EventLimit
        BY <1>8, <2>1, ScanAssumption
      <3> QED BY <1>0, <1>1, <2>3, <3>1 DEF Records
    <2>5. Queues'
      BY <1>0, <1>1, <1>2, <1>3, <2>1, <2>3 DEF Queues, QueueTypes, open
    <2>6. m.type = "finished" => scan[c].terminal
      BY <1>0, <1>1, <1>5 DEF Marked
    <2>7. Fresh(c)'
      BY <1>0, <1>1, <1>5 DEF Fresh
    <2>8. Unanswered(c)'
      BY <1>0, <1>1, <1>5, <2>3 DEF Unanswered
    <2>9. Sending(c)'
      BY <1>0, <1>1, <1>5, <2>3 DEF Sending
    <2>10. Wanted(c)'
      BY <1>0, <1>1, <1>5, <2>3 DEF Wanted
    <2>11. Gapless(c)'
      BY <1>0, <1>1, <1>5, <2>3 DEF Gapless
    <2>12. Marked(c)'
      <3>1. \A i \in DOMAIN new : new[i].type = "finished" => scan[c].terminal
        <4>1. \A i \in DOMAIN events : events[i].type = "finished" => scan[c].terminal
          BY <1>0 DEF Marked
        <4> QED BY <2>1, <2>6, <4>1
      <3> QED BY <1>0, <1>1, <1>5, <2>3, <3>1 DEF Marked
    <2>13. Delivery(c)'
      <3> SUFFICES ASSUME caller[c].pc = "waiting" PROVE Delivery(c)'
        BY <1>1 DEF Delivery
      <3> DEFINE n == Len(got)
                 e == Len(events)
      <3>1. /\ \A i \in 1 .. n : got[i] = i - 1
            /\ \A i \in 1 .. e :
                  \/ events[i] = Batch(c, n + i - 1)
                  \/ /\ i = e /\ events[i].type = "finished"
                     /\ events[i].status = "succeeded" => n + e = Batches + 1
            /\ \A i \in 1 .. e : events[i].type = "batch"
            /\ m.type = "batch" => m = Batch(c, n + e)
            /\ m.status = "succeeded" => n + e = Batches
            /\ ~scan[c].terminal => scan[c].next = n + e + 1
            /\ scan[c].terminal => m.type = "finished"
        BY <1>0, <1>1, <1>5 DEF Delivery
      <3>2. n \in Nat /\ e \in Nat /\ e = Len(events)
        <4>1. got \in Seq(0 .. Batches)
          BY <1>0 DEF CallerRecord
        <4> HIDE DEF got
        <4> QED BY <2>1, <4>1
      <3>3. caller'[c].got = got /\ scan'[c].events = new /\ Len(new) = e + 1
        BY <1>1, <2>1, <2>3
      <3>4. /\ \A i \in 1 .. e : new[i] = events[i]
            /\ new[e + 1] = m
        BY <2>1
      <3>5. m.type = "batch" \/ m.type = "finished"
        BY AnswerForms
      <3> HIDE DEF n, e
      <3>6. ASSUME NEW i \in 1 .. e + 1
            PROVE  \/ new[i] = Batch(c, n + i - 1)
                   \/ /\ i = e + 1 /\ new[i].type = "finished"
                      /\ new[i].status = "succeeded" => n + (e + 1) = Batches + 1
        <4>1. CASE i = e + 1
          <5>1. n + i - 1 = n + e
            BY <3>2, <4>1
          <5>2. n + e = Batches => n + (e + 1) = Batches + 1
            BY <3>2, ScanAssumption
          <5>3. CASE m.type = "batch"
            BY <3>1, <3>4, <4>1, <5>1, <5>3
          <5>4. CASE m.type = "finished"
            BY <3>1, <3>4, <4>1, <5>2, <5>4
          <5> QED BY <3>5, <5>3, <5>4
        <4>2. CASE i # e + 1
          <5>1. i \in 1 .. e
            BY <3>2, <4>2
          <5> QED BY <3>1, <3>4, <5>1
        <4> QED BY <4>1, <4>2
      <3>7. ~scan[c].terminal => scan[c].next = n + (e + 1) + 0
        BY <3>1, <3>2
      <3>8. scan[c].terminal => \E i \in 1 .. e + 1 : new[i].type = "finished"
        <4>1. e + 1 \in 1 .. e + 1
          BY <3>2
        <4> QED BY <3>1, <3>4, <4>1
      <3>9. n = Len(got)
        BY DEF n
      <3> HIDE DEF got, events
      <3> QED BY <1>5, <2>3, <3>1, <3>3, <3>6, <3>7, <3>8, <3>9 DEF Delivery
    <2>14. Awaited(c)'
      BY <1>0, <1>1, <1>5, <2>3 DEF Awaited
    <2>15. Complete(c)'
      BY <1>0, <1>1, <1>5, <2>3 DEF Complete
    <2>16. ScanInv(c)'
      BY <2>7, <2>8, <2>9, <2>10, <2>11, <2>12, <2>13, <2>14, <2>15 DEF ScanInv
    <2> QED BY <1>1, <1>4, <1>6, <2>3, <2>4, <2>5, <2>16, OneScanMoves
  <1> QED BY <1>1, <1>7, <1>8 DEF Deliver

\* The agent starts a scan, refuses it, or notes a cancellation.
LEMMA AgentReceiveKeeps ==
    ASSUME IndInv, AgentReceive
    PROVE  IndInv'
  <1>a. PICK m \in Demand : m = Head(toAgent) /\ Tail(toAgent) \in Seq(Demand)
    BY IndParts DEF AgentReceive, Queues, QueueTypes
  <1>b. PICK c \in Scan : c = m.id
    BY DemandForms
  <1>0. /\ scan[c] \in ScanRecord /\ caller[c] \in CallerRecord /\ exec[c] \in ExecRecord
        /\ scan[c].events \in Seq(Answer) /\ SlotsOK /\ PermitsOK /\ Records /\ Queues
        /\ Fresh(c) /\ Unanswered(c) /\ Sending(c) /\ Wanted(c) /\ Gapless(c) /\ Marked(c)
        /\ Delivery(c) /\ Awaited(c) /\ Complete(c)
    BY Parts
  <1>1. /\ open /\ toAgent # <<>> /\ toAgent' = Tail(toAgent) /\ toAgent \in Seq(Demand)
        /\ AskedOnce(toAgent) /\ m = Head(toAgent) /\ m.id = c
        /\ ended \in {"no", "lost", "not_active", "invalid"}
        /\ UNCHANGED <<ended, scans, retired, forgotten, scan, caller, loop>>
    BY <1>0, <1>a, <1>b, IndParts DEF AgentReceive, Queues, QueueTypes, gateway
  <1>2. /\ toAgent' \in Seq(Demand) /\ AskedOnce(toAgent')
        /\ \A d : AskedIn(toAgent, d) <=> AskedIn(toAgent', d) \/ m = Request(d)
        /\ \A d : m = Request(d) => ~AskedIn(toAgent', d)
    <2> DEFINE q == toAgent
    <2>1. q \in Seq(Demand) /\ q # <<>> /\ AskedOnce(q) /\ m = Head(q)
      BY <1>1
    <2>2. toAgent' = Tail(q)
      BY <1>1
    <2> HIDE DEF q
    <2>3. /\ Tail(q) \in Seq(Demand) /\ AskedOnce(Tail(q))
          /\ \A d : AskedIn(q, d) <=> AskedIn(Tail(q), d) \/ Head(q) = Request(d)
          /\ \A d : Head(q) = Request(d) => ~AskedIn(Tail(q), d)
      BY <2>1, TailAsked
    <2> QED BY <2>1, <2>2, <2>3 DEF q
  <1>3. ASSUME NEW d \in Scan, d # c PROVE Asked(d)' <=> Asked(d)
    <2>1. m # Request(d)
      BY <1>1, <1>3 DEF Request
    <2> QED BY <1>2, <2>1 DEF Asked
  <1>4. m.type = "scan" => Asked(c) /\ ~Asked(c)'
    BY <1>1, <1>2, DemandForms DEF Asked
  <1>5. m.type = "cancel" => (Asked(c)' <=> Asked(c))
    <2>1. m.type = "cancel" => m # Request(c)
      BY DEF Request
    <2> QED BY <1>2, <2>1 DEF Asked
  <1>6. SlotsOK' /\ AskedOnce(toAgent)' /\ toAgent' \in Seq(Demand)
    BY <1>0, <1>1, <1>2 DEF SlotsOK
  <1>7. ASSUME UNCHANGED toGateway, exec' \in [Scan -> ExecRecord], PermitsOK',
               \A d \in Scan : d # c => exec'[d] = exec[d], ScanInv(c)'
        PROVE  IndInv'
    <2>1. Inbox' = Inbox
      BY <1>1, <1>7 DEF Inbox
    <2>2. Queues'
      BY <1>0, <1>1, <1>6, <1>7, <2>1 DEF Queues, QueueTypes, open
    <2>3. ASSUME NEW d \in Scan, d # c PROVE SameScan(d)
      <3>1. Asked(d)' <=> Asked(d)
        BY <1>3, <2>3
      <3> QED BY <1>1, <1>7, <2>1, <2>3, <3>1 DEF SameScan, Coming, Ends, Admitted, open
    <2>4. Records'
      BY <1>0, <1>1, <1>7 DEF Records
    <2> QED BY <1>1, <1>6, <1>7, <2>2, <2>3, <2>4, OneScanMoves
  <1>8. CASE /\ m.type = "scan" /\ Cardinality(Permits) < MaxScans
             /\ exec' = [exec EXCEPT ![c].pc = "collecting"] /\ UNCHANGED toGateway
    <2>1. /\ exec'[c].pc = "collecting" /\ exec'[c].sent = exec[c].sent
          /\ exec' \in [Scan -> ExecRecord] /\ \A d \in Scan : d # c => exec'[d] = exec[d]
      BY <1>0, <1>8 DEF Records, ExecRecord
    <2>2. PermitsOK'
      <3>1. Permits' \subseteq Permits \cup {c}
        BY <2>1 DEF Permits
      <3>2. /\ IsFiniteSet(Permits \cup {c})
            /\ Cardinality(Permits \cup {c}) = IF c \in Permits THEN Cardinality(Permits)
                                              ELSE Cardinality(Permits) + 1
        BY <1>0, FS_AddElement DEF PermitsOK
      <3>3. IsFiniteSet(Permits') /\ Cardinality(Permits') <= Cardinality(Permits \cup {c})
        BY <3>1, <3>2, FS_Subset
      <3>4. Cardinality(Permits) \in Nat /\ Cardinality(Permits') \in Nat
        BY <1>0, <3>3, FS_CardinalityType DEF PermitsOK
      <3> QED BY <1>8, <3>2, <3>3, <3>4, ScanAssumption DEF PermitsOK
    <2>3. /\ Asked(c) /\ ~Asked(c)' /\ Working(c)' /\ Coming(c) = {} /\ Ends(c) = {}
          /\ scan[c].next = 0 /\ exec[c].sent = 0 /\ (open' <=> open)
          /\ Coming(c)' = Coming(c) /\ Ends(c)' = Ends(c) /\ (Admitted(c)' <=> Admitted(c))
      <3>1. Inbox' = Inbox
        BY <1>1, <1>8 DEF Inbox
      <3>2. Asked(c) /\ ~Asked(c)'
        BY <1>4, <1>8
      <3>3. Coming(c) = {} /\ Ends(c) = {} /\ scan[c].next = 0 /\ exec[c].sent = 0
        BY <1>0, <3>2 DEF Unanswered, Sending
      <3> QED BY <1>1, <2>1, <3>1, <3>2, <3>3 DEF Working, Coming, Ends, Admitted, open
    <2>4. Fresh(c)'
      BY <1>0, <1>1, <2>1, <2>3 DEF Fresh
    <2>5. Unanswered(c)'
      BY <1>0, <1>1, <2>1, <2>3 DEF Unanswered
    <2>6. Sending(c)'
      BY <1>0, <1>1, <2>1, <2>3 DEF Sending
    <2>7. Wanted(c)'
      BY <1>0, <1>1, <2>1, <2>3 DEF Wanted
    <2>8. Gapless(c)'
      <3>1. (0 .. (0 - 1)) \subseteq {} /\ 0 <= 0
        OBVIOUS
      <3>2. /\ scan'[c].next = 0 /\ exec'[c].sent = 0 /\ Coming(c)' = {} /\ Ends(c)' = {}
        BY <1>1, <2>1, <2>3
      <3> QED BY <3>1, <3>2 DEF Gapless
    <2>9. Marked(c)'
      BY <1>0, <1>1, <2>1, <2>3 DEF Marked
    <2>10. Delivery(c)'
      BY <1>0, <1>1, <2>1, <2>3 DEF Delivery
    <2>11. Awaited(c)'
      BY <1>0, <1>1, <2>1, <2>3 DEF Awaited
    <2>12. Complete(c)'
      BY <1>0, <1>1, <2>1, <2>3 DEF Complete
    <2>13. ScanInv(c)'
      BY <2>4, <2>5, <2>6, <2>7, <2>8, <2>9, <2>10, <2>11, <2>12 DEF ScanInv
    <2> QED BY <1>7, <1>8, <2>1, <2>2, <2>13
  <1>9. CASE /\ m.type = "scan" /\ UNCHANGED exec
             /\ toGateway' = Append(toGateway, Finished(c, "failed"))
    <2>1. Asked(c) /\ ~Asked(c)'
      BY <1>4, <1>9
    <2>2. Coming(c) = {} /\ Ends(c) = {} /\ exec[c].pc = "none"
      BY <1>0, <2>1 DEF Unanswered
    <2>3. PICK x \in Answer : x = Finished(c, "failed") /\ x.id = c /\ x.type = "finished"
                                /\ x.status = "failed"
      BY Messages DEF Finished, Status
    <2>4. Ends(x.id) = {} /\ x.type # "batch" /\ toGateway' = Append(toGateway, x) /\ loop' = loop
      BY <1>1, <1>9, <2>2, <2>3
    <2>5. /\ toGateway' \in Seq(Answer) /\ Ordered(Inbox)'
          /\ Coming(c)' = Coming(c) \cup BatchOf(x, c)
          /\ Ends(c)' = Ends(c) \cup EndOf(x, c)
          /\ Admitted(c)' <=> Admitted(c)
      BY <1>0, <2>4, InboxAppended
    <2>6. Coming(c)' = {} /\ Ends(c)' = {"failed"}
      <3>1. BatchOf(x, c) = {} /\ EndOf(x, c) = {"failed"}
        BY <2>3, OfMessage
      <3> QED BY <2>2, <2>5, <3>1
    <2>7. Queues'
      BY <1>0, <1>1, <1>6, <2>5 DEF Queues, QueueTypes, open
    <2>8. ASSUME NEW d \in Scan, d # c PROVE SameScan(d)
      <3>1. /\ Coming(d)' = Coming(d) \cup BatchOf(x, d)
            /\ Ends(d)' = Ends(d) \cup EndOf(x, d)
            /\ Admitted(d)' <=> Admitted(d)
        BY <1>0, <2>4, InboxAppended
      <3>2. BatchOf(x, d) = {} /\ EndOf(x, d) = {}
        BY <2>3, <2>8, OfMessage
      <3>3. Asked(d)' <=> Asked(d)
        BY <1>3, <2>8
      <3> QED BY <1>1, <1>9, <3>1, <3>2, <3>3 DEF SameScan, open
    <2>9. PermitsOK' /\ Records'
      BY <1>0, <1>1, <1>9 DEF PermitsOK, Permits, Records
    <2>10. (open' <=> open) /\ (Working(c)' <=> Working(c)) /\ ~Working(c) /\ exec' = exec
      BY <1>1, <1>9, <2>2 DEF open, Working
    <2>11. Fresh(c)'
      BY <1>0, <1>1, <2>1, <2>2, <2>5, <2>6, <2>10 DEF Fresh
    <2>12. Unanswered(c)'
      BY <1>0, <1>1, <2>1, <2>2, <2>5, <2>6, <2>10 DEF Unanswered
    <2>13. Sending(c)'
      BY <1>0, <1>1, <2>1, <2>2, <2>5, <2>6, <2>10 DEF Sending
    <2>14. Wanted(c)'
      BY <1>0, <1>1, <2>1, <2>2, <2>5, <2>6, <2>10 DEF Wanted
    <2>15. Gapless(c)'
      BY <1>0, <1>1, <2>1, <2>2, <2>5, <2>6, <2>10 DEF Gapless
    <2>16. Marked(c)'
      BY <1>0, <1>1, <2>1, <2>2, <2>5, <2>6, <2>10 DEF Marked
    <2>17. Delivery(c)'
      BY <1>0, <1>1, <2>1, <2>2, <2>5, <2>6, <2>10 DEF Delivery
    <2>18. Awaited(c)'
      BY <1>0, <1>1, <2>1, <2>2, <2>5, <2>6, <2>10 DEF Awaited
    <2>19. Complete(c)'
      BY <1>0, <1>1, <2>1, <2>2, <2>5, <2>6, <2>10 DEF Complete
    <2>20. ScanInv(c)'
      BY <2>11, <2>12, <2>13, <2>14, <2>15, <2>16, <2>17, <2>18, <2>19 DEF ScanInv
    <2> QED BY <1>1, <1>6, <2>7, <2>8, <2>9, <2>20, OneScanMoves
  <1>10. CASE /\ m.type = "cancel" /\ UNCHANGED toGateway
              /\ exec' = IF c \in Permits THEN [exec EXCEPT ![c].cancelled = TRUE] ELSE exec
    <2>1. /\ exec'[c].pc = exec[c].pc /\ exec'[c].sent = exec[c].sent
          /\ exec' \in [Scan -> ExecRecord] /\ \A d \in Scan : d # c => exec'[d] = exec[d]
      BY <1>0, <1>10 DEF Records, ExecRecord
    <2>2. PermitsOK'
      <3>1. Permits' \subseteq Permits
        BY <2>1 DEF Permits
      <3> QED BY <1>0, <3>1, PermitsShrink
    <2>3. /\ (Asked(c)' <=> Asked(c)) /\ (Working(c)' <=> Working(c)) /\ (open' <=> open)
          /\ Coming(c)' = Coming(c) /\ Ends(c)' = Ends(c) /\ (Admitted(c)' <=> Admitted(c))
      <3>1. Inbox' = Inbox
        BY <1>1, <1>10 DEF Inbox
      <3> QED BY <1>1, <1>5, <1>10, <2>1, <3>1 DEF Working, Coming, Ends, Admitted, open
    <2>4. Fresh(c)'
      BY <1>0, <1>1, <2>1, <2>3 DEF Fresh
    <2>5. Unanswered(c)'
      BY <1>0, <1>1, <2>1, <2>3 DEF Unanswered
    <2>6. Sending(c)'
      BY <1>0, <1>1, <2>1, <2>3 DEF Sending
    <2>7. Wanted(c)'
      BY <1>0, <1>1, <2>1, <2>3 DEF Wanted
    <2>8. Gapless(c)'
      BY <1>0, <1>1, <2>1, <2>3 DEF Gapless
    <2>9. Marked(c)'
      BY <1>0, <1>1, <2>1, <2>3 DEF Marked
    <2>10. Delivery(c)'
      BY <1>0, <1>1, <2>1, <2>3 DEF Delivery
    <2>11. Awaited(c)'
      BY <1>0, <1>1, <2>1, <2>3 DEF Awaited
    <2>12. Complete(c)'
      BY <1>0, <1>1, <2>1, <2>3 DEF Complete
    <2>13. ScanInv(c)'
      BY <2>4, <2>5, <2>6, <2>7, <2>8, <2>9, <2>10, <2>11, <2>12 DEF ScanInv
    <2> QED BY <1>7, <1>10, <2>1, <2>2, <2>13
  <1> QED BY <1>1, <1>8, <1>9, <1>10 DEF AgentReceive
(***************************************************************************)
(* The invariant is inductive.                                             *)
(***************************************************************************)
LEMMA InitInv == Init => IndInv
  <1> SUFFICES ASSUME Init PROVE IndInv
    OBVIOUS
  <1>1. Permits = {} /\ scans = {} /\ retired = <<>> /\ forgotten = {}
    BY DEF Init, Permits
  <1>2. IsFiniteSet({}) /\ Cardinality({}) = 0
    BY FS_EmptySet
  <1>3. SlotsOK /\ PermitsOK
    BY <1>1, <1>2, ScanAssumption DEF SlotsOK, PermitsOK
  <1>4. Inbox = <<>> /\ toAgent = <<>> /\ toGateway = <<>> /\ loop = Idle
    BY DEF Init, Inbox, Idle
  <1>5. /\ NewScan \in ScanRecord
        /\ [pc |-> "idle", got |-> <<>>, quiet |-> FALSE, result |-> "none"] \in CallerRecord
        /\ [pc |-> "none", sent |-> 0, cancelled |-> FALSE] \in ExecRecord
    BY ScanAssumption DEF NewScan, ScanRecord, CallerRecord, ExecRecord
  <1>6. Records
    BY <1>5, ScanAssumption DEF Init, Records, NewScan
  <1>7. Queues
    <2>1. DOMAIN <<>> = {}
      OBVIOUS
    <2>2. Ordered(Inbox) /\ AskedOnce(toAgent)
      BY <1>4, <2>1 DEF Ordered, AskedOnce
    <2>3. toAgent \in Seq(Demand) /\ toGateway \in Seq(Answer)
      BY <1>4
    <2>4. ASSUME NEW c \in Scan PROVE scan[c].events \in Seq(Answer)
      <3>1. scan[c].events = <<>> /\ <<>> \in Seq(Answer)
        BY DEF Init
      <3> QED BY <3>1
    <2> QED BY <1>4, <2>2, <2>3, <2>4 DEF Init, Queues, QueueTypes, Idle, open
  <1>8. ASSUME NEW c \in Scan PROVE ScanInv(c)
    <2>1. Coming(c) = {} /\ Ends(c) = {} /\ ~Asked(c) /\ ~Admitted(c) /\ ~Working(c)
      BY <1>4 DEF Init, Coming, Ends, ComingIn, EndsIn, Asked, AskedIn, Admitted, Working, Idle
    <2>2. /\ scan[c] = NewScan /\ exec[c].pc = "none" /\ exec[c].sent = 0
          /\ caller[c].pc = "idle" /\ caller[c].got = <<>> /\ caller[c].result = "none"
      BY DEF Init, NewScan
    <2>3. /\ NewScan.events = <<>> /\ NewScan.abandoned = FALSE /\ NewScan.next = 0
          /\ NewScan.terminal = FALSE
      BY DEF NewScan
    <2> QED BY <2>1, <2>2, <2>3 DEF ScanInv, Fresh, Unanswered, Sending, Wanted, Gapless,
             Marked, Delivery, Awaited, Complete
  <1> QED BY <1>3, <1>6, <1>7, <1>8, IndParts DEF Init

LEMMA StutterKeeps ==
    ASSUME IndInv, UNCHANGED vars
    PROVE  IndInv'
  <1>1. UNCHANGED <<ended, scans, retired, forgotten, scan, caller, loop, toAgent, toGateway, exec>>
    BY DEF vars, gateway
  <1>2. Inbox' = Inbox
    BY <1>1 DEF Inbox
  <1>3. ASSUME NEW d \in Scan PROVE SameScan(d)
    BY <1>1, <1>2 DEF SameScan, Coming, Ends, Asked, Admitted, open
  <1>4. /\ SlotsOK /\ PermitsOK /\ Records /\ Queues
        /\ ended \in {"no", "lost", "not_active", "invalid"}
    BY IndParts
  <1>5. SlotsOK' /\ PermitsOK' /\ Records'
    BY <1>1, <1>4 DEF SlotsOK, PermitsOK, Records, Permits
  <1>6. Queues'
    BY <1>1, <1>2, <1>4 DEF Queues, QueueTypes, open
  <1>7. \A d \in Scan : ScanInv(d)'
    BY <1>3, SameScanKept DEF IndInv
  <1> QED BY <1>1, <1>4, <1>5, <1>6, <1>7, IndParts1

LEMMA CallerKeeps ==
    ASSUME IndInv, NEW c \in Scan, CallerStep(c)
    PROVE  IndInv'
  BY DispatchKeeps, ReadKeeps, DisconnectedKeeps, CancelMarkKeeps, CancelRetireKeeps,
     CancelSendKeeps DEF CallerStep

LEMMA AgentKeeps ==
    ASSUME IndInv, NEW c \in Scan, AgentStep(c)
    PROVE  IndInv'
  BY CollectKeeps, FillKeeps, SendBatchKeeps, SendFinishedKeeps, ReleasePermitKeeps
     DEF AgentStep

LEMMA StepKeeps ==
    ASSUME IndInv, [Next]_vars
    PROVE  IndInv'
  <1>1. ASSUME NEW c \in Scan, StartScan(c) \/ GiveUp(c) \/ Deadline(c)
        PROVE  IndInv'
    BY <1>1, StartScanKeeps, GiveUpKeeps, DeadlineKeeps
  <1>2. ASSUME NEW c \in Scan, CallerStep(c) \/ AgentStep(c)
        PROVE  IndInv'
    BY <1>2, CallerKeeps, AgentKeeps
  <1>3. CASE LoopStep
    BY <1>3, ReceiveKeeps, AdmitKeeps, RetireFinishedKeeps, DeliverKeeps DEF LoopStep
  <1>4. CASE AgentReceive
    BY <1>4, AgentReceiveKeeps
  <1>5. CASE Lose
    BY <1>5, EndedKeeps DEF Lose
  <1>6. CASE UNCHANGED vars
    BY <1>6, StutterKeeps
  <1> QED BY <1>1, <1>2, <1>3, <1>4, <1>5, <1>6 DEF Next

\* Somebody answers a caller that waits.
LEMMA WaitingAnswered ==
    ASSUME IndInv, NEW c \in Scan, caller[c].pc = "waiting", open
    PROVE  Answered(c)
  <1>1. /\ Delivery(c) /\ Awaited(c) /\ scan[c] \in ScanRecord /\ Queues
        /\ scan[c].events \in Seq(Answer)
    BY Parts
  <1>2. CASE scan[c].terminal
    <2>1. \/ \E i \in 1 .. Len(scan[c].events) : scan[c].events[i].type = "finished"
          \/ Admitted(c) /\ loop.msg.type = "finished"
      BY <1>1, <1>2 DEF Delivery
    <2>2. DOMAIN scan[c].events = 1 .. Len(scan[c].events)
      BY <1>1
    <2> QED BY <2>1, <2>2 DEF Answered, Admitted
  <1>3. CASE Asked(c)
    BY <1>3 DEF Asked, AskedIn, Request, Answered
  <1>4. CASE Working(c)
    BY <1>4 DEF Working, Answered
  <1>5. CASE Ends(c) # {}
    <2>1. PICK s \in Status, i \in DOMAIN Inbox : Inbox[i] = Finished(c, s)
      BY <1>5 DEF Ends, EndsIn
    <2>2. Inbox[i].type = "finished" /\ Inbox[i].id = c
      BY <2>1 DEF Finished
    <2>3. toGateway \in Seq(Answer)
      BY <1>1 DEF Queues, QueueTypes
    <2>4. CASE loop.pc # "found"
      <3>1. Inbox = toGateway
        BY <2>3, <2>4, PushFront DEF Inbox
      <3> QED BY <2>2, <3>1 DEF Answered
    <2>5. CASE loop.pc = "found"
      <3> DEFINE q == <<loop.msg>> \o toGateway
      <3>1. Inbox = q
        BY <2>5 DEF Inbox
      <3>2. loop.msg \in Answer
        BY <1>1, <2>5 DEF Queues, QueueTypes
      <3>3. /\ DOMAIN q = 1 .. 1 + Len(toGateway) /\ q[1] = loop.msg
            /\ \A j \in 1 .. Len(toGateway) : q[j + 1] = toGateway[j]
            /\ DOMAIN toGateway = 1 .. Len(toGateway) /\ Len(toGateway) \in Nat
        BY <2>3, <3>2
      <3> HIDE DEF q
      <3>4. i \in 1 .. 1 + Len(toGateway)
        BY <3>1, <3>3
      <3>5. i = 1 \/ (i - 1 \in 1 .. Len(toGateway) /\ q[i] = toGateway[i - 1])
        <4>1. i # 1 => i - 1 \in 1 .. Len(toGateway) /\ (i - 1) + 1 = i
          BY <3>3, <3>4
        <4> QED BY <3>3, <4>1
      <3> QED BY <2>2, <2>5, <3>1, <3>3, <3>5 DEF Answered
    <2> QED BY <2>4, <2>5
  <1> QED BY <1>1, <1>2, <1>3, <1>4, <1>5 DEF Awaited, ScanRecord

\* The queues and buffers of the scans keep their order, whatever interleaving of
\* callers, receive loop and agent happens (Session, deliverBatch, finishScan,
\* runSession, executeScan).
THEOREM ScansInductive == Spec => []IndInv
  BY InitInv, StepKeeps, PTL DEF Spec

\* A scan that succeeded has delivered every batch, and no caller of a living
\* session waits for an answer nobody will send, for any number of scans and any
\* limits (deliverBatch, finishScan, executeScan).
THEOREM AnswersWhole == Spec => [](TypeOK /\ SuccessComplete /\ NoLostScan)
  <1>1. IndInv => TypeOK /\ SuccessComplete /\ NoLostScan
    <2> SUFFICES ASSUME IndInv PROVE TypeOK /\ SuccessComplete /\ NoLostScan
      OBVIOUS
    <2>1. SuccessComplete
      BY DEF IndInv, ScanInv, Complete, SuccessComplete
    <2>2. NoLostScan
      BY WaitingAnswered DEF NoLostScan
    <2> QED BY <2>1, <2>2 DEF IndInv
  <1> QED BY <1>1, ScansInductive, PTL

(***************************************************************************)
(* No identifier is forgotten while it may still be named.                 *)
(***************************************************************************)
LEMMA AppendIds ==
    ASSUME NEW T, NEW q \in Seq(T), NEW m \in T
    PROVE  IdsIn(Append(q, m)) = IdsIn(q) \cup {m.id}
  <1>1. /\ Len(q) \in Nat /\ DOMAIN q = 1 .. Len(q) /\ DOMAIN Append(q, m) = 1 .. Len(q) + 1
        /\ \A i \in 1 .. Len(q) : Append(q, m)[i] = q[i]
        /\ Append(q, m)[Len(q) + 1] = m
    OBVIOUS
  <1> HIDE DEF IdsIn
  <1>2. 1 .. Len(q) + 1 = (1 .. Len(q)) \cup {Len(q) + 1}
    BY <1>1
  <1> QED BY <1>1, <1>2 DEF IdsIn

LEMMA TailIds ==
    ASSUME NEW T, NEW q \in Seq(T), q # <<>>
    PROVE  Head(q).id \in IdsIn(q) /\ IdsIn(Tail(q)) \subseteq IdsIn(q)
  <1>1. /\ Len(q) \in Nat /\ DOMAIN q = 1 .. Len(q) /\ DOMAIN Tail(q) = 1 .. Len(q) - 1
        /\ \A i \in 1 .. Len(q) - 1 : Tail(q)[i] = q[i + 1] /\ i + 1 \in 1 .. Len(q)
        /\ Head(q) = q[1] /\ 1 \in 1 .. Len(q)
    OBVIOUS
  <1> QED BY <1>1 DEF IdsIn

LEMMA NoIds == IdsIn(<<>>) = {}
  <1>1. DOMAIN <<>> = {}
    OBVIOUS
  <1> QED BY <1>1 DEF IdsIn

\* An identifier that leaves the retired ones is remembered as forgotten.
LEMMA RetireRemembers ==
    ASSUME SlotsOK, Remembered, NEW c \in Scan, retireScan(c)
    PROVE  /\ Identifiers \subseteq Identifiers'
           /\ (forgotten # {} => Len(retired) = RetiredLimit)'
  <1>1. /\ retired \in Seq(Scan) /\ Len(retired) \in Nat /\ Len(retired) <= RetiredLimit
        /\ RetiredLimit \in Nat \ {0} /\ scans' = scans \ {c}
        /\ forgotten # {} => Len(retired) = RetiredLimit
    BY ScanAssumption DEF SlotsOK, Remembered, retireScan
  <1>2. CASE c \notin scans \/ c \in ToSet(retired)
    BY <1>1, <1>2 DEF retireScan, Identifiers
  <1>3. CASE c \in scans /\ c \notin ToSet(retired) /\ ~(Len(retired) >= RetiredLimit)
    <2>1. retired' = Append(retired, c) /\ forgotten' = forgotten
      BY <1>3 DEF retireScan
    <2>2. /\ DOMAIN retired = 1 .. Len(retired) /\ DOMAIN retired' = 1 .. Len(retired) + 1
          /\ \A i \in 1 .. Len(retired) : retired'[i] = retired[i] /\ i \in 1 .. Len(retired) + 1
          /\ retired'[Len(retired) + 1] = c /\ Len(retired) + 1 \in 1 .. Len(retired) + 1
      BY <1>1, <2>1
    <2>3. ToSet(retired) \cup {c} \subseteq ToSet(retired')
      BY <2>2 DEF ToSet
    <2> QED BY <1>1, <1>3, <2>1, <2>3 DEF Identifiers
  <1>4. CASE c \in scans /\ c \notin ToSet(retired) /\ Len(retired) >= RetiredLimit
    <2>1. retired' = Append(Tail(retired), c) /\ forgotten' = forgotten \cup {Head(retired)}
      BY <1>4 DEF retireScan
    <2>2. retired # <<>> /\ Len(retired) = RetiredLimit
      BY <1>1, <1>4
    <2>3. /\ DOMAIN retired = 1 .. Len(retired) /\ DOMAIN retired' = 1 .. Len(retired)
          /\ \A i \in 1 .. Len(retired) : i = 1 \/ (i - 1 \in 1 .. Len(retired) /\ retired'[i - 1] = retired[i])
          /\ retired'[Len(retired)] = c /\ Len(retired) \in 1 .. Len(retired)
          /\ Head(retired) = retired[1] /\ Len(retired') = Len(retired)
      BY <1>1, <2>1, <2>2
    <2>4. \A i \in 1 .. Len(retired) : retired[i] \in ToSet(retired') \/ retired[i] = Head(retired)
      BY <2>3 DEF ToSet
    <2>5. ToSet(retired) \subseteq ToSet(retired') \cup {Head(retired)} /\ c \in ToSet(retired')
      BY <2>3, <2>4 DEF ToSet
    <2> QED BY <1>1, <2>1, <2>2, <2>3, <2>5 DEF Identifiers
  <1> QED BY <1>2, <1>3, <1>4

\* What a step must show that loses no identifier.
LEMMA StillRemembered ==
    ASSUME Remembered, Identifiers \subseteq Identifiers',
           (forgotten # {} => Len(retired) = RetiredLimit)',
           \A c \in Scan : caller'[c].pc \notin {"idle", "done"} =>
               caller[c].pc \notin {"idle", "done"} \/ c \in Identifiers',
           \A c \in Scan : exec'[c].pc \in {"collecting", "running", "sending", "stopping"} =>
               Working(c) \/ c \in Identifiers',
           IdsIn(toAgent') \subseteq IdsIn(toAgent) \cup Identifiers',
           IdsIn(toGateway') \subseteq IdsIn(toGateway) \cup Identifiers',
           ended' = "invalid" => ended = "invalid",
           ended' = "not_active" => ended = "not_active" \/ forgotten' # {},
           forgotten \subseteq forgotten',
           HealthySession
    PROVE  Remembered' /\ HealthySession'
  <1>1. Remembered'
    BY DEF Remembered, Working
  <1>2. \A i \in DOMAIN toGateway' : toGateway'[i].id \in Identifiers'
    BY <1>1 DEF Remembered, IdsIn
  <1> QED BY <1>1, <1>2 DEF HealthySession, Identifiers

\* The session is ended by a message of a scan that was dropped only ...
LEMMA OnlyForgotten ==
    ASSUME HealthInv, open, toGateway # <<>>, Head(toGateway).id \notin scans \cup ToSet(retired)
    PROVE  forgotten # {}
  <1>1. toGateway \in Seq(Answer)
    BY IndParts DEF HealthInv, Queues, QueueTypes
  <1> QED BY <1>1, TailIds DEF HealthInv, Remembered, Identifiers

\* ... nor by a batch that does not follow the one before.
LEMMA NeverSkipped ==
    ASSUME IndInv, loop.pc = "found", loop.msg.type = "batch",
           ~scan[loop.msg.id].terminal
    PROVE  loop.msg.index = scan[loop.msg.id].next
  <1>a. PICK m \in Answer : m = loop.msg
    BY IndParts DEF Queues, QueueTypes
  <1>b. PICK c \in Scan : c = m.id
    BY AnswerForms
  <1>1. Gapless(c) /\ Queues /\ scan[c] \in ScanRecord /\ ~scan[c].terminal /\ toGateway \in Seq(Answer)
    BY <1>a, <1>b, Parts DEF Queues, QueueTypes
  <1>2. Inbox = <<m>> \o toGateway
    BY <1>a DEF Inbox
  <1>3. Inbox \in Seq(Answer) /\ Inbox # <<>> /\ Head(Inbox) = m /\ Ordered(Inbox)
    BY <1>1, <1>2, PushFront DEF Queues
  <1>4. m = Batch(c, m.index) /\ m.index \in 0 .. Batches
    BY <1>a, <1>b, AnswerForms
  <1>5. /\ Coming(c) = ComingIn(Tail(Inbox), c) \cup {m.index}
        /\ \A j \in ComingIn(Tail(Inbox), c) : m.index < j
    <2> DEFINE q == Inbox
    <2>1. q \in Seq(Answer) /\ q # <<>> /\ Head(q) = m /\ Ordered(q)
      BY <1>3
    <2> HIDE DEF q
    <2>2. ComingIn(q, c) = ComingIn(Tail(q), c) \cup BatchOf(Head(q), c)
      BY <2>1, TailIn
    <2>3. \A j \in ComingIn(Tail(q), c) : m.index < j
      BY <1>4, <2>1, TailOrdered
    <2>4. BatchOf(m, c) = {m.index}
      BY <1>a, <1>b, OfMessage
    <2> QED BY <2>1, <2>2, <2>3, <2>4 DEF Coming, q
  <1>6. scan[c].next <= m.index /\ (scan[c].next .. m.index) \subseteq Coming(c)
    BY <1>1, <1>5 DEF Gapless
  <1>7. scan[c].next \in Nat
    BY <1>1, ScanAssumption DEF ScanRecord
  <1>8. scan[c].next \in Coming(c)
    BY <1>4, <1>6, <1>7
  <1>9. m.index <= scan[c].next
    BY <1>4, <1>5, <1>7, <1>8
  <1> QED BY <1>a, <1>b, <1>4, <1>6, <1>7, <1>9

LEMMA CallerRemembers ==
    ASSUME HealthInv, NEW c \in Scan,
           StartScan(c) \/ GiveUp(c) \/ CallerStep(c)
    PROVE  HealthySession' /\ Remembered'
  <1>1. /\ Remembered /\ HealthySession /\ SlotsOK /\ Records /\ toAgent \in Seq(Demand)
        /\ caller[c] \in CallerRecord
    BY Parts DEF HealthInv, Queues, QueueTypes
  <1>2. UNCHANGED <<ended, toGateway, exec>>
    BY DEF StartScan, GiveUp, CallerStep, Dispatch, Read, Disconnected, CancelMark, CancelRetire,
           CancelSend, gateway
  <1>4. \A d \in Scan : d # c => caller'[d].pc = caller[d].pc
    BY <1>1 DEF Records, StartScan, GiveUp, CallerStep, Dispatch, Read, Disconnected, CancelMark,
           CancelRetire, CancelSend, Failed
  <1>5. Request(c).id = c /\ CancelScan(c).id = c /\ Request(c) \in Demand /\ CancelScan(c) \in Demand
    BY Messages DEF Request, CancelScan
  <1>6. IdsIn(toAgent') \subseteq IdsIn(toAgent) \cup {c}
    <2>1. \/ toAgent' = toAgent \/ toAgent' = Append(toAgent, Request(c))
          \/ toAgent' = Append(toAgent, CancelScan(c))
      BY DEF StartScan, GiveUp, CallerStep, Dispatch, Read, Disconnected, CancelMark, CancelRetire,
             CancelSend
    <2>2. /\ IdsIn(Append(toAgent, Request(c))) = IdsIn(toAgent) \cup {c}
          /\ IdsIn(Append(toAgent, CancelScan(c))) = IdsIn(toAgent) \cup {c}
      BY <1>1, <1>5, AppendIds
    <2> QED BY <2>1, <2>2
  <1>7. /\ Identifiers \subseteq Identifiers' /\ forgotten \subseteq forgotten'
        /\ (forgotten # {} => Len(retired) = RetiredLimit)'
    <2>1. \/ retired' = retired /\ forgotten' = forgotten /\ scans \subseteq scans'
          \/ retireScan(c)
      BY DEF StartScan, GiveUp, CallerStep, Dispatch, Read, Disconnected, CancelMark, CancelRetire,
             CancelSend, gateway
    <2> QED BY <1>1, <2>1, RetireRemembers DEF Identifiers, Remembered, retireScan
  <1>8. CASE caller[c].pc # "idle"
    <2>1. caller[c].pc \notin {"idle", "done"}
      BY <1>8 DEF StartScan, GiveUp, CallerStep, Dispatch, Read, Disconnected, CancelMark,
             CancelRetire, CancelSend
    <2>2. c \in Identifiers'
      BY <1>1, <1>7, <2>1 DEF Remembered
    <2> QED BY <1>1, <1>2, <1>4, <1>6, <1>7, <2>1, <2>2, StillRemembered DEF Working
  <1>9. CASE caller[c].pc = "idle"
    <2>1. StartScan(c)
      BY <1>9 DEF GiveUp, CallerStep, Dispatch, Read, Disconnected, CancelMark, CancelRetire,
             CancelSend
    <2>2. UNCHANGED <<toAgent>>
      BY <2>1 DEF StartScan
    <2>3. caller'[c].pc = "done" \/ c \in Identifiers'
      BY <1>1, <2>1 DEF StartScan, Failed, Identifiers, Records
    <2>4. \A d \in Scan : caller'[d].pc \notin {"idle", "done"} =>
               caller[d].pc \notin {"idle", "done"} \/ d \in Identifiers'
      BY <1>4, <2>3
    <2> QED BY <1>1, <1>2, <1>7, <2>2, <2>4, StillRemembered DEF Working
  <1> QED BY <1>8, <1>9

LEMMA EndedRemembers ==
    ASSUME Remembered, HealthySession, NEW how \in {"lost", "not_active"}, Ended(how),
           how = "not_active" => forgotten # {}
    PROVE  HealthySession' /\ Remembered'
  <1>1. /\ ended' = how /\ toAgent' = <<>> /\ toGateway' = <<>>
        /\ exec' = [c \in Scan |-> Executed] /\ UNCHANGED <<scans, retired, forgotten, caller>>
    BY DEF Ended
  <1>2. \A c \in Scan : exec'[c].pc = "over"
    BY <1>1 DEF Executed
  <1>3. Identifiers' = Identifiers
    BY <1>1 DEF Identifiers
  <1>4. IdsIn(toAgent') = {} /\ IdsIn(toGateway') = {}
    BY <1>1, NoIds
  <1> QED BY <1>1, <1>2, <1>3, <1>4, StillRemembered DEF Remembered

LEMMA LoopRemembers ==
    ASSUME HealthInv, LoopStep
    PROVE  HealthySession' /\ Remembered'
  <1>1. /\ Remembered /\ HealthySession /\ SlotsOK /\ toGateway \in Seq(Answer) /\ IndInv
        /\ loop.pc # "receive" => loop.msg.id \in Scan
    BY IndParts, AnswerForms DEF HealthInv, Queues, QueueTypes
  <1>2. ASSUME UNCHANGED <<ended, caller, toAgent, exec>>,
               IdsIn(toGateway') \subseteq IdsIn(toGateway),
               Identifiers \subseteq Identifiers', forgotten \subseteq forgotten',
               (forgotten # {} => Len(retired) = RetiredLimit)'
        PROVE  HealthySession' /\ Remembered'
    BY <1>1, <1>2, StillRemembered DEF HealthySession, Working
  <1>3. CASE Receive
    <2>1. CASE Head(toGateway).id \in scans \cup ToSet(retired)
      <3>1. /\ toGateway' = Tail(toGateway) /\ toGateway # <<>>
            /\ UNCHANGED <<ended, scans, retired, forgotten, caller, toAgent, exec>>
        BY <1>3, <2>1 DEF Receive, gateway
      <3>2. IdsIn(toGateway') \subseteq IdsIn(toGateway)
        BY <1>1, <3>1, TailIds
      <3> QED BY <1>1, <1>2, <3>1, <3>2 DEF Identifiers, Remembered
    <2>2. CASE Head(toGateway).id \notin scans \cup ToSet(retired)
      <3>1. forgotten # {} /\ Ended("not_active")
        BY <1>3, <2>2, OnlyForgotten DEF Receive
      <3> QED BY <1>1, <3>1, EndedRemembers
    <2> QED BY <2>1, <2>2
  <1>4. CASE Admit
    <2>1. UNCHANGED <<ended, scans, retired, forgotten, caller, toAgent, toGateway, exec>>
      BY <1>1, <1>4, NeverSkipped DEF Admit, gateway
    <2> QED BY <1>1, <1>2, <2>1 DEF Identifiers, Remembered
  <1>5. CASE RetireFinished
    <2>1. /\ UNCHANGED <<ended, caller, toAgent, toGateway, exec>>
          /\ retireScan(loop.msg.id) /\ loop.msg.id \in Scan
      BY <1>1, <1>5 DEF RetireFinished
    <2>2. /\ Identifiers \subseteq Identifiers' /\ forgotten \subseteq forgotten'
          /\ (forgotten # {} => Len(retired) = RetiredLimit)'
      BY <1>1, <2>1, RetireRemembers DEF retireScan
    <2> QED BY <1>2, <2>1, <2>2
  <1>6. CASE Deliver
    <2>1. UNCHANGED <<ended, scans, retired, forgotten, caller, toAgent, toGateway, exec>>
      BY <1>6 DEF Deliver
    <2> QED BY <1>1, <1>2, <2>1 DEF Identifiers, Remembered
  <1> QED BY <1>3, <1>4, <1>5, <1>6 DEF LoopStep

LEMMA AgentRemembers ==
    ASSUME HealthInv, NEW c \in Scan, Deadline(c) \/ AgentStep(c)
    PROVE  HealthySession' /\ Remembered'
  <1>1. /\ Remembered /\ HealthySession /\ Records /\ toGateway \in Seq(Answer)
        /\ exec[c].sent \in 0 .. Batches /\ Sending(c) /\ exec[c] \in ExecRecord
    BY Parts DEF HealthInv, Queues, QueueTypes, ExecRecord
  <1>2. UNCHANGED <<ended, scans, retired, forgotten, caller, toAgent>>
    BY DEF Deadline, AgentStep, Collect, Fill, SendBatch, SendFinished, ReleasePermit, gateway
  <1>3. \A d \in Scan : d # c => exec'[d].pc = exec[d].pc
    BY <1>1 DEF Records, Deadline, AgentStep, Collect, Fill, SendBatch, SendFinished,
           ReleasePermit, Finish
  <1>4. exec'[c].pc \in {"collecting", "running", "sending", "stopping"} => Working(c)
    <2>1. CASE Deadline(c)
      BY <1>1, <2>1 DEF Deadline, Working, Records, ExecRecord
    <2>2. CASE ReleasePermit(c)
      BY <1>1, <2>2 DEF ReleasePermit, Executed, Records
    <2>3. CASE Collect(c) \/ Fill(c) \/ SendBatch(c) \/ SendFinished(c)
      BY <2>3 DEF Collect, Fill, SendBatch, SendFinished, Working
    <2> QED BY <2>1, <2>2, <2>3 DEF AgentStep
  <1>5. IdsIn(toGateway') \subseteq IdsIn(toGateway) \cup Identifiers
    <2>1. CASE UNCHANGED toGateway
      BY <2>1
    <2>2. ASSUME NEW m \in Answer, m.id = c, toGateway' = Append(toGateway, m), Working(c)
          PROVE  IdsIn(toGateway') \subseteq IdsIn(toGateway) \cup Identifiers
      BY <1>1, <2>2, AppendIds DEF Remembered
    <2>3. ASSUME NEW s \in Status, Finish(c, s), Working(c)
          PROVE  IdsIn(toGateway') \subseteq IdsIn(toGateway) \cup Identifiers
      <3>1. Finished(c, s) \in Answer /\ Finished(c, s).id = c
        BY Messages DEF Finished
      <3> QED BY <2>2, <2>3, <3>1 DEF Finish
    <2>4. CASE Collect(c)
      BY <2>1, <2>3, <2>4 DEF Collect, Working, Status
    <2>5. CASE SendBatch(c)
      <3>1. Batch(c, exec[c].sent) \in Answer /\ Batch(c, exec[c].sent).id = c
        BY <1>1, <2>5, Messages DEF Batch, SendBatch, Sending
      <3> QED BY <2>2, <2>5, <3>1 DEF SendBatch, Working
    <2>6. CASE SendFinished(c)
      BY <2>3, <2>6 DEF SendFinished, Working, Status
    <2> QED BY <2>1, <2>4, <2>5, <2>6 DEF Deadline, AgentStep, Fill, ReleasePermit
  <1> QED BY <1>1, <1>2, <1>3, <1>4, <1>5, StillRemembered
        DEF HealthySession, Identifiers, Remembered, Working

LEMMA ReceivedRemembers ==
    ASSUME HealthInv, AgentReceive
    PROVE  HealthySession' /\ Remembered'
  <1>a. PICK m \in Demand : m = Head(toAgent)
    BY IndParts DEF HealthInv, AgentReceive, Queues, QueueTypes
  <1>b. PICK c \in Scan : c = m.id
    BY DemandForms
  <1>1. /\ Remembered /\ HealthySession /\ Records /\ toGateway \in Seq(Answer)
        /\ toAgent \in Seq(Demand) /\ toAgent # <<>> /\ toAgent' = Tail(toAgent)
        /\ UNCHANGED <<ended, scans, retired, forgotten, caller>>
    BY IndParts DEF HealthInv, AgentReceive, Queues, QueueTypes, gateway
  <1>2. c \in Identifiers /\ IdsIn(toAgent') \subseteq IdsIn(toAgent)
    BY <1>a, <1>b, <1>1, TailIds DEF Remembered
  <1>3. \A d \in Scan : d # c => exec'[d] = exec[d]
    BY <1>a, <1>b, <1>1 DEF Records, AgentReceive
  <1>4. IdsIn(toGateway') \subseteq IdsIn(toGateway) \cup {c}
    <2>1. "failed" \in Status /\ Finished(c, "failed") \in Answer /\ Finished(c, "failed").id = c
      BY Messages DEF Finished, Status
    <2>2. toGateway' = toGateway \/ toGateway' = Append(toGateway, Finished(c, "failed"))
      BY <1>a, <1>b DEF AgentReceive
    <2>3. IdsIn(Append(toGateway, Finished(c, "failed"))) = IdsIn(toGateway) \cup {c}
      BY <1>1, <2>1, AppendIds
    <2> QED BY <2>2, <2>3
  <1> QED BY <1>1, <1>2, <1>3, <1>4, StillRemembered
        DEF HealthySession, Identifiers, Remembered, Working

LEMMA HealthKept ==
    ASSUME HealthInv, [Next]_vars
    PROVE  HealthInv'
  <1>1. IndInv'
    BY StepKeeps DEF HealthInv
  <1>2. ASSUME NEW c \in Scan, StartScan(c) \/ GiveUp(c) \/ CallerStep(c)
        PROVE  HealthySession' /\ Remembered'
    BY <1>2, CallerRemembers
  <1>3. ASSUME NEW c \in Scan, Deadline(c) \/ AgentStep(c)
        PROVE  HealthySession' /\ Remembered'
    BY <1>3, AgentRemembers
  <1>4. ASSUME LoopStep PROVE HealthySession' /\ Remembered'
    BY <1>4, LoopRemembers
  <1>5. ASSUME AgentReceive PROVE HealthySession' /\ Remembered'
    BY <1>5, ReceivedRemembers
  <1>6. ASSUME Lose PROVE HealthySession' /\ Remembered'
    BY <1>6, EndedRemembers DEF Lose, HealthInv
  <1>7. ASSUME UNCHANGED vars PROVE HealthySession' /\ Remembered'
    BY <1>7 DEF HealthInv, HealthySession, Identifiers, Remembered, vars, gateway, Working
  <1>8. HealthySession' /\ Remembered'
    BY <1>2, <1>3, <1>4, <1>5, <1>6, <1>7 DEF Next
  <1> QED BY <1>1, <1>8 DEF HealthInv

LEMMA InitHealth == Init => HealthInv
  <1> SUFFICES ASSUME Init PROVE HealthInv
    OBVIOUS
  <1>1. /\ toAgent = <<>> /\ toGateway = <<>> /\ forgotten = {} /\ ended = "no"
        /\ \A c \in Scan : caller[c].pc = "idle" /\ exec[c].pc = "none"
    BY DEF Init
  <1>2. DOMAIN <<>> = {}
    OBVIOUS
  <1>3. Remembered
    BY <1>1, NoIds DEF Remembered, Working
  <1> QED BY <1>1, <1>2, <1>3, InitInv DEF HealthInv, HealthySession

\* A scan's answer is whole or still to come, and neither a cancellation nor a
\* late message ends the session, but one of a scan that RetiredLimit others have
\* pushed out of the retired ones: for any number of scans of a session, also
\* when it exceeds the limit (Cancel, retireScan, activeScan, deliverBatch).
THEOREM AllScansExact == Spec => []ScansExact
  <1>1. HealthInv /\ [Next]_vars => HealthInv'
    BY HealthKept
  <1>2. Spec => []HealthInv
    BY <1>1, InitHealth, PTL DEF Spec
  <1>3. HealthInv => HealthySession
    BY DEF HealthInv
  <1>4. TypeOK /\ SuccessComplete /\ NoLostScan /\ HealthySession => ScansExact
    BY DEF ScansExact
  <1> QED BY <1>2, <1>3, <1>4, AnswersWhole, PTL

=============================================================================
