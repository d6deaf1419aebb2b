------------------------------ MODULE Metrics -------------------------------
(***************************************************************************)
(* The client's metrics (metrics.go) and the places where sendRequest and  *)
(* sendUnconfirmedRequest (client.go) count. Every counter is an atomic of *)
(* its own and the histogram has its own lock, so the steps of the         *)
(* requests interleave with Reset and Snapshot, which go field by field.   *)
(*                                                                         *)
(* The fields are those a request passes through; the others are counted   *)
(* in one place each.                                                      *)
(***************************************************************************)
EXTENDS Integers, FiniteSetsExt, SequencesExt, TLC

CONSTANTS Confirmed,    \* calls of sendRequest, one request each
          Unconfirmed,  \* calls of sendUnconfirmedRequest
          Latencies,    \* times from sending to the answer, in clock ticks
          PerMs,        \* ticks per millisecond (10^6 in the code)
          MaxReaders    \* bound on the calls of Reset and of Snapshot

ASSUME MetricsAssumption ==
    /\ IsFiniteSet(Confirmed) /\ IsFiniteSet(Unconfirmed)
    /\ Confirmed \cap Unconfirmed = {}
    /\ Latencies \subseteq Nat
    /\ PerMs \in Nat \ {0}
    /\ MaxReaders \in Nat

VARIABLES m,          \* counters and gauge, by name
          hist,       \* RequestLatency
          pc, answer, \* per call: where it is, what it was answered
          rpc, resets,\* next field Reset sets, and calls of it so far
          spc, snap,  \* next field Snapshot reads, and what it has read
          snapshots,  \* calls of Snapshot so far
          forgotten   \* history: requests under way when Reset set the gauge

vars == <<m, hist, pc, answer, rpc, resets, spc, snap, snapshots, forgotten>>
calls == <<pc, answer>>
readers == <<rpc, resets, spc, snap, snapshots, forgotten>>

Calls == Confirmed \cup Unconfirmed
Counters == {"RequestsSent", "RequestsSucceeded", "RequestsFailed",
             "RequestsTimedOut"}

\* The order in which Reset and Snapshot go through the fields.
Fields == <<"RequestsSent", "RequestsSucceeded", "RequestsFailed",
            "RequestsTimedOut", "RequestLatency", "ActiveRequests">>

Inc(f) == m' = [m EXCEPT ![f] = @ + 1]
Dec(f) == m' = [m EXCEPT ![f] = @ - 1]

-----------------------------------------------------------------------------
(* LatencyHistogram *)

\* Upper ends of the buckets in milliseconds; the tenth has none.
Bounds == <<1, 5, 10, 25, 50, 100, 250, 500, 1000>>

NewLatencyHistogram ==
    [count |-> 0, sum |-> 0, min |-> -1, max |-> 0,
     buckets |-> [b \in 1..10 |-> 0]]

\* Mutant: the bounds belong to the bucket below.
BucketBelow(d) ==
    Min({10} \cup {b \in DOMAIN Bounds : d \div PerMs <= Bounds[b]})

Bucket(d) == Min({10} \cup {b \in DOMAIN Bounds : d \div PerMs < Bounds[b]})

Record(d) ==
    hist' = [count |-> hist.count + 1,
             sum |-> hist.sum + d,
             min |-> IF hist.min < 0 \/ d < hist.min THEN d ELSE hist.min,
             max |-> IF d > hist.max THEN d ELSE hist.max,
             buckets |-> [hist.buckets EXCEPT ![Bucket(d)] = @ + 1]]

Stats ==
    [count |-> hist.count, buckets |-> hist.buckets,
     min |-> IF hist.count > 0 THEN hist.min ELSE 0,
     max |-> IF hist.count > 0 THEN hist.max ELSE 0,
     avg |-> IF hist.count > 0 THEN hist.sum \div hist.count ELSE 0]

-----------------------------------------------------------------------------
(* Requests *)

At(c, from, to) == pc[c] = from /\ pc' = [pc EXCEPT ![c] = to]

\* A step of call c that counts nothing but field f, or nothing at all.
Counting(c, from, to, f) ==
    /\ At(c, from, to)
    /\ Inc(f)
    /\ UNCHANGED <<hist, answer, readers>>

CountSent(c) == Counting(c, "idle", "sent", "RequestsSent")

CountActive(c) ==
    c \in Confirmed /\ Counting(c, "sent", "active", "ActiveRequests")

SendFails(c) ==
    \/ c \in Confirmed /\ Counting(c, "active", "leaving", "RequestsFailed")
    \/ c \in Unconfirmed /\ Counting(c, "sent", "returned", "RequestsFailed")

SendUnconfirmed(c) ==
    c \in Unconfirmed /\ Counting(c, "sent", "returned", "RequestsSucceeded")

SendConfirmed(c) ==
    /\ At(c, "active", "waiting")
    /\ UNCHANGED <<m, hist, answer, readers>>

ContextDone(c) == Counting(c, "waiting", "leaving", "RequestsTimedOut")

\* What arrives on respCh: an acknowledgement; an error, reject or abort; the
\* closing of the channel or a PDU of another type.
Answers == {"ack", "error", "none"}

\* Mutant: the latency is recorded when the outcome has been counted.
AnswerUnrecorded(c) ==
    /\ At(c, "waiting", "answered")
    /\ \E a \in Answers : answer' = [answer EXCEPT ![c] = a]
    /\ UNCHANGED <<m, hist, readers>>

Answer(c) ==
    /\ At(c, "waiting", "answered")
    /\ \E a \in Answers : answer' = [answer EXCEPT ![c] = a]
    /\ \E d \in Latencies : Record(d)
    /\ UNCHANGED <<m, readers>>

\* Mutant: a closed channel is counted as a failure too.
CountOutcomeAlways(c) ==
    \/ answer[c] = "ack"
        /\ Counting(c, "answered", "leaving", "RequestsSucceeded")
    \/ answer[c] # "ack"
        /\ Counting(c, "answered", "leaving", "RequestsFailed")

CountOutcome(c) ==
    \/ answer[c] = "ack"
        /\ Counting(c, "answered", "leaving", "RequestsSucceeded")
    \/ answer[c] = "error"
        /\ Counting(c, "answered", "leaving", "RequestsFailed")
    \/ /\ answer[c] = "none"
       /\ At(c, "answered", "leaving")
       /\ UNCHANGED <<m, hist, answer, readers>>

\* Mutant: the gauge goes down only for requests that were answered.
ReturnAnswered(c) ==
    /\ At(c, "leaving", "returned")
    /\ IF answer[c] = "pending" THEN UNCHANGED m ELSE Dec("ActiveRequests")
    /\ UNCHANGED <<hist, answer, readers>>

\* The deferred Dec
Return(c) ==
    /\ At(c, "leaving", "returned")
    /\ Dec("ActiveRequests")
    /\ UNCHANGED <<hist, answer, readers>>

-----------------------------------------------------------------------------
(* Reset and Snapshot *)

\* Requests between Inc and Dec of ActiveRequests.
UnderWay == {c \in Confirmed : pc[c] \in {"active", "waiting", "answered",
                                          "leaving"}}

StartReset ==
    /\ rpc = 0 /\ resets + snapshots < MaxReaders
    /\ rpc' = 1 /\ resets' = resets + 1
    /\ UNCHANGED <<m, hist, calls, spc, snap, snapshots, forgotten>>

ResetField ==
    /\ rpc > 0
    /\ rpc' = (rpc + 1) % (Len(Fields) + 1)
    /\ \/ /\ Fields[rpc] = "RequestLatency"
          /\ hist' = NewLatencyHistogram
          /\ UNCHANGED <<m, forgotten>>
       \/ /\ Fields[rpc] # "RequestLatency"
          /\ m' = [m EXCEPT ![Fields[rpc]] = 0]
          /\ forgotten' = IF Fields[rpc] = "ActiveRequests"
                          THEN Cardinality(UnderWay) ELSE forgotten
          /\ UNCHANGED hist
    /\ UNCHANGED <<calls, resets, spc, snap, snapshots>>

StartSnapshot ==
    /\ spc = 0 /\ resets + snapshots < MaxReaders
    /\ spc' = 1 /\ snapshots' = snapshots + 1
    /\ snap' = <<>>
    /\ UNCHANGED <<m, hist, calls, rpc, resets, forgotten>>

\* snap[i] is what was read of Fields[i].
SnapshotField ==
    /\ spc > 0
    /\ spc' = (spc + 1) % (Len(Fields) + 1)
    /\ snap' = Append(snap, IF Fields[spc] = "RequestLatency" THEN Stats
                            ELSE m[Fields[spc]])
    /\ UNCHANGED <<m, hist, calls, rpc, resets, snapshots, forgotten>>

-----------------------------------------------------------------------------
Init ==
    /\ m = [f \in Counters \cup {"ActiveRequests"} |-> 0]
    /\ hist = NewLatencyHistogram
    /\ pc = [c \in Calls |-> "idle"]
    /\ answer = [c \in Calls |-> "pending"]
    /\ rpc = 0 /\ resets = 0
    /\ spc = 0 /\ snap = <<>> /\ snapshots = 0
    /\ forgotten = 0

Call(c) ==
    \/ CountSent(c)
    \/ CountActive(c)
    \/ SendFails(c)
    \/ SendUnconfirmed(c)
    \/ SendConfirmed(c)
    \/ ContextDone(c)
    \/ Answer(c)
    \/ CountOutcome(c)
    \/ Return(c)

Next ==
    \/ \E c \in Calls : Call(c)
    \/ StartReset
    \/ ResetField
    \/ StartSnapshot
    \/ SnapshotField

Spec == Init /\ [][Next]_vars

-----------------------------------------------------------------------------
Past(states) == {c \in Calls : pc[c] \in states}

\* Until Reset is called, every request counted as sent is counted once more
\* when it is over, except one whose channel was closed or whose answer is of
\* an unknown type: sent is succeeded, failed, timed out, those two kinds and
\* the ones still under way.
OutcomeCountedOnce ==
    resets = 0 =>
        m["RequestsSent"] =
            m["RequestsSucceeded"] + m["RequestsFailed"] + m["RequestsTimedOut"]
            + Cardinality(Past({"sent", "active", "waiting", "answered"}))
            + Cardinality({c \in Past({"leaving", "returned"}) :
                              answer[c] = "none"})

\* ActiveRequests is the number of requests under way, less the ones that
\* were under way when Reset last set it to 0: those go down twice.
GaugeOffByReset ==
    m["ActiveRequests"] = Cardinality(UnderWay) - forgotten

\* A Snapshot taken with no Reset about never has more successes of confirmed
\* requests than latencies: an answer's latency is recorded before it is
\* counted and Snapshot reads the histogram after the counter.
LatencyCoversSuccesses ==
    resets = 0 /\ Len(snap) >= 5 =>
        snap[2] <= snap[5].count + Cardinality(Unconfirmed)

\* The histogram is consistent whenever its lock is free: without a latency
\* it is a new one, the buckets add up to count, the average lies between the
\* smallest and the largest latency, and these fall in the first and in the
\* last bucket used.
HistogramConsistent ==
    LET n == hist.buckets
        used == {b \in 1..10 : n[b] > 0}
    IN  /\ hist.count = 0 <=> hist = NewLatencyHistogram
        /\ hist.count = n[1] + n[2] + n[3] + n[4] + n[5]
                        + n[6] + n[7] + n[8] + n[9] + n[10]
        /\ Stats.min <= Stats.avg /\ Stats.avg <= Stats.max
        /\ hist.count > 0 =>
            LET ms(d) == d \div PerMs
            IN  /\ Max(used) = 10 \/ ms(hist.max) < Bounds[Max(used)]
                /\ Max(used) = 1 \/ ms(hist.max) >= Bounds[Max(used) - 1]
                /\ Min(used) = 10 \/ ms(hist.min) < Bounds[Min(used)]
                /\ Min(used) = 1 \/ ms(hist.min) >= Bounds[Min(used) - 1]

=============================================================================
