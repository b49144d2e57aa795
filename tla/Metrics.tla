------------------------------ MODULE Metrics -------------------------------
(***************************************************************************)
(* Metrics: eight atomic counters and a vector of latencies behind a       *)
(* mutex. record_request adds to the counters one after the other, then to *)
(* the vector; snapshot reads them one after the other, without a lock     *)
(* over them. The threads that take these steps are in TcpServer.          *)
(***************************************************************************)
EXTENDS Integers, Sequences, FiniteSetsExt

CONSTANTS
    Latency     \* the durations of requests, in microseconds

ASSUME LatencyAssumption == Latency \subseteq Nat /\ Latency # {} /\ IsFiniteSet(Latency)

VARIABLES
    counters,               \* the atomic counters
    latency_samples_us      \* how often each latency is in the vector

metrics == <<counters, latency_samples_us>>

CounterNames ==
    {"total_requests", "successful_requests", "failed_requests", "produce_requests",
     "fetch_requests", "join_requests", "commit_requests", "total_bytes_processed"}

\* The counters that snapshot reads, in its order. The values of the other five are not
\* kept, and so their reading is not a step.
Loads == <<"total_requests", "successful_requests", "failed_requests">>

\* The requests that have a counter of their own.
TypeCounter ==
    [PRODUCE |-> "produce_requests", FETCH |-> "fetch_requests",
     JOIN |-> "join_requests", COMMIT |-> "commit_requests"]

MetricsInit ==
    /\ counters = [c \in CounterNames |-> 0]
    /\ latency_samples_us = [l \in Latency |-> 0]

RecordSteps_OnlyTotal(type, success) == <<"total_requests", "total_bytes_processed">>

\* The counters that record_request adds to, in its order.
RecordSteps(type, success) ==
    <<"total_requests", IF success THEN "successful_requests" ELSE "failed_requests">>
        \o (IF type \in DOMAIN TypeCounter THEN <<TypeCounter[type]>> ELSE <<>>)
        \o <<"total_bytes_processed">>

Add(counter, bytes) ==
    counters' = [counters EXCEPT ![counter] = @ + (IF counter = "total_bytes_processed" THEN bytes ELSE 1)]

AddSample(latency) ==
    latency_samples_us' = [latency_samples_us EXCEPT ![latency] = @ + 1]

----------------------------------------------------------------------------
(* What snapshot computes of a copy of the samples *)

Size(samples) == SumFunction(samples)

\* The element at index i, counted from 0, of the sorted samples.
Sorted(samples, i) ==
    Min({l \in Latency : SumFunctionOnSet(samples, {m \in Latency : m <= l}) > i})

percentile_value_WeightReversed(samples, percent) ==
    LET rank == percent * (Size(samples) - 1)
        lower == Sorted(samples, rank \div 100)
        upper == Sorted(samples, (rank + 99) \div 100)
    IN  IF Size(samples) = 0 THEN 0
        ELSE (100 * lower + (upper - lower) * (100 - (rank % 100))) \div 100

\* Linear interpolation between the two samples around the rank, rounded down. The rank is
\* in hundredths; the arithmetic of double is taken to be exact.
percentile_value(samples, percent) ==
    LET rank == percent * (Size(samples) - 1)
        lower == Sorted(samples, rank \div 100)
        upper == Sorted(samples, (rank + 99) \div 100)
    IN  IF Size(samples) = 0 THEN 0
        ELSE (100 * lower + (upper - lower) * (rank % 100)) \div 100

LatencyReport(samples) ==
    LET present == {l \in Latency : samples[l] > 0}
    IN  [max |-> IF present = {} THEN 0 ELSE Max(present),
         average |-> IF present = {} THEN 0
                     ELSE SumFunction([l \in Latency |-> l * samples[l]]) \div Size(samples),
         p50 |-> percentile_value(samples, 50),
         p95 |-> percentile_value(samples, 95),
         p99 |-> percentile_value(samples, 99)]
=============================================================================
