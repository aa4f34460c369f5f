----------------------------- MODULE HealthSignals -----------------------------
(***************************************************************************)
(* What the health analyzer of the database instances concludes from the     *)
(* points of a metric:                                                       *)
(* backend/skills/volcengine-rds-health-analyzer/scripts/get_instance_info.py *)
(*                                                                         *)
(* A node is a record of its label and its points in the order in which the   *)
(* monitor returned them; a point has a time ts and a value, which may be      *)
(* missing.  Values are integers; where the code divides, both sides are       *)
(* multiplied instead, so its rounding to four digits is left out, and so are  *)
(* the reasons, the drivers' names and the list of the highest spikes.         *)
(***************************************************************************)
EXTENDS Sequences, SequencesExt, StableSort

CONSTANTS NoValue

Percents == {"cpu", "memory", "disk_util"}
Throughputs == {"qps", "tps", "IOPSRate", "network_in", "network_out"}
Metrics == Percents \cup Throughputs \cup {"replication_delay"}

MedianWarning(m) == IF m = "cpu" THEN 60 ELSE 70
P95Warning(m) == IF m = "cpu" THEN 70 ELSE 80
Floor(m) == CASE m = "qps" -> 50 [] m = "tps" -> 20 [] m = "IOPSRate" -> 100 [] OTHER -> 1048576

-----------------------------------------------------------------------------
(* Statistics of a sequence of values.                                       *)

Sorted(s) == LET order == ByKey(s) IN [k \in DOMAIN order |-> s[order[k]]]
SumOf(s) == FoldSeq(LAMBDA x, y : x + y, 0, s)
Distance(x, y) == IF x < y THEN y - x ELSE x - y

TwiceMedian(s) == Sorted(s)[(Len(s) + 1) \div 2] + Sorted(s)[Len(s) \div 2 + 1]

\* percentile_nearest_rank, of a sequence that is not empty.
Percentile(s, p) == Sorted(s)[(p * Len(s) + 99) \div 100]

\* The distribution and the variability of build_metric_evidence; the square of the
\* standard deviation is var / n^2.
Distribution(s) ==
    [n |-> Len(s), sum |-> SumOf(s), median2 |-> TwiceMedian(s), max |-> Sorted(s)[Len(s)],
     p95 |-> Percentile(s, 95), p99 |-> Percentile(s, 99),
     var |-> Len(s) * SumOf([i \in DOMAIN s |-> s[i] * s[i]]) - SumOf(s) * SumOf(s)]

\* compute_trend: the sign of the regression's slope.
Trend(s) ==
    LET slope == Len(s) * SumOf([i \in DOMAIN s |-> i * s[i]]) - SumOf([i \in DOMAIN s |-> i]) * SumOf(s)
    IN  CASE slope = 0 -> "flat" [] slope > 0 -> "up" [] OTHER -> "down"

\* resolve_recent_trend_sample_size; day is the number of periods in 24 hours.
RecentSize(count, day) ==
    LET target == IF day + 1 > 5 THEN day + 1 ELSE 5
    IN  CASE count <= 5 -> count
          [] count > 5 /\ count >= target -> target
          [] OTHER -> IF count \div 2 > 5 THEN count \div 2 ELSE 5

\* compute_recent_trend: of the last values, in the order they are given.
RecentTrend(s, day) == Trend(SubSeq(s, Len(s) - RecentSize(Len(s), day) + 1, Len(s)))

\* calculate_coverage, of a span that is known: the points that are missing.
Missing(span, actual, seriesCount) ==
    LET expected == (span + 1) * seriesCount
    IN  IF expected > actual THEN expected - actual ELSE 0

-----------------------------------------------------------------------------
(* Spikes.                                                                   *)

\* A value that is more than six times the median absolute deviation of the others of
\* its window away from their median; of equal ones it is any that differs.
StandsOut(v, others) ==
    LET median2 == TwiceMedian(others)
        mad4 == TwiceMedian([i \in DOMAIN others |-> Distance(2 * others[i], median2)])
        deviation2 == Distance(2 * v, median2)
    IN  IF mad4 = 0 THEN deviation2 > 0 ELSE 2 * deviation2 > 6 * mad4

\* Mutated form: the last window is not looked at.
WindowStarts_ButLast(s, w) == 1..(Len(s) - w)

WindowStarts(s, w) == 1..(Len(s) - w + 1)

\* detect_sliding_mad_spikes: the indices of the spikes, each found in some window.
SpikesIn(s, w) ==
    {i \in DOMAIN s : \E first \in WindowStarts(s, w) :
        /\ i \in first..(first + w - 1)
        /\ StandsOut(s[i], RemoveAt(SubSeq(s, first, first + w - 1), i - first + 1))}

Evaluated(s, w) == {i \in DOMAIN s : \E first \in WindowStarts(s, w) : i \in first..(first + w - 1)}

ValuesOf(points) == Taken([i \in DOMAIN points |-> points[i].value],
                          {i \in DOMAIN points : points[i].value # NoValue})

InOrder(points) == LET order == ByKey([i \in DOMAIN points |-> points[i].ts])
                   IN  [k \in DOMAIN order |-> points[order[k]]]

\* The spikes of the points of an instance: of each label's points, by their time.
SpikeEvidence(points, w) ==
    LET labels == {points[i].node : i \in DOMAIN points}
        series(l) == ValuesOf(InOrder(Taken(points, {i \in DOMAIN points : points[i].node = l})))
    IN  [count |-> Cardinality(UNION {{l} \X SpikesIn(series(l), w) : l \in labels}),
         evaluated |-> Cardinality(UNION {{l} \X Evaluated(series(l), w) : l \in labels})]

-----------------------------------------------------------------------------
(* Verdicts on one metric.  d is its distribution, spikes its evidence.      *)

\* build_high_percentile_pressure.
HighPercentiles(d) ==
    LET atLeast(p, ratio) == p > 0 /\ 2 * p >= ratio * d.median2
    IN  CASE atLeast(d.p95, 3) \/ atLeast(d.p99, 4) -> "high"
          [] ~atLeast(d.p95, 3) /\ ~atLeast(d.p99, 4) /\ (atLeast(d.p95, 2) \/ atLeast(d.p99, 3)) -> "medium"
          [] OTHER -> "low"

\* Mutated form: the level of the high percentiles.
Pressure_OfPercentiles(m, d) == HighPercentiles(d)

\* classify_resource_pressure.
Pressure(m, d) ==
    LET median == d.median2 >= 2 * MedianWarning(m)
        p95 == d.p95 >= P95Warning(m)
        avg == d.sum >= P95Warning(m) * d.n
    IN  CASE m \notin Percents -> "none"
          [] m \in Percents /\ median /\ (p95 \/ avg) -> "high"
          [] m \in Percents /\ (median # p95) /\ ~(median /\ avg) -> "medium"
          [] OTHER -> "none"

OftenSpikes(spikes) == 5 * spikes.count > spikes.evaluated

\* classify_spike_risk.
SpikeRisk(m, d, spikes) ==
    LET varies == d.sum > 0 /\ d.var >= d.sum * d.sum
        signals == {x \in {"percentiles", "cv", "ratio"} :
                      CASE x = "percentiles" -> HighPercentiles(d) = "high"
                        [] x = "cv" -> varies /\ OftenSpikes(spikes)
                        [] OTHER -> OftenSpikes(spikes)}
        high == \/ m \in Percents /\ d.max >= 70
                \/ m = "replication_delay" /\ d.max >= 5
                \/ m \in Throughputs /\ Cardinality(signals) >= 2
    IN  CASE spikes.count = 0 -> "none" [] spikes.count > 0 /\ high -> "high" [] OTHER -> "low"

\* classify_throughput_saturation.
Saturation(m, d, spikes, recent) ==
    LET active == d.sum >= Floor(m) * d.n \/ d.median2 >= 2 * Floor(m)
        steady == /\ 20 * d.p95 <= 13 * d.median2 /\ 20 * d.p99 <= 16 * d.median2
                  /\ 400 * d.var <= 49 * d.sum * d.sum
                  /\ 20 * spikes.count <= spikes.evaluated
                  /\ recent \in {"flat", "up"}
    IN  IF m \in Throughputs /\ active /\ steady THEN "medium" ELSE "none"

NoEvidence(m) == [tier |-> "none", pressure |-> IF m \in Percents THEN "unknown" ELSE "none",
                  saturation |-> IF m \in Throughputs THEN "unknown" ELSE "none",
                  spikes |-> [count |-> 0, evaluated |-> 0]]

\* build_metric_evidence, of points with their node.
Evidence(m, points, w, day) ==
    LET values == ValuesOf(points)
        d == Distribution(values)
        spikes == SpikeEvidence(points, w)
    IN  IF values = <<>> THEN NoEvidence(m)
        ELSE [tier |-> SpikeRisk(m, d, spikes), pressure |-> Pressure(m, d),
              saturation |-> Saturation(m, d, spikes, RecentTrend(values, day)), spikes |-> spikes]

\* get_metric_data: the evidence of the instance, of all points with a value, and of
\* each of its nodes, whose points carry no label there.
Labelled(points, l) == [i \in DOMAIN points |-> [node |-> l, ts |-> points[i].ts, value |-> points[i].value]]

InstanceEvidence(m, nodes, w, day) ==
    Evidence(m, FlattenSeq([i \in DOMAIN nodes |-> Labelled(nodes[i].points, nodes[i].label)]), w, day)

NodeEvidence(m, node, w, day) == Evidence(m, Labelled(node.points, "single"), w, day)

\* compute_balanced_resource_score: the base by the average, less five for each driver
\* but the first, never below five.
Score(m, d, tier) ==
    LET base == CASE d.sum < MedianWarning(m) * d.n -> 20
                  [] d.sum >= MedianWarning(m) * d.n /\ d.sum < (MedianWarning(m) + 10) * d.n -> 15
                  [] d.sum >= (MedianWarning(m) + 10) * d.n /\ d.sum < (MedianWarning(m) + 20) * d.n -> 10
                  [] OTHER -> 5
        drivers == {x \in {"median", "p95", "risk"} :
                      CASE x = "median" -> d.median2 >= 2 * MedianWarning(m)
                        [] x = "p95" -> d.p95 >= P95Warning(m)
                        [] OTHER -> tier = "high" \/ Pressure(m, d) = "high"}
        penalty == IF drivers = {} THEN 0 ELSE 5 * (Cardinality(drivers) - 1)
    IN  IF base - penalty > 5 THEN base - penalty ELSE 5

-----------------------------------------------------------------------------
(* Verdicts on windows and on all metrics.                                   *)

\* summarize_window_alignment; a window is "high", another tier, or NoValue.
CurrentStatus(main, recent3d, recent24h) ==
    LET is(x) == x = "high"
    IN  CASE recent3d = NoValue /\ recent24h = NoValue -> "single_window_only"
          [] recent3d # NoValue /\ recent24h = NoValue -> "recent24h_unavailable"
          [] OTHER -> CASE is(main) /\ is(recent3d) /\ is(recent24h) -> "persistent_active"
                        [] is(main) /\ is(recent3d) /\ ~is(recent24h) -> "persistent_but_easing"
                        [] ~is(main) /\ is(recent3d) /\ is(recent24h) -> "recently_intensified"
                        [] ~is(main) /\ ~is(recent3d) /\ is(recent24h) -> "newly_active"
                        [] is(main) /\ ~is(recent3d) /\ ~is(recent24h) -> "historical_only"
                        [] OTHER -> "inactive"

Severity(level) == CASE level = "high" -> 3 [] level = "medium" -> 2 [] level = "low" -> 1
                     [] level = "none" -> 0 [] OTHER -> -1

\* _metric_signal_level: the most severe of the three verdicts of a metric.
SignalLevel(e) ==
    CHOOSE x \in {e.tier, e.pressure, e.saturation} :
        \A y \in {e.tier, e.pressure, e.saturation} : Severity(y) <= Severity(x)

\* build_metric_correlation_summary: the signals, of the levels of all metrics; a
\* metric that could not be read counts as one with no signal.
Correlated(level) ==
    LET atLeast(m, l) == Severity(level[m]) >= Severity(l)
        throughput == atLeast("qps", "medium") \/ atLeast("tps", "medium")
        network == atLeast("network_in", "medium") \/ atLeast("network_out", "medium")
        storage == atLeast("disk_util", "high") \/ atLeast("IOPSRate", "medium")
        signals ==
            (IF throughput /\ atLeast("cpu", "high") THEN {<<"compute_pressure", "high">>} ELSE {})
            \cup (IF throughput /\ storage
                  THEN {<<"storage_pressure", IF atLeast("disk_util", "high") THEN "high" ELSE "medium">>}
                  ELSE {})
            \cup (IF atLeast("replication_delay", "high") /\ (throughput \/ network)
                  THEN {<<"replication_pressure", "high">>} ELSE {})
    IN  IF throughput /\ signals = {} THEN {<<"business_load_up", "medium">>} ELSE signals

TopSeverity(level) == IF Correlated(level) = {} THEN 0
                      ELSE CHOOSE n \in {Severity(s[2]) : s \in Correlated(level)} :
                              \A s \in Correlated(level) : Severity(s[2]) <= n

-----------------------------------------------------------------------------

\* More load is never healthier: of two samples of which one is nowhere below the other,
\* it has no better score and no milder pressure, as long as the verdict on its spikes is
\* no milder.
ScoreFollowsLoad(m, low, high) ==
    LET d == Distribution(low)
        e == Distribution(high)
        tiers(x) == {"none", "low"} \cup (IF x.max >= 70 THEN {"high"} ELSE {})
    IN  /\ \A t \in tiers(d), u \in tiers(e) : Severity(t) <= Severity(u) => Score(m, e, u) <= Score(m, d, t)
        /\ Severity(Pressure(m, d)) <= Severity(Pressure(m, e))

\* A metric whose signal rises never makes the instance's strongest signal weaker.
SignalsFollowMetrics(level) ==
    \A m \in Metrics, l \in {"medium", "high"} :
        Severity(level[m]) <= Severity(l) => TopSeverity(level) <= TopSeverity([level EXCEPT ![m] = l])

\* What is reported as a steady plateau is not reported as a high risk of spikes too.
PlateauIsCalm(m, s, w, day) ==
    LET e == Evidence(m, [i \in DOMAIN s |-> [node |-> "single", ts |-> i, value |-> s[i]]], w, day)
    IN  e.saturation = "medium" => e.tier # "high"

\* A spike is one wherever it is: the series read backwards has the mirrored spikes, and
\* one value among equal ones is found and nothing else.
SpikesHaveNoEdge(s, w) ==
    LET n == Len(s)
        alone == {i \in DOMAIN s : \A j, k \in DOMAIN s \ {i} : s[j] = s[k] /\ s[i] # s[j]}
    IN  /\ SpikesIn(Reverse(s), w) = {n + 1 - i : i \in SpikesIn(s, w)}
        /\ n >= w /\ Cardinality(alone) = 1 => SpikesIn(s, w) = alone

\* The spikes of an instance are those of its nodes, in whatever order the monitor
\* returned their points, and it lacks the points that its nodes lack.
InstanceIsItsNodes(nodes, w, day, span) ==
    LET whole == InstanceEvidence("cpu", nodes, w, day)
        backwards == [i \in DOMAIN nodes |-> [nodes[i] EXCEPT !.points = Reverse(@)]]
        of(i) == NodeEvidence("cpu", nodes[i], w, day)
        count(i) == Len(ValuesOf(nodes[i].points))
        perNode(f(_)) == SumOf([i \in DOMAIN nodes |-> f(i)])
    IN  /\ whole.spikes = [count |-> perNode(LAMBDA i : of(i).spikes.count),
                           evaluated |-> perNode(LAMBDA i : of(i).spikes.evaluated)]
        /\ InstanceEvidence("cpu", backwards, w, day) = whole
        /\ Missing(span, perNode(count), Len(nodes)) = perNode(LAMBDA i : Missing(span, count(i), 1))
=============================================================================
