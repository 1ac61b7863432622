------------------------------- MODULE Ranking -------------------------------
(***************************************************************************)
(* From the measurements of a run to its response: the statistics, the     *)
(* score and the integrity verdict of ui/ui.go, and the ranking at the end *)
(* of benchmarkJob.run.                                                    *)
(*                                                                         *)
(* Times and scores are whole numbers of the smallest unit the program     *)
(* keeps (round2: a hundredth of a millisecond), rates of a hundredth.     *)
(* The names of the fields are those of the JSON response.                 *)
(***************************************************************************)
EXTENDS Integers, Sequences, FiniteSets, SequencesExt

CONSTANTS Ms,             \* units of time per millisecond, 100 in the code
          Metadata        \* what enrichServerMetadata finds for a server:
                          \* [asn, country, organization |-> BOOLEAN]

ASSUME MsAssumption == Ms \in Nat \ {0}

None == 0                 \* "" for a server; servers are numbered by name
Failed == -1              \* a query without an answer, among the latencies

Plus(a, b) == a + b
Total(s) == FoldLeft(Plus, 0, s)
Root[n \in Nat] ==        \* the integer square root
  IF n = 0 THEN 0
  ELSE LET r == 2 * Root[n \div 4] IN IF (r + 1) * (r + 1) <= n THEN r + 1 ELSE r
RoundDiv(a, b) == (2 * a + b) \div (2 * b)

(* The elements of a set as a sequence, in the order `before`. *)
Sorted(S, before) ==
  CHOOSE s \in [1..Cardinality(S) -> S] :
    \A i, j \in DOMAIN s : i < j => <<s[i], s[j]>> \in before

(* The elements of a sequence at certain places, in their order. *)
Picked(s, places) ==
  LET order == Sorted(places, {p \in places \X places : p[1] < p[2]})
  IN [k \in DOMAIN order |-> s[order[k]]]

-----------------------------------------------------------------------------
(* Statistics of a sequence of latencies. *)

P95Index(n) == (95 * n + 99) \div 100

(* summarizeLatencies *)
Summary(samples) ==
  IF samples = <<>> THEN [avg |-> 0, median |-> 0, p95 |-> 0]
  ELSE LET n == Len(samples)
           before == {p \in (1..n) \X (1..n) :
                        \/ samples[p[1]] < samples[p[2]]
                        \/ samples[p[1]] = samples[p[2]] /\ p[1] < p[2]}
           order == Sorted(1..n, before)
           sorted == [k \in 1..n |-> samples[order[k]]]
       IN [avg |-> RoundDiv(Total(samples), n),
           median |-> IF n % 2 = 1 THEN sorted[n \div 2 + 1]
                      ELSE RoundDiv(sorted[n \div 2] + sorted[n \div 2 + 1], 2),
           p95 |-> sorted[P95Index(n)]]

(* calculateJitter: the standard deviation, rounded.  Deviations are times n. *)
Jitter(samples) ==
  LET n == Len(samples)
      Square(x) == x * x
      squares == [i \in DOMAIN samples |-> Square(n * samples[i] - Total(samples))]
  IN IF n < 2 THEN 0 ELSE (Root[4 * (Total(squares) \div n)] \div n + 1) \div 2

Answered(pass) == Picked(pass, {i \in DOMAIN pass : pass[i] # Failed})

(* computePassStats *)
PassStats(pass) ==
  LET samples == Answered(pass)
      summary == Summary(samples)
  IN [avg |-> summary.avg, median |-> summary.median, p95 |-> summary.p95,
      queries |-> Len(pass), successes |-> Len(samples),
      failures |-> Len(pass) - Len(samples)]

ScoreLatencyValue(value, successes) == IF successes = 0 THEN 500 * Ms ELSE value

ScoreServer(uncached, cached, jitter, hijacked) ==
  LET queries == uncached.queries + cached.queries
      failures == uncached.failures + cached.failures
      latency == 35 * ScoreLatencyValue(uncached.avg, uncached.successes)
                   + 65 * ScoreLatencyValue(cached.avg, cached.successes)
                   + 12 * ScoreLatencyValue(uncached.p95, uncached.successes)
                   + 8 * ScoreLatencyValue(cached.p95, cached.successes)
                   + 25 * jitter
  IN IF queries = 0 THEN 0
     ELSE IF failures >= queries THEN 999999 * Ms
     ELSE RoundDiv(latency * queries + 90000 * Ms * failures, 100 * queries)
            + (IF hijacked THEN 1500 * Ms ELSE 0)

-----------------------------------------------------------------------------
(* Integrity.  An observation is [err |-> BOOLEAN, rcode, answers]. *)

Redirected(o) == ~o.err /\ (o.answers > 0 \/ o.rcode = "NOERROR")
Clean(o) == ~o.err /\ o.rcode = "NXDOMAIN" /\ o.answers = 0

IntegrityStatus(hijacked, probes, clean, errors) ==
  IF hijacked THEN "hijacked"
  ELSE IF probes = 0 \/ errors = probes THEN "unknown"
  ELSE IF clean = probes THEN "clean" ELSE "suspicious"

(* What is reported after the observations at certain places are counted. *)
Verdict(observations, counted, hijacked) ==
  LET probes == Len(observations)
      clean == Cardinality({i \in counted : Clean(observations[i])})
      errors == Cardinality({i \in counted : observations[i].err})
  IN [status |-> IntegrityStatus(hijacked, probes, clean, errors), probes |-> probes,
      clean |-> clean, errors |-> errors,
      anomalies |-> Cardinality(counted) - clean - errors]

(* Mutant: only the first probe is looked at for a redirection. *)
ClassifyFirst(observations) ==
  Verdict(observations, DOMAIN observations,
          observations # <<>> /\ Redirected(observations[1]))

(* classifyResolverIntegrity: the first redirected probe ends the count. *)
ClassifyResolverIntegrity(observations) ==
  LET first == SelectInSeq(observations, Redirected)
      counted == IF first = 0 THEN DOMAIN observations ELSE 1..first
  IN Verdict(observations, counted, first # 0)

-----------------------------------------------------------------------------
(* A measurement is [cold, warm |-> latencies by host, probes |-> observations]. *)

(* benchmarkSingleServerWithContext, after its two passes and the probes. *)
ServerBenchmark(server, m) ==
  LET uncached == PassStats(m.cold)
      cached == PassStats(m.warm)
      jitter == Jitter(Answered(m.cold) \o Answered(m.warm))
      verdict == ClassifyResolverIntegrity(m.probes)
      failures == uncached.failures + cached.failures
      queries == uncached.queries + cached.queries
  IN [server |-> server, rank |-> 0, asn |-> FALSE, country |-> FALSE,
      organization |-> FALSE, queries |-> queries,
      successes |-> uncached.successes + cached.successes, failures |-> failures,
      failure_rate |-> IF queries = 0 THEN 0 ELSE RoundDiv(100 * failures, queries),
      score |-> ScoreServer(uncached, cached, jitter, verdict.status = "hijacked"),
      uncached_avg_ms |-> uncached.avg, cached_avg_ms |-> cached.avg,
      jitter_ms |-> jitter, integrity |-> verdict.status,
      integrity_probe_count |-> verdict.probes, integrity_clean_count |-> verdict.clean,
      integrity_error_count |-> verdict.errors,
      integrity_anomaly_count |-> verdict.anomalies]

(* The order of the ranking: by score, then by name. *)
Better(a, b) == a.score < b.score \/ (a.score = b.score /\ a.server < b.server)

Order(results) ==
  Sorted(DOMAIN results,
         {p \in (DOMAIN results) \X (DOMAIN results) : Better(results[p[1]], results[p[2]])})

Ranked(results) ==
  LET order == Order(results)
  IN [k \in DOMAIN order |-> [results[order[k]] EXCEPT !.rank = k]]

(* Mutant: any answer will do. *)
SelectAnswering(results) ==
  LET first == SelectInSeq(results, LAMBDA r : r.successes > 0)
  IN IF first = 0 THEN None ELSE results[first].server

Eligible(result) == result.successes > 0 /\ result.integrity # "hijacked"

SelectWinner(results) ==
  LET first == SelectInSeq(results, Eligible)
  IN IF first = 0 THEN None ELSE results[first].server

(* The end of benchmarkJob.run, for the measurements of servers 1, 2, ... *)
BenchmarkResponse(measured) ==
  LET results == Ranked([s \in DOMAIN measured |-> ServerBenchmark(s, measured[s])])
      winner == SelectWinner(results)
      fallback == winner = None /\ results # <<>>
  IN [executed_queries |-> Total([s \in DOMAIN measured |->
                                    Len(measured[s].cold) + Len(measured[s].warm)
                                      + Len(measured[s].probes)]),
      server_count |-> Len(measured),
      winner |-> IF fallback THEN results[1].server ELSE winner,
      results |-> [i \in DOMAIN results |->
                     LET found == Metadata[results[i].server]
                     IN [results[i] EXCEPT !.asn = found.asn, !.country = found.country,
                                           !.organization = found.organization]],
      warnings |-> IF fallback THEN <<"fallback">> ELSE <<>>]
==============================================================================
