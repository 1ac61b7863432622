------------------------------- MODULE Report --------------------------------
(***************************************************************************)
(* What the page makes of a response: the functions of ui/static/index.js  *)
(* that pollBenchmark calls for a completed run, and the CSV export.       *)
(*                                                                         *)
(* Each operator is the new content of the elements its function writes;   *)
(* none of them depends on the old one, because tables, charts and lists   *)
(* are cleared first.  A text is the tuple of what is filled into it; a    *)
(* response has all its numbers, so asNumber only occurs where one may be  *)
(* absent (module PageText).                                               *)
(***************************************************************************)
EXTENDS Ranking

CONSTANTS Host, Port,     \* the name of a server: host and port
          Collation       \* the place of its name in the order of localeCompare

Dash == <<"-">>

(* A time with all its decimals, and a rate as a percentage. *)
FormatMs(value) == <<value \div Ms, value % Ms>>
FormatPct01(value) == <<value, 0>>

(* A port 53 is not shown. *)
ShortServer(server) ==
  IF server = None THEN Dash
  ELSE IF Port[server] = 53 THEN <<Host[server]>>
  ELSE <<Host[server], Port[server]>>

UpdateMetrics(data) ==
  [server |-> ShortServer(data.winner), queries |-> data.executed_queries,
   failures |-> Total([i \in DOMAIN data.results |-> data.results[i].failures])]

-----------------------------------------------------------------------------
(* Summary cards. *)

(* The first in the order of the keys, then of localeCompare. *)
Precedes(a, b, keysOfA, keysOfB) ==
  LET differ == SelectInSeq([k \in DOMAIN keysOfA |-> keysOfA[k] # keysOfB[k]],
                            LAMBDA d : d)
  IN IF differ = 0 THEN Collation[a.server] < Collation[b.server]
     ELSE keysOfA[differ] < keysOfB[differ]

BestResult(results, keys) ==
  LET Keys(r) == [k \in DOMAIN keys |-> r[keys[k]]]
  IN SortSeq(results, LAMBDA a, b : Precedes(a, b, Keys(a), Keys(b)))[1]

SummaryCard(value, detail) == [value |-> value, detail |-> detail]

ResetSummaryCards ==
  [winner |-> SummaryCard(Dash, <<"Best overall score">>),
   cold |-> SummaryCard(Dash, <<"Lowest uncached average">>),
   warm |-> SummaryCard(Dash, <<"Lowest cached average">>),
   stable |-> SummaryCard(Dash, <<"Lowest failure rate and jitter">>)]

IsWinner(data, result) == result.server = data.winner

(* Mutant: the recommended server is the first of the ranking. *)
RecommendFirst(data) == data.results[1]

(* The place of the recommended server in the ranking, 0 if it has none. *)
WinnerPlace(data) == SelectInSeq(data.results, LAMBDA r : IsWinner(data, r))

Recommended(data) == data.results[IF WinnerPlace(data) = 0 THEN 1 ELSE WinnerPlace(data)]

UpdateSummaryCards(data) ==
  LET winner == Recommended(data)
      cold == BestResult(data.results, <<"uncached_avg_ms">>)
      warm == BestResult(data.results, <<"cached_avg_ms">>)
      stable == BestResult(data.results, <<"failure_rate", "jitter_ms">>)
      Card(result, detail) == SummaryCard(ShortServer(result.server), detail)
  IN IF data.results = <<>> THEN ResetSummaryCards
     ELSE [winner |-> Card(winner, <<FormatMs(winner.score), winner.integrity>>),
           cold |-> Card(cold, FormatMs(cold.uncached_avg_ms)),
           warm |-> Card(warm, FormatMs(warm.cached_avg_ms)),
           stable |-> Card(stable, <<FormatPct01(stable.failure_rate),
                                     FormatMs(stable.jitter_ms)>>)]

-----------------------------------------------------------------------------
(* Winner banner and results table. *)

FormatResolverTag(result) ==
  LET Piece(field) == IF result[field] THEN <<field>> ELSE <<>>
      pieces == Piece("asn") \o Piece("country")
  IN IF pieces = <<>> THEN Piece("organization") ELSE pieces

UpdateWinnerBanner(data) ==
  LET found == WinnerPlace(data)
  IN IF data.winner = None THEN [winner |-> Dash]
     ELSE [winner |-> ShortServer(data.winner),
           tag |-> IF found = 0 THEN <<>> ELSE FormatResolverTag(data.results[found]),
           tested |-> data.server_count]

ResultRow(data, r) ==
  [winner_row |-> IsWinner(data, r),
   cells |-> <<r.rank, r.server, FormatResolverTag(r), FormatMs(r.score),
               FormatMs(r.uncached_avg_ms), FormatMs(r.cached_avg_ms),
               FormatMs(r.jitter_ms), r.integrity, FormatPct01(r.failure_rate),
               r.successes, r.failures>>]

(* Without results: one cell that says so. *)
RenderResultsTable(data) ==
  IF data.results = <<>> THEN <<[winner_row |-> FALSE, cells |-> <<"empty">>]>>
  ELSE [i \in DOMAIN data.results |-> ResultRow(data, data.results[i])]

-----------------------------------------------------------------------------
(* Bar charts. *)

(* Mutant: a bar is as long as its value, whatever the others are. *)
AbsoluteWidth(value, longest) == IF value <= 0 THEN 0 ELSE IF value < 2 THEN 2 ELSE value

(* In percent of the track; a bar that is not rounded to nothing has at *)
(* least 2.                                                             *)
BarWidth(value, longest) ==
  LET width == RoundDiv(100 * value, IF longest <= 0 THEN 1 ELSE longest)
  IN IF width <= 0 THEN 0 ELSE IF width < 2 THEN 2 ELSE width

(* A bar for each entry [label, value, text]. *)
RenderBarChart(entries) ==
  LET longest == Max({0} \union {entries[i].value : i \in DOMAIN entries})
  IN IF entries = <<>> THEN <<"Not enough data to render chart.">>
     ELSE [i \in DOMAIN entries |->
             [label |-> entries[i].label, text |-> entries[i].text,
              width |-> BarWidth(entries[i].value, longest)]]

RenderCharts(data) ==
  LET Chart(field, Format(_)) ==
        RenderBarChart([i \in DOMAIN data.results |->
          LET r == data.results[i]
          IN [label |-> ShortServer(r.server), value |-> r[field], text |-> Format(r[field])]])
  IN [uncached_avg_ms |-> Chart("uncached_avg_ms", FormatMs),
      cached_avg_ms |-> Chart("cached_avg_ms", FormatMs),
      failure_rate |-> Chart("failure_rate", FormatPct01)]

-----------------------------------------------------------------------------
(* Diagnostics. *)

Statuses == {"clean", "suspicious", "hijacked", "unknown"}

DiagnosticsBanner(summary) ==
  CASE summary.hijacked > 0 -> <<"hijacked", summary.hijacked>>
    [] summary.hijacked = 0 /\ summary.suspicious > 0 -> <<"suspicious", summary.suspicious>>
    [] summary.hijacked + summary.suspicious = 0 /\ summary.clean > 0 -> <<"all clean">>
    [] OTHER -> <<"run benchmark">>

SetDiagnosticsSummary(summary) ==
  [counts |-> summary, banner |-> DiagnosticsBanner(summary)]

DiagnosticRow(r) ==
  [server |-> r.server, status |-> r.integrity, tag |-> FormatResolverTag(r),
   probes |-> r.integrity_probe_count, clean |-> r.integrity_clean_count,
   anomalies |-> r.integrity_anomaly_count, errors |-> r.integrity_error_count]

RenderDiagnostics(data) ==
  LET With(status) == {i \in DOMAIN data.results : data.results[i].integrity = status}
      summary == SetDiagnosticsSummary([status \in Statuses |-> Cardinality(With(status))])
      flagged == Picked(data.results, DOMAIN data.results \ With("clean"))
  IN [counts |-> summary.counts, banner |-> summary.banner,
      list |-> [i \in DOMAIN flagged |-> DiagnosticRow(flagged[i])]]

-----------------------------------------------------------------------------
(* The log and the export. *)

BuildLogText(data) ==
  [winner |-> data.winner, executed_queries |-> data.executed_queries,
   servers_tested |-> data.server_count,
   lines |-> [i \in DOMAIN data.results |->
                LET r == data.results[i]
                IN <<r.rank, r.server, FormatMs(r.score), FormatMs(r.uncached_avg_ms),
                     FormatMs(r.cached_avg_ms), FormatMs(r.jitter_ms), r.integrity,
                     FormatPct01(r.failure_rate)>>],
   warnings |-> data.warnings]

BuildExportEnvelope(data) == [source |-> "namebench", result |-> data]

(* The rows before they are escaped and joined (module PageText); the name *)
(* of the network, the address and the details of the probes are left out. *)
CsvHeader == <<"rank", "server", "asn", "country", "organization", "score",
               "uncached_avg_ms", "cached_avg_ms", "jitter_ms", "integrity",
               "failure_rate", "successes", "failures", "queries">>

CsvRow(r) ==
  <<r.rank, r.server, r.asn, r.country, r.organization, FormatMs(r.score),
    FormatMs(r.uncached_avg_ms), FormatMs(r.cached_avg_ms), FormatMs(r.jitter_ms),
    r.integrity, r.failure_rate, r.successes, r.failures, r.queries>>

BuildCsv(data) == <<CsvHeader>> \o [i \in DOMAIN data.results |-> CsvRow(data.results[i])]

(* exportJson and exportCsv write what was rendered last; without a result *)
(* they do nothing.                                                        *)
ExportJson(data) == BuildExportEnvelope(data)
ExportCsv(data) == BuildCsv(data)

(* Everything pollBenchmark renders, and what can be exported then. *)
Rendered(data) ==
  [metrics |-> UpdateMetrics(data), cards |-> UpdateSummaryCards(data),
   banner |-> UpdateWinnerBanner(data), rows |-> RenderResultsTable(data),
   diagnostics |-> RenderDiagnostics(data), charts |-> RenderCharts(data),
   log |-> BuildLogText(data), json |-> ExportJson(data), csv |-> ExportCsv(data)]
=============================================================================
