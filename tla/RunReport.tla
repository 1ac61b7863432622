------------------------------ MODULE RunReport ------------------------------
(***************************************************************************)
(* The report of one run, measured, ranked and rendered; what a run selects *)
(* and looks up; and the conversions of the page: each for any input.      *)
(***************************************************************************)
EXTENDS Report, PageText, RunData

CONSTANTS Inputs,         \* what may be measured: a measurement for each server
          Texts           \* the inputs of the operators of RunData and PageText

Observation == [err : BOOLEAN, rcode : STRING, answers : Nat]
Pass == Seq(Nat \union {Failed})
Measurement == [cold : Pass, warm : Pass, probes : Seq(Observation)]

(* A completed run has a server at least (SelectionSound). *)
ASSUME InputsAssumption == Inputs \subseteq Seq(Measurement) \ {<<>>}

Selection ==
  [cfg : [nameservers : Seq(Entry), include_system : BOOLEAN, include_global : BOOLEAN,
          include_regional : BOOLEAN, location : STRING],
   machine : Seq(Entry)]
Profile == [fate : Fates, urls : Seq(Url)]
Lookup == [address : Address,
           ripe : [failed : BOOLEAN, asn : STRING, name : STRING],
           rdap : [failed : BOOLEAN, organization : STRING, country : STRING]]
Polled == [status : STRING, completed : Nat, total : Nat \ {0}, percent : Nat,
           server : STRING \union {Absent}, phase : STRING \union {Absent},
           elapsed : Nat \union {Absent}, eta : Nat \union {Absent}]

(* A table has a line, and a line a cell.  The value of a text area, where *)
(* the list of resolvers is, never has a carriage return.  What is polled  *)
(* comes from advanceProgress.                                             *)
Text == [kind : {"selection"}, selection : Selection]
          \union [kind : {"history"}, profiles : Seq(Profile), count : Nat \ {0}]
          \union [kind : {"lookups"}, first : Seq(Lookup), second : Seq(Lookup)]
          \union [kind : {"table"}, rows : Seq(Seq(Seq(Char)) \ {<<>>}) \ {<<>>}]
          \union [kind : {"path"}, uuid : Seq(Char \ ({"/"} \union PageSpace)) \ {<<>>},
                                  path : Seq(Char)]
          \union [kind : {"list"}, list : Seq(Char \ {"cr"})]
          \union [kind : {"progress"},
                  state : {s \in Polled : /\ s.completed <= s.total
                                          /\ s.percent = Percent(s.completed, s.total)}]

ASSUME TextsAssumption == Texts \subseteq Text

VARIABLES stage,          \* of the report: "measured", "ranked", "rendered"
          measured, response, view,
          text            \* the input of an operator

vars == <<stage, measured, response, view, text>>

Nothing == <<>>

-----------------------------------------------------------------------------
Init == /\ response = Nothing /\ view = Nothing
        /\ \/ stage = "measured" /\ measured \in Inputs /\ text = Nothing
           \/ stage = "text" /\ measured = Nothing /\ text \in Texts

(* benchmarkJob.run ranks what it has measured. *)
Rank == /\ stage = "measured" /\ stage' = "ranked"
        /\ response' = BenchmarkResponse(measured)
        /\ UNCHANGED <<measured, view, text>>

(* pollBenchmark receives and renders it. *)
Render == /\ stage = "ranked" /\ stage' = "rendered"
          /\ view' = Rendered(response)
          /\ UNCHANGED <<measured, response, text>>

Next == Rank \/ Render

Spec == Init /\ [][Next]_vars

Results == response.results

-----------------------------------------------------------------------------
(* The recommended resolver has answered and does not redirect, and no such *)
(* resolver has a better score; only when there is none, the best score     *)
(* wins and the response says so (jobs.go, selectWinner and its fallback).  *)
SafeWinner ==
  stage = "ranked" =>
    LET eligible == {i \in DOMAIN Results : Eligible(Results[i])}
        candidates == IF eligible = {} THEN DOMAIN Results ELSE eligible
    IN /\ \E i \in candidates :
            /\ Results[i].server = response.winner
            /\ \A o \in candidates : Results[i].score <= Results[o].score
       /\ (eligible = {}) = (response.warnings # <<>>)

(* Metric, banner, recommended card, highlighted row, log and export speak   *)
(* of the same resolver and the same figures, also when the winner is not    *)
(* the first of the ranking and when servers differ only in their port.      *)
ViewsAgree ==
  stage = "rendered" =>
    LET winners == {i \in DOMAIN view.rows : view.rows[i].winner_row}
        name == ShortServer(response.winner)
    IN /\ view.metrics.server = name /\ view.banner.winner = name
       /\ view.cards.winner.value = name
       /\ view.log.winner = response.winner
       /\ Cardinality(winners) = 1
       /\ \A i \in winners :
            LET cells == view.rows[i].cells IN
            /\ cells[2] = response.winner
            /\ view.cards.winner.detail = <<cells[4], cells[8]>>
            /\ view.banner.tag = cells[3]
       /\ \A i \in DOMAIN Results :
            LET cells == view.rows[i].cells
                line == view.log.lines[i]
                csv == view.csv[i + 1]
            IN /\ \A c \in 1..2 : line[c] = cells[c] /\ csv[c] = cells[c]
               /\ \A c \in 4..9 : line[c - 1] = cells[c]
               /\ \A c \in 4..8 : csv[c + 2] = cells[c]
               /\ \A c \in 10..11 : csv[c + 2] = cells[c]

(* Every resolver is counted once, exactly those that are not clean are      *)
(* listed, their probes add up, and the verdict on a resolver does not       *)
(* depend on the order in which its probes were answered.                    *)
DiagnosticsAddUp ==
  stage = "rendered" =>
    LET shown == view.diagnostics
        flagged == shown.counts.suspicious + shown.counts.hijacked + shown.counts.unknown
    IN
    /\ shown.counts.clean + flagged = Len(Results)
    /\ Len(shown.list) = flagged
    /\ \A i \in DOMAIN shown.list :
         LET row == shown.list[i]
             counted == row.clean + row.anomalies + row.errors
         IN /\ row.status # "clean"
            /\ counted <= row.probes
            /\ counted < row.probes => row.status = "hijacked"
    /\ \A i \in DOMAIN Results :
         LET probes == measured[Results[i].server].probes IN
         ClassifyResolverIntegrity(Reverse(probes)).status = Results[i].integrity

(* The bars compare the resolvers: they stay on their track, a longer one    *)
(* never stands for a smaller value, the greatest value fills the track, and *)
(* the bars are in the order of the table.                                   *)
BarsFaithful ==
  stage = "rendered" =>
    \A field \in DOMAIN view.charts :
      LET bars == view.charts[field]
          value(i) == Results[i][field]
      IN \A i \in DOMAIN Results :
           /\ bars[i].width \in 0..100
           /\ bars[i].label = ShortServer(view.rows[i].cells[2])
           /\ \A j \in DOMAIN Results : value(i) <= value(j) => bars[i].width <= bars[j].width
           /\ (\A j \in DOMAIN Results : value(j) <= value(i)) =>
                bars[i].width = IF value(i) = 0 THEN 0 ELSE 100

(* "Fastest cold" (RELEASE_NOTES_v0.2.5.md): the resolver on that card has   *)
(* answered a query of the cold pass, if any has.                            *)
FastestAnswered ==
  stage = "rendered" =>
    LET answering == {s \in DOMAIN measured : Answered(measured[s].cold) # <<>>}
    IN answering # {} => view.cards.cold.value \in {ShortServer(s) : s \in answering}

(* The resolvers of a run are distinct and public, there is one at least, and *)
(* nobody but the built-in one is there unasked.  When the list is cut, the   *)
(* user's own entries go last, then those of the machine, and the warning     *)
(* says how many were cut (mergeNameServers, limitResolvers).                 *)
SelectionSound ==
  stage = "text" /\ text.kind = "selection" =>
    LET cfg == text.selection.cfg
        chosen == SelectResolvers(cfg, text.selection.machine)
        kept == ToSet(chosen.servers)
        Named(entries) == {NormalizeNameServer(e) : e \in ToSet(entries)} \ {Rejected}
        manual == Named(cfg.nameservers)
        own == manual \union (IF cfg.include_system THEN Named(text.selection.machine) ELSE {})
        asked == own \union Named(Pools(cfg))
        all == IF asked = {} THEN Named(<<BuiltIn>>) ELSE asked
    IN /\ kept # {} /\ kept \subseteq all
       /\ Len(chosen.servers) = Cardinality(kept)
       /\ Cardinality(kept) + chosen.truncated = Cardinality(all)
       /\ manual \subseteq kept \/ kept \subseteq manual
       /\ own \subseteq kept \/ kept \subseteq own

(* Whichever profile fails at whichever point: a copy of the history stays    *)
(* behind only if making it failed, and only one; a run that goes on has read *)
(* all profiles; and it gets hostnames, each of them once, all external ones  *)
(* if it asks for that many, and built-in ones only if there are none         *)
(* (history.go, filter.go, fallbackHostnames).                                *)
HistoryRead ==
  stage = "text" /\ text.kind = "history" =>
    LET history == ChromiumFamily(text.profiles)
        external == UNION {ToSet(ExternalHostnames(text.profiles[i].urls)) :
                             i \in DOMAIN text.profiles}
        Distinct(hosts) == Cardinality(ToSet(hosts)) = Len(hosts)
    IN /\ \A i \in DOMAIN history.copies : history.copies[i].fate = "not copied"
       /\ Len(history.copies) <= 1 /\ (history.copies # <<>> => history.failed)
       /\ history.failed = (\E i \in DOMAIN text.profiles : text.profiles[i].fate # "read")
       /\ ~history.failed => Hostnames(text.count, history.urls) # {}
       /\ ~history.failed => \A hosts \in Hostnames(text.count, history.urls) :
            IF external = {}
              THEN Len(hosts) = text.count /\ (text.count <= Len(Domains) => Distinct(hosts))
            ELSE /\ Distinct(hosts) /\ ToSet(hosts) \subseteq external
                 /\ Len(hosts) = text.count \/ ToSet(hosts) = external

(* In two runs one after the other: a row without metadata has a warning that *)
(* its lookup failed, now and not in an earlier run; rows of one address never *)
(* differ once it is known; and what was known stays so (lookupResolverMetadata,*)
(* enrichServerMetadata).                                                     *)
MetadataExplained ==
  stage = "text" /\ text.kind = "lookups" =>
    LET lookups == <<text.first, text.second>>
        first == EnrichServerMetadata(<<>>, text.first)
        runs == <<first, EnrichServerMetadata(first.cache, text.second)>>
        Known(n, i) == runs[n].rows[i].country # ""
    IN \A n \in 1..2 : \A i \in DOMAIN lookups[n] :
         /\ Known(n, i) = (i \notin runs[n].warned)
         /\ ~Known(n, i) => lookups[n][i].ripe.failed /\ lookups[n][i].rdap.failed
         /\ \A later \in n..2 : \A j \in DOMAIN lookups[later] :
              /\ lookups[n][i].address = lookups[later][j].address /\ Known(n, i)
              /\ later > n \/ j >= i
              => runs[later].rows[j] = runs[n].rows[i]

(* A program that reads CSV gets from the export what was written, commas,   *)
(* quotes and line feeds included, unless a cell has a carriage return and   *)
(* nothing that escapeCsv quotes: exactly such a cell breaks the table.      *)
CsvRoundTrips ==
  stage = "text" /\ text.kind = "table" =>
    LET broken == \E l \in DOMAIN text.rows : \E c \in DOMAIN text.rows[l] :
                    BareReturn(text.rows[l][c])
    IN (CsvParsed(CsvText(text.rows)) = text.rows) = ~broken

(* Page and server read the same text the same way.  Under the base path     *)
(* that main makes, whatever the uuid, a request of the page reaches its     *)
(* handler.  The page counts as many entries as the server finds tokens that *)
(* normalizeNameServer does not take for blank, unless the list has one of   *)
(* the two characters that only one of them takes for white space.           *)
PageAndServerAgree ==
  stage = "text" =>
    /\ text.kind = "path" =>
         LET raw == RawBasePath(text.uuid)
         IN MuxPath(raw, ApiPath(raw, text.path)) = <<"/">> \o TrimLeft(text.path, {"/"})
    /\ text.kind = "list" /\ ToSet(text.list) \intersect {"bom", "nel"} = {} =>
         LET tokens == NameserverTokens(text.list)
         IN EntryCount(text.list)
              = Cardinality({i \in DOMAIN tokens : ~Blank(tokens[i], ServerSpace)})

(* Bar, figure, counts and log of a poll tell the same progress: the figure  *)
(* is at most one percent off, and a full bar leaves out at most half of a   *)
(* hundredth of a percent, which is no query in a run of less than 20000.    *)
ProgressTells ==
  stage = "text" /\ text.kind = "progress" =>
    LET state == text.state
        shown == ShowProgress(state)
        log == BuildProgressText(state)
        off == shown.percent * state.total - 100 * state.completed
    IN /\ -state.total <= off /\ off <= state.total
       /\ (shown.fill = 10000) = (20000 * (state.total - state.completed) <= state.total)
       /\ log.progress = shown.detail.queries
       /\ log.times = shown.detail.times
=============================================================================
