---------------------------- MODULE ReportProofs ----------------------------
(***************************************************************************)
(* The properties of RunReport, for every input: what the run evaluates    *)
(* for a few servers, queries and texts.                                   *)
(***************************************************************************)
EXTENDS RunReport, DataProofs

-----------------------------------------------------------------------------
(* The index of the 95th percentile is one of the samples, also if there are *)
(* only one or two (percentile of ui.go).                                    *)
THEOREM PercentileInRange ==
  \A n \in Nat \ {0} : P95Index(n) \in 1..n
BY DEF P95Index

(* Whatever the values of a chart are: no bar leaves its track, a greater    *)
(* value has no shorter bar, and the greatest one fills the track, although  *)
(* widths are rounded and small ones widened (renderBarChart).               *)
THEOREM BarsCompare ==
  ASSUME NEW longest \in Nat \ {0}, NEW v \in 0..longest, NEW w \in 0..longest
  PROVE  /\ BarWidth(v, longest) \in 0..100
         /\ v <= w => BarWidth(v, longest) <= BarWidth(w, longest)
         /\ BarWidth(longest, longest) = 100
<1> DEFINE Width(x) == RoundDiv(100 * x, longest)
<1>1. ASSUME NEW x \in 0..longest PROVE Width(x) \in 0..100
  <2>1. 100 * x \in Nat /\ 100 * x <= 100 * longest
    OBVIOUS
  <2>2. Width(x) \in Nat
    BY <2>1, RoundDivNatural
  <2>3. Width(x) <= 100
    BY <2>1, RoundDivBound
  <2> QED
    BY <2>2, <2>3
<1>2. Width(longest) = 100
  BY RoundDivWhole
<1>3. v <= w => Width(v) <= Width(w)
  BY RoundDivMonotone
<1>4. Width(v) \in 0..100 /\ Width(w) \in 0..100
  BY <1>1
<1> HIDE DEF Width
<1>5. \A x \in 0..longest : BarWidth(x, longest)
        = IF Width(x) <= 0 THEN 0 ELSE IF Width(x) < 2 THEN 2 ELSE Width(x)
  BY DEF BarWidth, Width
<1> QED
  BY <1>2, <1>3, <1>4, <1>5

(* The bar of a run is full before its last query only when what is left is  *)
(* at most half of a hundredth of a percent, so never in a run of less than  *)
(* 20000 (round2 in advanceProgress).                                        *)
THEOREM FullBarIsAlmostDone ==
  ASSUME NEW total \in Nat \ {0}, NEW completed \in 0..total
  PROVE  /\ Percent(completed, total) \in Nat /\ Percent(completed, total) <= 10000
         /\ Percent(completed, total) = 10000
              <=> 20000 * (total - completed) <= total
<1>1. PICK a \in Nat : a = 20000 * completed + total
  OBVIOUS
<1>2. PICK b \in Nat \ {0} : b = 2 * total
  OBVIOUS
<1>3. PICK n \in Nat : n = 10000
  OBVIOUS
<1>4. a < b * n + b /\ (b * n <= a <=> 20000 * (total - completed) <= total)
  BY <1>1, <1>2, <1>3
<1>5. a \div b \in 0..n /\ (a \div b = n <=> b * n <= a)
  BY <1>4, QuotientReaches
<1>6. PICK q \in 0..n : q = a \div b
  BY <1>5
<1>7. q = n <=> b * n <= a
  BY <1>5, <1>6, Zenon
<1>8. Percent(completed, total) = q
  BY <1>1, <1>2, <1>6 DEF Percent
<1>9. q \in Nat /\ q <= 10000 /\ (q = 10000 <=> 20000 * (total - completed) <= total)
  BY <1>3, <1>4, <1>7
<1> QED
  BY <1>8, <1>9

-----------------------------------------------------------------------------
(* The recommended resolver is the first of the ranking that has answered    *)
(* and does not redirect, and there is none only when no resolver is such    *)
(* (selectWinner).                                                           *)
THEOREM WinnerIsFirstEligible ==
  ASSUME NEW R, NEW results \in Seq(R)
  PROVE  \/ /\ \A i \in DOMAIN results : ~Eligible(results[i])
            /\ SelectWinner(results) = None
         \/ \E i \in DOMAIN results :
              /\ Eligible(results[i]) /\ SelectWinner(results) = results[i].server
              /\ \A j \in DOMAIN results : j < i => ~Eligible(results[j])
<1> DEFINE I == {i \in 1..Len(results) : Eligible(results[i])}
<1>1. DOMAIN results = 1..Len(results) /\ Len(results) \in Nat
  OBVIOUS
<1>2. SelectInSeq(results, Eligible) = IF I # {} THEN Min(I) ELSE 0
  BY DEF SelectInSeq
<1>3. CASE I = {}
  <2>1. SelectWinner(results) = None
    BY <1>2, <1>3 DEF SelectWinner
  <2>2. \A i \in DOMAIN results : ~Eligible(results[i])
    BY <1>1, <1>3
  <2> QED
    BY <2>1, <2>2
<1>4. CASE I # {}
  <2>1. I \in SUBSET Nat
    OBVIOUS
  <2>2. Min(I) \in I /\ \A y \in I : Min(I) <= y
    BY <1>4, <2>1, LeastNatural
  <2>3. Min(I) \in DOMAIN results /\ Min(I) # 0 /\ Eligible(results[Min(I)])
    BY <1>1, <2>2
  <2>4. SelectWinner(results) = results[Min(I)].server
    BY <1>2, <1>4, <2>3 DEF SelectWinner
  <2>5. \A j \in DOMAIN results : j < Min(I) => ~Eligible(results[j])
    BY <1>1, <2>2
  <2> QED
    BY <2>3, <2>4, <2>5
<1> QED
  BY <1>3, <1>4

(* One redirected probe is enough, whatever the others are and in whichever  *)
(* order they were answered; errors and anomalies alone never make a         *)
(* resolver a hijacking one (classifyResolverIntegrity).                     *)
THEOREM HijackedByOneProbe ==
  ASSUME NEW O, NEW probes \in Seq(O)
  PROVE  ClassifyResolverIntegrity(probes).status = "hijacked"
           <=> \E i \in DOMAIN probes : Redirected(probes[i])
<1> DEFINE I == {i \in 1..Len(probes) : Redirected(probes[i])}
           hijacked == SelectInSeq(probes, Redirected)
<1>1. DOMAIN probes = 1..Len(probes) /\ Len(probes) \in Nat
  OBVIOUS
<1>2. hijacked = IF I # {} THEN Min(I) ELSE 0
  BY DEF SelectInSeq
<1>3. I # {} => Min(I) \in I
  <2>1. I \in SUBSET Nat
    OBVIOUS
  <2> QED
    BY <2>1, LeastNatural
<1>4. hijacked # 0 <=> \E i \in DOMAIN probes : Redirected(probes[i])
  BY <1>1, <1>2, <1>3
<1> HIDE DEF I
<1>5. PICK counted : ClassifyResolverIntegrity(probes) = Verdict(probes, counted, hijacked # 0)
  BY Zenon DEF ClassifyResolverIntegrity
<1> HIDE DEF hijacked
<1>6. ClassifyResolverIntegrity(probes).status
        = IntegrityStatus(hijacked # 0, Len(probes),
                          Cardinality({i \in counted : Clean(probes[i])}),
                          Cardinality({i \in counted : probes[i].err}))
  BY <1>5 DEF Verdict
<1> QED
  BY <1>4, <1>6 DEF IntegrityStatus

(* A resolver that answered at least one query is ranked before one that     *)
(* answered none, whatever its latencies up to 100 s (an exchange ends after  *)
(* 4 s), its jitter, its failures and its integrity: the penalties of        *)
(* scoreServer do not add up to the score of a dead resolver.                *)
THEOREM AnsweringBeatsSilent ==
  ASSUME NEW uncached, NEW cached, NEW jitter \in 0..100000 * Ms, NEW hijacked \in BOOLEAN,
         uncached.avg \in 0..100000 * Ms, uncached.p95 \in 0..100000 * Ms,
         cached.avg \in 0..100000 * Ms, cached.p95 \in 0..100000 * Ms,
         uncached.queries \in Nat, cached.queries \in Nat,
         uncached.failures \in Nat, cached.failures \in Nat,
         uncached.failures + cached.failures < uncached.queries + cached.queries
  PROVE  ScoreServer(uncached, cached, jitter, hijacked) < 999999 * Ms
<1> DEFINE queries == uncached.queries + cached.queries
           failures == uncached.failures + cached.failures
           A == ScoreLatencyValue(uncached.avg, uncached.successes)
           B == ScoreLatencyValue(cached.avg, cached.successes)
           C == ScoreLatencyValue(uncached.p95, uncached.successes)
           D == ScoreLatencyValue(cached.p95, cached.successes)
           latency == 35 * A + 65 * B + 12 * C + 8 * D + 25 * jitter
<1>1. Ms \in Nat \ {0}
  BY MsAssumption
<1>2. \A n : \A value \in 0..100000 * Ms : ScoreLatencyValue(value, n) \in 0..100000 * Ms
  BY <1>1 DEF ScoreLatencyValue
<1>3. A \in 0..100000 * Ms /\ B \in 0..100000 * Ms /\ C \in 0..100000 * Ms /\ D \in 0..100000 * Ms
  BY <1>2
<1>4. queries \in Nat \ {0} /\ failures \in Nat /\ failures < queries
  OBVIOUS
<1>5. ScoreServer(uncached, cached, jitter, hijacked)
        = RoundDiv(latency * queries + 90000 * Ms * failures, 100 * queries)
            + (IF hijacked THEN 1500 * Ms ELSE 0)
  BY <1>4 DEF ScoreServer
<1> HIDE DEF A, B, C, D, queries, failures
<1>6. latency \in Nat /\ latency <= 14500000 * Ms
  BY <1>1, <1>3
<1> HIDE DEF latency
<1>7. latency * queries + 90000 * Ms * failures \in Nat
  BY <1>1, <1>4, <1>6
<1>8. latency * queries + 90000 * Ms * failures <= (14590000 * Ms) * queries
  <2>1. latency * queries <= (14500000 * Ms) * queries
    BY <1>1, <1>4, <1>6, ProductMonotone
  <2>2. (90000 * Ms) * failures <= (90000 * Ms) * queries
    BY <1>1, <1>4, ProductMonotone
  <2> QED
    BY <1>1, <1>4, <1>6, <2>1, <2>2
<1>9. latency * queries + 90000 * Ms * failures <= (145900 * Ms) * (100 * queries)
  BY <1>1, <1>4, <1>8
<1>10. RoundDiv(latency * queries + 90000 * Ms * failures, 100 * queries) <= 145900 * Ms
  BY <1>1, <1>4, <1>7, <1>9, RoundDivBound
<1>11. RoundDiv(latency * queries + 90000 * Ms * failures, 100 * queries) \in Nat
  BY <1>1, <1>4, <1>7, RoundDivNatural
<1> QED
  BY <1>1, <1>5, <1>10, <1>11

-----------------------------------------------------------------------------
(* Where the report and the texts come from. *)
ReportInv ==
  /\ stage \in {"measured", "ranked", "rendered", "text"}
  /\ stage # "text" => measured \in Inputs
  /\ stage = "text" => text \in Texts
  /\ stage \in {"ranked", "rendered"} => response = BenchmarkResponse(measured)
  /\ stage = "rendered" => view = Rendered(response)

LEMMA ReportInvariant == Spec => []ReportInv
<1>1. Init => ReportInv
  BY DEF Init, ReportInv
<1>2. ReportInv /\ [Next]_vars => ReportInv'
  <2> SUFFICES ASSUME ReportInv, [Next]_vars PROVE ReportInv'
    OBVIOUS
  <2>1. CASE Rank
    BY <2>1 DEF Rank, ReportInv
  <2>2. CASE Render
    BY <2>2 DEF Render, ReportInv
  <2>3. CASE UNCHANGED vars
    BY <2>3 DEF vars, ReportInv
  <2> QED
    BY <2>1, <2>2, <2>3 DEF Next
<1> QED
  BY <1>1, <1>2, PTL DEF Spec

-----------------------------------------------------------------------------
(* Progress. *)

(* The percentage of a poll lies within its range, and the figure that is   *)
(* rounded from it within one percent of the queries.                       *)
LEMMA FigureIsClose ==
  ASSUME NEW total \in Nat \ {0}, NEW completed \in 0..total
  PROVE  LET figure == (Percent(completed, total) + 50) \div 100
         IN /\ figure \in Nat
            /\ 100 * completed <= figure * total + total
            /\ figure * total <= 100 * completed + total
<1>1. PICK a \in Nat : a = 20000 * completed + total
  OBVIOUS
<1>2. PICK b \in Nat \ {0} : b = 2 * total
  OBVIOUS
<1>3. PICK p \in Nat : p = a \div b
  BY Quotient
<1>4. b * p <= a /\ a < b * p + b
  BY <1>3, Quotient
<1>5. Percent(completed, total) = p
  BY <1>1, <1>2, <1>3 DEF Percent
<1>6. PICK f \in Nat : f = (p + 50) \div 100
  OBVIOUS
<1>7. 100 * f <= p + 50 /\ p + 50 < 100 * f + 100
  BY <1>6
<1>8. PICK x \in Nat : x = total * p
  OBVIOUS
<1>9. PICK y \in Nat : y = f * total
  OBVIOUS
<1>10. 2 * x <= 20000 * completed + total /\ 20000 * completed + total < 2 * x + 2 * total
  BY <1>1, <1>2, <1>4, <1>8
<1>11. 100 * y <= x + 50 * total /\ x + 50 * total <= 100 * y + 100 * total
  <2>1. total * (100 * f) <= total * (p + 50) /\ total * (p + 50) <= total * (100 * f + 100)
    BY <1>7, ProductMonotone
  <2> QED
    BY <1>8, <1>9, <2>1
<1>12. 100 * completed <= y + total /\ y <= 100 * completed + total
  BY <1>10, <1>11
<1> QED
  BY <1>5, <1>6, <1>9, <1>12

(* Bar, figure, counts and log of every poll tell the same progress, for     *)
(* runs of any length (setProgress, buildProgressText, round2).              *)
THEOREM ProgressIsTold == Spec => []ProgressTells
<1>1. ReportInv => ProgressTells
  <2> SUFFICES ASSUME ReportInv, stage = "text", text.kind = "progress"
               PROVE  ProgressTells
    BY DEF ProgressTells
  <2>1. /\ text.state \in Polled /\ text.state.completed <= text.state.total
        /\ text.state.percent = Percent(text.state.completed, text.state.total)
    BY TextsAssumption DEF ReportInv, Text
  <2>2. PICK total \in Nat \ {0}, completed \in Nat, percent \in Nat :
          /\ total = text.state.total /\ completed = text.state.completed
          /\ completed \in 0..total
          /\ percent = text.state.percent /\ percent = Percent(completed, total)
    BY <2>1 DEF Polled
  <2> DEFINE bound == 20000 * (total - completed) <= total
             figure == (percent + 50) \div 100
  <2>3. /\ percent \in Nat /\ percent <= 10000 /\ (percent = 10000 <=> bound)
        /\ figure \in Nat /\ 100 * completed <= figure * total + total
        /\ figure * total <= 100 * completed + total
    <3>1. completed \in 0..total /\ percent = Percent(completed, total)
      BY <2>2
    <3>2. percent \in Nat /\ percent <= 10000 /\ (percent = 10000 <=> bound)
      BY <3>1, FullBarIsAlmostDone
    <3>3. /\ figure \in Nat /\ 100 * completed <= figure * total + total
          /\ figure * total <= 100 * completed + total
      BY <3>1, FigureIsClose
    <3> QED
      BY <3>2, <3>3
  <2>4. \A n \in Nat : AsNumber(n, 0) = n
    BY AbsentAssumption DEF AsNumber
  <2>5. Within(percent, 0, 10000) = percent
    BY <2>3 DEF Within
  <2> DEFINE shown == ShowProgress(text.state)
             log == BuildProgressText(text.state)
  <2>6. /\ shown.fill = percent /\ shown.percent = figure
        /\ shown.detail.queries = log.progress /\ shown.detail.times = log.times
    BY <2>2, <2>4, <2>5
       DEF ShowProgress, SetProgress, BuildProgressDetail, BuildProgressText
  <2> HIDE DEF shown, log, figure
  <2>7. PICK y \in Nat : y = figure * total
    BY <2>3
  <2>8. -total <= y - 100 * completed /\ y - 100 * completed <= total
    BY <2>3, <2>7
  <2>9. (shown.fill = 10000) = bound
    BY <2>3, <2>6
  <2> QED
    BY <2>2, <2>6, <2>7, <2>8, <2>9 DEF ProgressTells, shown, log
<1> QED
  BY <1>1, ReportInvariant, PTL

-----------------------------------------------------------------------------
(* Under the base path that main makes, whatever the uuid, every request of  *)
(* the page reaches its handler (namebench.go, normalizeBasePath on both     *)
(* sides); and whatever is typed into the form, without the two characters   *)
(* that only one side takes for white space, the page counts the tokens that *)
(* the server does not take for blank (splitNameserverTokens).               *)
THEOREM PageAndServerAlwaysAgree == Spec => []PageAndServerAgree
<1>1. ReportInv => PageAndServerAgree
  <2> SUFFICES ASSUME ReportInv, stage = "text"
               PROVE  PageAndServerAgree
    BY DEF PageAndServerAgree
  <2>1. text \in Text
    BY TextsAssumption DEF ReportInv
  <2>2. ASSUME text.kind = "path"
        PROVE  LET raw == RawBasePath(text.uuid)
               IN MuxPath(raw, ApiPath(raw, text.path)) = <<"/">> \o TrimLeft(text.path, {"/"})
    <3>1. PICK uuid \in Seq(Char \ {"/"}) \ {<<>>}, path \in Seq(Char) :
            uuid = text.uuid /\ path = text.path
      <4>1. text.uuid \in Seq(Char \ ({"/"} \union PageSpace)) \ {<<>>} /\ text.path \in Seq(Char)
        BY <2>1, <2>2 DEF Text
      <4>2. text.uuid \in Seq(Char \ {"/"})
        BY <4>1
      <4> QED
        BY <4>1, <4>2
    <3>2. PICK rest \in Seq(Char) : rest = TrimLeft(path, {"/"})
      BY TrimLeftIs
    <3>3. PICK raw \in Seq(Char) :
            /\ raw = RawBasePath(uuid) /\ raw # <<>>
            /\ raw[1] = "/" /\ raw[Len(raw)] = "/"
      <4>1. PICK base \in Seq(Char), n \in Nat :
              base = RawBasePath(uuid) /\ Len(base) = n + 2 /\ base[1] = "/" /\ base[n + 2] = "/"
        BY RawBasePathIs
      <4>2. base # <<>>
        BY <4>1
      <4> QED
        BY <4>1, <4>2
    <3>4. NormalizeBasePath(raw) = raw /\ ServerBasePath(raw) = raw
      BY <3>3, BasePathIs, ServerBasePathIs
    <3>5. ApiPath(raw, path) = raw \o rest
      BY <3>2, <3>4 DEF ApiPath, BasePath
    <3>6. MuxPath(raw, raw \o rest) = <<"/">> \o rest
      BY <3>3, MuxPathIs
    <3> QED
      BY <3>1, <3>2, <3>3, <3>5, <3>6
  <2>3. ASSUME text.kind = "list", ToSet(text.list) \intersect {"bom", "nel"} = {}
        PROVE  LET tokens == NameserverTokens(text.list)
               IN EntryCount(text.list)
                    = Cardinality({i \in DOMAIN tokens : ~Blank(tokens[i], ServerSpace)})
    <3>1. text.list \in Seq(Char \ {"cr"})
      BY <2>1, <2>3 DEF Text
    <3>2. PICK n \in Nat : n = Len(text.list) /\ DOMAIN text.list = 1..n
      BY <3>1
    <3>3. \A i \in 1..n : text.list[i] \in Char \ {"cr", "bom", "nel"}
      <4> SUFFICES ASSUME NEW i \in 1..n PROVE text.list[i] \in Char \ {"cr", "bom", "nel"}
        OBVIOUS
      <4>1. text.list[i] \in Char \ {"cr"}
        BY <3>1, <3>2
      <4>2. text.list[i] \in ToSet(text.list)
        BY Zenon, <3>2 DEF ToSet
      <4>3. text.list[i] \notin {"bom", "nel"}
        BY Zenon, <2>3, <4>2
      <4> QED
        BY <4>1, <4>3
    <3>4. text.list \in Seq(Char \ {"cr", "bom", "nel"})
      BY <3>1, <3>2, <3>3
    <3> QED
      BY <3>4, EntriesAreTokens
  <2> QED
    BY <2>2, <2>3 DEF PageAndServerAgree
<1> QED
  BY <1>1, ReportInvariant, PTL

-----------------------------------------------------------------------------
LEMMA PoolsType == ASSUME NEW cfg PROVE Pools(cfg) \in Seq(Entry)
<1> DEFINE global == IF cfg.include_global THEN GlobalPool ELSE <<>>
           regional == IF ~cfg.include_regional THEN <<>>
                       ELSE IF cfg.location \in DOMAIN RegionalPools
                            THEN RegionalPools[cfg.location] ELSE DefaultRegionalPool
<1>1. global \in Seq(Entry) /\ regional \in Seq(Entry)
  BY RunDataAssumption
<1>2. global \o regional \in Seq(Entry)
  <2> HIDE DEF global, regional
  <2> QED
    BY <1>1, ConcatProperties
<1> QED
  BY <1>2 DEF Pools

LEMMA BuiltInIs ==
  /\ AppendUnique(<<BuiltIn>>) = <<NormalizeNameServer(BuiltIn)>>
  /\ NormalizeNameServer(BuiltIn) \in Server /\ NormalizeNameServer(BuiltIn) # Rejected
<1>1. NormalizeNameServer(BuiltIn) \in Server /\ NormalizeNameServer(BuiltIn) # Rejected
  BY NormalizeType, RunDataAssumption
<1> DEFINE one == <<BuiltIn>>
<1>2. one \in Seq(Entry) /\ Len(one) = 1 /\ one[1] = BuiltIn
  BY RunDataAssumption
<1> HIDE DEF one
<1>3. PICK acc \in [0..1 -> Seq(Server)] :
        /\ acc[0] = <<>> /\ AppendUnique(one) = acc[1]
        /\ acc[1] = AddServer(acc[0], one[1])
  BY <1>2, ServerSteps
<1>4. ToSet(<<>>) = {}
  BY DEF ToSet
<1>5. AddServer(<<>>, BuiltIn) = <<NormalizeNameServer(BuiltIn)>>
  BY <1>1, <1>4 DEF AddServer
<1> QED
  BY <1>1, <1>2, <1>3, <1>5 DEF one

(* Whatever is typed, offered by the machine and asked of the pools: the     *)
(* resolvers of a run are distinct and public, there is one at least, and    *)
(* the cut takes those of the pools first (mergeNameServers, appendUnique,   *)
(* limitResolvers).                                                          *)
THEOREM SelectionIsSound == Spec => []SelectionSound
<1>1. ReportInv => SelectionSound
  <2> SUFFICES ASSUME ReportInv, stage = "text", text.kind = "selection"
               PROVE  SelectionSound
    BY DEF SelectionSound
  <2>1. text \in Text
    BY TextsAssumption DEF ReportInv
  <2> DEFINE cfg == text.selection.cfg
             machine == text.selection.machine
             system == IF cfg.include_system THEN machine ELSE <<>>
             Named(entries) == {NormalizeNameServer(e) : e \in ToSet(entries)} \ {Rejected}
  <2>2. cfg.nameservers \in Seq(Entry) /\ machine \in Seq(Entry)
    BY <2>1 DEF Text, Selection
  <2>3. PICK a \in Seq(Entry), b \in Seq(Entry), c \in Seq(Entry) :
          a = cfg.nameservers /\ b = system /\ c = Pools(cfg)
    <3>1. Pools(cfg) \in Seq(Entry)
      BY PoolsType
    <3>2. system \in Seq(Entry)
      BY <2>2
    <3> QED
      BY <2>2, <3>1, <3>2
  <2>4. ASSUME NEW s \in Seq(Entry) PROVE Named(s) = NamedUpTo(s, Len(s))
    <3>1. DOMAIN s = 1..Len(s)
      OBVIOUS
    <3>2. {NormalizeNameServer(e) : e \in ToSet(s)}
            = {NormalizeNameServer(s[i]) : i \in 1..Len(s)}
      BY Zenon, <3>1 DEF ToSet
    <3> QED
      BY Zenon, <3>2 DEF NamedUpTo
  <2>5. PICK first \in Seq(Server), second \in Seq(Server), found \in Seq(Server) :
          AreMerged(first, second, found, a, b, c)
    BY MergedServers
  <2> DEFINE manual == Named(cfg.nameservers)
             own == manual \cup (IF cfg.include_system THEN Named(machine) ELSE {})
             asked == own \cup Named(Pools(cfg))
             all == IF asked = {} THEN Named(<<BuiltIn>>) ELSE asked
  <2>6. manual = ToSet(first) /\ own = ToSet(second) /\ asked = ToSet(found)
    <3>1. NamedUpTo(b, Len(b)) = IF cfg.include_system THEN Named(machine) ELSE {}
      <4>1. CASE cfg.include_system
        BY <2>3, <2>4, <4>1
      <4>2. CASE ~cfg.include_system
        BY <2>3, <4>2 DEF NamedUpTo
      <4> QED
        BY <4>1, <4>2
    <3>2. Named(cfg.nameservers) = NamedUpTo(a, Len(a)) /\ Named(Pools(cfg)) = NamedUpTo(c, Len(c))
      BY <2>3, <2>4
    <3> QED
      BY <2>5, <3>1, <3>2 DEF AreMerged
  <2>7. PICK merged \in Seq(Server) :
          /\ merged = MergeNameServers(cfg, system) /\ Distinct(merged) /\ merged # <<>>
          /\ ToSet(merged) = all
          /\ found # <<>> => merged = found
    <3>1. MergeNameServers(cfg, system) = IF found = <<>> THEN AppendUnique(<<BuiltIn>>) ELSE found
      BY <2>3, <2>5 DEF MergeNameServers, AreMerged
    <3>2. CASE found = <<>>
      <4>1. ToSet(found) = {}
        BY <3>2 DEF ToSet
      <4>2. <<NormalizeNameServer(BuiltIn)>> \in Seq(Server)
              /\ <<NormalizeNameServer(BuiltIn)>> # <<>> /\ Distinct(<<NormalizeNameServer(BuiltIn)>>)
              /\ ToSet(<<NormalizeNameServer(BuiltIn)>>) = {NormalizeNameServer(BuiltIn)}
        BY BuiltInIs DEF Distinct, ToSet
      <4>3. Named(<<BuiltIn>>) = {NormalizeNameServer(BuiltIn)}
        BY BuiltInIs DEF ToSet
      <4> HIDE DEF Named
      <4> QED
        BY <2>6, <3>1, <3>2, <4>1, <4>2, <4>3, BuiltInIs
    <3>3. CASE found # <<>>
      <4>1. ToSet(found) # {} /\ Distinct(found)
        BY <2>5, <3>3, NoElements DEF AreMerged
      <4> HIDE DEF Named
      <4> QED
        BY <2>6, <3>1, <3>3, <4>1
    <3> QED
      BY <3>2, <3>3
  <2>8. PICK limit \in Nat \ {0} : limit = MaxResolvers
    BY RunDataAssumption
  <2>9. PICK length \in Nat : length = Len(merged)
    OBVIOUS
  <2>10. PICK kept \in Seq(Server) :
           /\ kept = IF length <= limit THEN merged ELSE SubSeq(merged, 1, limit)
           /\ Len(kept) = IF length <= limit THEN length ELSE limit
           /\ Starts(kept, merged) /\ Distinct(kept)
    <3>1. CASE length <= limit
      BY <2>7, <2>9, <3>1 DEF Starts
    <3>2. CASE ~(length <= limit)
      <4>1. limit \in Nat /\ limit <= Len(merged)
        BY <2>9, <3>2
      <4> QED
        BY <2>7, <3>2, <4>1, CutIs
    <3> QED
      BY <3>1, <3>2
  <2> DEFINE chosen == SelectResolvers(cfg, machine)
  <2>11. chosen.servers = kept /\ chosen.truncated = length - Len(kept)
    BY <2>7, <2>8, <2>9, <2>10 DEF SelectResolvers
  <2>12. /\ Len(kept) = Cardinality(ToSet(kept)) /\ length = Cardinality(all)
         /\ ToSet(kept) # {} /\ ToSet(kept) \subseteq all
    <3>1. Len(kept) = Cardinality(ToSet(kept)) /\ Len(merged) = Cardinality(ToSet(merged))
      BY <2>7, <2>10, DistinctCount
    <3>2. ToSet(kept) \subseteq ToSet(merged)
      BY <2>10 DEF Starts, ToSet
    <3>3. length # 0 /\ Len(kept) \in Nat \ {0} /\ 1 \in DOMAIN kept
      <4>1. length # 0
        BY <2>7, <2>9
      <4>2. Len(kept) \in Nat \ {0}
        BY <2>10, <4>1
      <4> QED
        BY <4>1, <4>2
    <3>4. ToSet(kept) # {}
      BY <3>3 DEF ToSet
    <3> QED
      BY <2>7, <2>9, <3>1, <3>2, <3>4
  <2>13. /\ manual \subseteq ToSet(kept) \/ ToSet(kept) \subseteq manual
         /\ own \subseteq ToSet(kept) \/ ToSet(kept) \subseteq own
    <3>1. CASE found = <<>>
      <4>1. manual = {} /\ own = {}
        <5>1. Starts(first, <<>>) /\ Starts(second, <<>>)
          BY <2>5, <3>1 DEF AreMerged
        <5>2. first = <<>> /\ second = <<>>
          BY <5>1 DEF Starts
        <5>3. ToSet(first) = {} /\ ToSet(second) = {}
          BY <5>2, NoElements
        <5> QED
          BY <2>6, <5>3
      <4> QED
        BY <4>1
    <3>2. CASE found # <<>>
      <4>1. Starts(kept, found) /\ Starts(first, found) /\ Starts(second, found)
        BY <2>5, <2>7, <2>10, <3>2 DEF AreMerged
      <4>2. ToSet(first) \subseteq ToSet(kept) \/ ToSet(kept) \subseteq ToSet(first)
        BY <4>1, BeginningsNested
      <4>3. ToSet(second) \subseteq ToSet(kept) \/ ToSet(kept) \subseteq ToSet(second)
        BY <4>1, BeginningsNested
      <4> HIDE DEF manual, own
      <4> QED
        BY <2>6, <4>2, <4>3
    <3> QED
      BY <3>1, <3>2
  <2>14. Len(chosen.servers) = Cardinality(ToSet(kept))
           /\ Cardinality(ToSet(kept)) + chosen.truncated = Cardinality(all)
    <3>1. Len(kept) \in Nat
      OBVIOUS
    <3> HIDE DEF chosen, all
    <3>2. Len(chosen.servers) = Len(kept)
      BY <2>11
    <3> QED
      BY <2>11, <2>12, <3>1, <3>2
  <2> HIDE DEF chosen, manual, own, all
  <2>15. LET kpt == ToSet(chosen.servers) IN
           /\ kpt # {} /\ kpt \subseteq all
           /\ Len(chosen.servers) = Cardinality(kpt)
           /\ Cardinality(kpt) + chosen.truncated = Cardinality(all)
           /\ manual \subseteq kpt \/ kpt \subseteq manual
           /\ own \subseteq kpt \/ kpt \subseteq own
    BY <2>11, <2>12, <2>13, <2>14
  <2> QED
    BY <2>15 DEF SelectionSound, chosen, all, asked, own, manual, Named, cfg, machine
<1> QED
  BY <1>1, ReportInvariant, PTL

-----------------------------------------------------------------------------
(* The measurements of a run, ranked. *)

LEMMA PassStatsIs ==
  ASSUME NEW pass \in Pass
  PROVE  LET stats == PassStats(pass) IN
         /\ stats.avg \in Nat /\ stats.p95 \in Nat
         /\ stats.queries \in Nat /\ stats.successes \in Nat /\ stats.failures \in Nat
         /\ stats.queries = Len(pass) /\ stats.failures = Len(pass) - stats.successes
<1>1. pass \in Seq(Nat \union {Failed}) /\ Len(pass) \in Nat
  BY DEF Pass
<1>2. PICK samples \in Seq(Nat) : samples = Answered(pass) /\ Len(samples) <= Len(pass)
  BY <1>1, AnsweredIs
<1>3. Summary(samples).avg \in Nat /\ Summary(samples).p95 \in Nat
  BY SummaryIs
<1>4. PassStats(pass) =
        [avg |-> Summary(samples).avg, median |-> Summary(samples).median,
         p95 |-> Summary(samples).p95, queries |-> Len(pass), successes |-> Len(samples),
         failures |-> Len(pass) - Len(samples)]
  BY <1>2 DEF PassStats
<1>5. Len(samples) \in Nat /\ Len(pass) - Len(samples) \in Nat
  BY <1>1, <1>2
<1> QED
  BY <1>1, <1>3, <1>4, <1>5

LEMMA ScoreNatural ==
  ASSUME NEW u, NEW c, NEW jitter \in Nat, NEW hijacked \in BOOLEAN,
         u.avg \in Nat, u.p95 \in Nat, c.avg \in Nat, c.p95 \in Nat,
         u.queries \in Nat, c.queries \in Nat, u.failures \in Nat, c.failures \in Nat
  PROVE  ScoreServer(u, c, jitter, hijacked) \in Nat
<1>1. Ms \in Nat \ {0}
  BY MsAssumption
<1>2. \A value \in Nat : \A n : ScoreLatencyValue(value, n) \in Nat
  BY <1>1 DEF ScoreLatencyValue
<1>3. PICK queries \in Nat, failures \in Nat :
        queries = u.queries + c.queries /\ failures = u.failures + c.failures
  OBVIOUS
<1>4. PICK latency \in Nat :
        latency = 35 * ScoreLatencyValue(u.avg, u.successes)
                   + 65 * ScoreLatencyValue(c.avg, c.successes)
                   + 12 * ScoreLatencyValue(u.p95, u.successes)
                   + 8 * ScoreLatencyValue(c.p95, c.successes)
                   + 25 * jitter
  BY <1>2
<1>5. ScoreServer(u, c, jitter, hijacked)
        = IF queries = 0 THEN 0
          ELSE IF failures >= queries THEN 999999 * Ms
          ELSE RoundDiv(latency * queries + 90000 * Ms * failures, 100 * queries)
                 + (IF hijacked THEN 1500 * Ms ELSE 0)
  BY <1>3, <1>4 DEF ScoreServer
<1>6. PICK a \in Nat : a = latency * queries + 90000 * Ms * failures
  BY <1>1
<1>7. queries # 0 => RoundDiv(a, 100 * queries) \in Nat
  <2>1. queries # 0 => 100 * queries \in Nat \ {0}
    OBVIOUS
  <2> QED
    BY <2>1, RoundDivNatural
<1> QED
  BY <1>1, <1>5, <1>6, <1>7

LEMMA StatusIs ==
  ASSUME NEW probes
  PROVE  ClassifyResolverIntegrity(probes).status \in Statuses
<1>1. PICK counted, hijacked : ClassifyResolverIntegrity(probes) = Verdict(probes, counted, hijacked)
  BY Zenon DEF ClassifyResolverIntegrity
<1> QED
  BY <1>1 DEF Verdict, IntegrityStatus, Statuses

(* What the report says of a server is what was measured of it. *)
Figures(r) ==
  /\ r.score \in Nat /\ r.uncached_avg_ms \in Nat /\ r.cached_avg_ms \in Nat
  /\ r.failure_rate \in Nat /\ r.integrity \in Statuses

LEMMA BenchmarkIs ==
  ASSUME NEW m \in Measurement, NEW server
  PROVE  Figures(ServerBenchmark(server, m)) /\ ServerBenchmark(server, m).server = server
           /\ ServerBenchmark(server, m).integrity = ClassifyResolverIntegrity(m.probes).status
           /\ ServerBenchmark(server, m).integrity_probe_count
                = ClassifyResolverIntegrity(m.probes).probes
           /\ ServerBenchmark(server, m).integrity_clean_count
                = ClassifyResolverIntegrity(m.probes).clean
           /\ ServerBenchmark(server, m).integrity_error_count
                = ClassifyResolverIntegrity(m.probes).errors
           /\ ServerBenchmark(server, m).integrity_anomaly_count
                = ClassifyResolverIntegrity(m.probes).anomalies
<1> DEFINE u == PassStats(m.cold)
           c == PassStats(m.warm)
           verdict == ClassifyResolverIntegrity(m.probes)
           r == ServerBenchmark(server, m)
<1>1. PICK cold \in Pass, warm \in Pass : cold = m.cold /\ warm = m.warm
  BY DEF Measurement
<1>2. /\ u.avg \in Nat /\ u.p95 \in Nat /\ u.queries \in Nat /\ u.failures \in Nat
      /\ c.avg \in Nat /\ c.p95 \in Nat /\ c.queries \in Nat /\ c.failures \in Nat
  BY <1>1, PassStatsIs
<1>3. PICK jitter \in Nat : jitter = Jitter(Answered(m.cold) \o Answered(m.warm))
  <2>1. Answered(cold) \in Seq(Nat) /\ Answered(warm) \in Seq(Nat)
    BY AnsweredIs DEF Pass
  <2>2. Answered(cold) \o Answered(warm) \in Seq(Nat)
    BY <2>1, ConcatProperties
  <2> QED
    BY <1>1, <2>2, JitterNatural
<1> HIDE DEF u, c
<1>4. ScoreServer(u, c, jitter, verdict.status = "hijacked") \in Nat
  <2>1. (verdict.status = "hijacked") \in BOOLEAN
    OBVIOUS
  <2> HIDE DEF verdict
  <2> QED
    BY <1>2, <2>1, ScoreNatural
<1>5. PICK queries \in Nat, failures \in Nat :
        queries = u.queries + c.queries /\ failures = u.failures + c.failures
  BY <1>2
<1>6. (IF queries = 0 THEN 0 ELSE RoundDiv(100 * failures, queries)) \in Nat
  <2>1. 100 * failures \in Nat
    OBVIOUS
  <2> QED
    BY <2>1, RoundDivNatural
<1> HIDE DEF verdict
<1>7. /\ r.score = ScoreServer(u, c, jitter, verdict.status = "hijacked")
      /\ r.uncached_avg_ms = u.avg /\ r.cached_avg_ms = c.avg
      /\ r.failure_rate = IF queries = 0 THEN 0 ELSE RoundDiv(100 * failures, queries)
      /\ r.integrity = verdict.status /\ r.server = server
      /\ r.integrity_probe_count = verdict.probes /\ r.integrity_clean_count = verdict.clean
      /\ r.integrity_error_count = verdict.errors
      /\ r.integrity_anomaly_count = verdict.anomalies
  BY <1>3, <1>5 DEF ServerBenchmark, u, c, verdict
<1>8. verdict.status \in Statuses
  BY StatusIs DEF verdict
<1> HIDE DEF r
<1>9. Figures(r)
  BY <1>2, <1>4, <1>6, <1>7, <1>8 DEF Figures
<1> QED
  BY <1>7, <1>9 DEF r, verdict

(* The ranking has every server once, in the order of their scores. *)
Bench(m, server) == ServerBenchmark(server, m[server])

IsRanking(order, m) ==
  /\ order \in [1..Len(m) -> 1..Len(m)]
  /\ \A server \in 1..Len(m) : \E k \in 1..Len(m) : order[k] = server
  /\ \A i, j \in 1..Len(m) : order[i] = order[j] => i = j
  /\ \A i, j \in 1..Len(m) : i <= j => Bench(m, order[i]).score <= Bench(m, order[j]).score
  /\ Ranked([s \in DOMAIN m |-> ServerBenchmark(s, m[s])])
       = [k \in 1..Len(m) |-> [Bench(m, order[k]) EXCEPT !.rank = k]]

RanksBefore(results, D) == {p \in D \X D : Better(results[p[1]], results[p[2]])}

LEMMA OrderIs ==
  ASSUME NEW results
  PROVE  Order(results) = Sorted(DOMAIN results, RanksBefore(results, DOMAIN results))
BY DEF Order, RanksBefore

LEMMA RanksBeforeIs ==
  ASSUME NEW results, NEW D, NEW a \in D, NEW b \in D
  PROVE  <<a, b>> \in RanksBefore(results, D) <=> Better(results[a], results[b])
BY DEF RanksBefore

LEMMA RankingIs ==
  ASSUME NEW m \in Seq(Measurement)
  PROVE  \E order : IsRanking(order, m)
<1> DEFINE n == Len(m)
           results == [s \in DOMAIN m |-> ServerBenchmark(s, m[s])]
           before == RanksBefore(results, DOMAIN results)
           order == Order(results)
<1>1. n \in Nat /\ DOMAIN m = 1..n /\ \A s \in 1..n : m[s] \in Measurement
  OBVIOUS
<1>2. DOMAIN results = 1..n /\ \A s \in 1..n : results[s] = Bench(m, s)
  BY <1>1 DEF Bench
<1>3. ASSUME NEW s \in 1..n PROVE Bench(m, s).score \in Nat /\ Bench(m, s).server = s
  <2>1. m[s] \in Measurement
    BY <1>1
  <2> QED
    BY <2>1, BenchmarkIs DEF Bench, Figures
<1> DEFINE Ahead(a, b) == \/ Bench(m, a).score < Bench(m, b).score
                          \/ Bench(m, a).score = Bench(m, b).score /\ a < b
<1>4. ASSUME NEW a \in 1..n, NEW b \in 1..n PROVE <<a, b>> \in before <=> Ahead(a, b)
  <2>1. <<a, b>> \in before <=> Better(Bench(m, a), Bench(m, b))
    <3> HIDE DEF results
    <3>1. a \in DOMAIN results /\ b \in DOMAIN results
      BY <1>2
    <3>2. <<a, b>> \in before <=> Better(results[a], results[b])
      BY <3>1, RanksBeforeIs
    <3> QED
      BY <1>2, <3>2
  <2> QED
    BY <1>3, <2>1 DEF Better
<1> HIDE DEF before
<1>5. StrictOrder(1..n, before)
  <2>1. \A x \in 1..n : <<x, x>> \notin before
    BY <1>3, <1>4
  <2>2. ASSUME NEW x \in 1..n, NEW y \in 1..n, NEW z \in 1..n,
               <<x, y>> \in before, <<y, z>> \in before
        PROVE  <<x, z>> \in before
    <3>1. PICK a \in Nat, b \in Nat, c \in Nat :
            a = Bench(m, x).score /\ b = Bench(m, y).score /\ c = Bench(m, z).score
      BY <1>3
    <3>2. (a < b \/ (a = b /\ x < y)) /\ (b < c \/ (b = c /\ y < z))
      BY <1>4, <2>2, <3>1
    <3>3. a < c \/ (a = c /\ x < z)
      BY <1>1, <3>2
    <3> QED
      BY <1>4, <3>1, <3>3
  <2>3. ASSUME NEW x \in 1..n, NEW y \in 1..n
        PROVE  x = y \/ <<x, y>> \in before \/ <<y, x>> \in before
    <3>1. PICK a \in Nat, b \in Nat : a = Bench(m, x).score /\ b = Bench(m, y).score
      BY <1>3
    <3>2. x = y \/ (a < b \/ (a = b /\ x < y)) \/ (b < a \/ (b = a /\ y < x))
      BY <1>1
    <3> QED
      BY <1>4, <3>1, <3>2
  <2> QED
    BY <2>1, <2>2, <2>3 DEF StrictOrder
<1>6. IsFiniteSet(1..n) /\ Cardinality(1..n) = n
  <2>1. PICK l \in Nat : l = n
    BY <1>1
  <2>2. IsFiniteSet(1..l) /\ Cardinality(1..l) = l
    BY FS_Interval
  <2> QED
    BY <2>1, <2>2
<1>7. /\ order \in [1..n -> 1..n]
      /\ \A i, j \in 1..n : i < j => <<order[i], order[j]>> \in before
      /\ \A x \in 1..n : \E k \in 1..n : order[k] = x
  <2> HIDE DEF results
  <2>1. order = Sorted(DOMAIN results, before)
    BY Zenon, OrderIs DEF before
  <2>2. order = Sorted(1..n, before)
    BY <1>2, <2>1
  <2> HIDE DEF order
  <2>3. /\ Sorted(1..n, before) \in [1..n -> 1..n]
        /\ \A i, j \in 1..n : i < j => <<Sorted(1..n, before)[i], Sorted(1..n, before)[j]>> \in before
        /\ \A x \in 1..n : \E k \in 1..n : Sorted(1..n, before)[k] = x
    BY <1>5, <1>6, SortedIs
  <2> QED
    BY <2>2, <2>3
<1>8. Ranked(results) = [k \in 1..n |-> [results[order[k]] EXCEPT !.rank = k]]
  <2> HIDE DEF results
  <2>1. Ranked(results) = [k \in DOMAIN order |-> [results[order[k]] EXCEPT !.rank = k]]
    BY DEF Ranked
  <2> HIDE DEF order
  <2> QED
    BY <1>7, <2>1
<1> HIDE DEF order
<1>9. Ranked(results) = [k \in 1..n |-> [Bench(m, order[k]) EXCEPT !.rank = k]]
  <2>1. \A k \in 1..n : results[order[k]] = Bench(m, order[k])
    BY <1>2, <1>7
  <2> HIDE DEF results
  <2> QED
    BY <1>8, <2>1
<1>10. \A i, j \in 1..n : order[i] = order[j] => i = j
  <2> SUFFICES ASSUME NEW i \in 1..n, NEW j \in 1..n, order[i] = order[j], i < j PROVE FALSE
    BY <1>1
  <2>1. <<order[i], order[i]>> \in before /\ order[i] \in 1..n
    BY <1>7
  <2> QED
    BY <1>5, <2>1 DEF StrictOrder
<1>11. ASSUME NEW i \in 1..n, NEW j \in 1..n, i <= j
       PROVE  Bench(m, order[i]).score <= Bench(m, order[j]).score
  <2>1. PICK x \in 1..n, y \in 1..n : x = order[i] /\ y = order[j]
    BY <1>7
  <2>2. PICK a \in Nat, b \in Nat : a = Bench(m, x).score /\ b = Bench(m, y).score
    BY <1>3
  <2>3. i = j \/ <<order[i], order[j]>> \in before
    BY <1>1, <1>7, <1>11
  <2>4. CASE i = j
    BY <2>1, <2>2, <2>4
  <2>5. CASE i # j
    <3>1. Ahead(x, y)
      BY <1>4, <2>1, <2>3, <2>5
    <3> QED
      BY <2>1, <2>2, <3>1
  <2> QED
    BY <2>4, <2>5
<1>12. IsRanking(order, m)
  <2> HIDE DEF results
  <2> QED
    BY <1>7, <1>9, <1>10, <1>11 DEF IsRanking, results
<1> QED
  BY <1>12

(* The fields of a result but its rank and its metadata, which are filled in later. *)
Measures == {"server", "queries", "successes", "failures", "failure_rate", "score",
             "uncached_avg_ms", "cached_avg_ms", "jitter_ms", "integrity",
             "integrity_probe_count", "integrity_clean_count", "integrity_error_count",
             "integrity_anomaly_count"}

Eligibles(m, order) == {k \in 1..Len(m) : Eligible(Bench(m, order[k]))}

(* The response has what was measured, ranked; the winner is the first eligible *)
(* server, and when there is none the first, with a warning.                   *)
IsResponse(data, m, order, w) ==
  /\ IsRanking(order, m)
  /\ DOMAIN data.results = 1..Len(m) /\ Len(data.results) = Len(m)
  /\ \A k \in 1..Len(m) : \A field \in Measures :
       data.results[k][field] = Bench(m, order[k])[field]
  /\ w \in 1..Len(m) /\ data.winner = order[w]
  /\ IF Eligibles(m, order) = {} THEN w = 1 /\ data.warnings # <<>>
     ELSE /\ w \in Eligibles(m, order) /\ \A k \in Eligibles(m, order) : w <= k
          /\ data.warnings = <<>>

LEMMA BenchDomain ==
  ASSUME NEW m, NEW server
  PROVE  Measures \subseteq DOMAIN Bench(m, server)
BY DEF Bench, ServerBenchmark, Measures

LEMMA RankKept ==
  ASSUME NEW r, NEW k, Measures \subseteq DOMAIN r
  PROVE  /\ \A field \in Measures : [r EXCEPT !.rank = k][field] = r[field]
         /\ Measures \subseteq DOMAIN [r EXCEPT !.rank = k]
BY DEF Measures

WithMetadata(r, found) ==
  [r EXCEPT !.asn = found.asn, !.country = found.country,
            !.organization = found.organization]

LEMMA MetadataKept ==
  ASSUME NEW r, NEW found, Measures \subseteq DOMAIN r
  PROVE  \A field \in Measures : WithMetadata(r, found)[field] = r[field]
BY DEF Measures, WithMetadata

LEMMA ResponseIs ==
  ASSUME NEW m \in Seq(Measurement) \ {<<>>}
  PROVE  \E order, w : IsResponse(BenchmarkResponse(m), m, order, w)
<1> DEFINE n == Len(m)
           ranked == Ranked([s \in DOMAIN m |-> ServerBenchmark(s, m[s])])
           data == BenchmarkResponse(m)
<1>1. n \in Nat \ {0} /\ m \in Seq(Measurement)
  OBVIOUS
<1>2. PICK order : IsRanking(order, m)
  BY <1>1, RankingIs
<1>3. /\ ranked = [k \in 1..n |-> [Bench(m, order[k]) EXCEPT !.rank = k]]
      /\ order \in [1..n -> 1..n]
  BY <1>2 DEF IsRanking
<1>4. DOMAIN ranked = 1..n /\ Len(ranked) = n /\ ranked # <<>>
  <2> HIDE DEF ranked
  <2>1. DOMAIN ranked = 1..n
    BY <1>3
  <2> QED
    BY <1>1, <1>3, <2>1
<1>5. ASSUME NEW k \in 1..n
      PROVE  /\ \A field \in Measures : ranked[k][field] = Bench(m, order[k])[field]
             /\ Measures \subseteq DOMAIN ranked[k]
  <2> HIDE DEF ranked
  <2>1. ranked[k] = [Bench(m, order[k]) EXCEPT !.rank = k]
    BY <1>3
  <2> QED
    BY <2>1, BenchDomain, RankKept
<1> HIDE DEF ranked
<1> DEFINE E == {k \in 1..n : Eligible(ranked[k])}
           first == SelectInSeq(ranked, Eligible)
<1>6. E = Eligibles(m, order)
  <2>1. \A k \in 1..n : Eligible(ranked[k]) <=> Eligible(Bench(m, order[k]))
    BY <1>5 DEF Eligible, Measures
  <2> QED
    BY <2>1 DEF Eligibles
<1>7. first = IF E # {} THEN Min(E) ELSE 0
  BY <1>4 DEF SelectInSeq
<1>8. E # {} => first \in E /\ \A k \in E : first <= k
  <2>1. E \in SUBSET Nat
    BY <1>1
  <2> HIDE DEF E
  <2> QED
    BY <1>7, <2>1, LeastNatural
<1>9. E # {} => first \in 1..n /\ first \in Nat \ {0}
  <2> HIDE DEF first
  <2>1. \A k \in E : k \in 1..n
    OBVIOUS
  <2> HIDE DEF E
  <2> QED
    BY <1>1, <1>8, <2>1
<1>10. \A k \in 1..n : ranked[k].server = order[k] /\ order[k] \in Nat \ {0}
  <2> SUFFICES ASSUME NEW k \in 1..n PROVE ranked[k].server = order[k] /\ order[k] \in Nat \ {0}
    OBVIOUS
  <2>1. order[k] \in 1..n
    BY <1>3
  <2>2. ranked[k].server = Bench(m, order[k]).server
    BY <1>5 DEF Measures
  <2>3. Bench(m, order[k]).server = order[k]
    BY BenchmarkIs, <1>1, <2>1 DEF Bench
  <2> QED
    BY <1>1, <2>1, <2>2, <2>3
<1> DEFINE winner == SelectWinner(ranked)
<1>11. winner = IF first = 0 THEN None ELSE ranked[first].server
  BY DEF SelectWinner
<1> HIDE DEF E, first
<1>12. (winner = None) <=> (E = {})
  <2>1. CASE E = {}
    BY <1>7, <1>11, <2>1
  <2>2. CASE E # {}
    <3>1. PICK l \in Nat : l = first /\ l \in 1..n /\ l # 0
      BY <1>9, <2>2
    <3>2. winner = order[l] /\ order[l] \in Nat \ {0}
      BY <1>1, <1>10, <1>11, <3>1
    <3> QED
      BY <2>2, <3>2 DEF None
  <2> QED
    BY <2>1, <2>2
<1> HIDE DEF winner
<1>13. /\ data.winner = IF winner = None THEN ranked[1].server ELSE winner
       /\ data.warnings = IF winner = None THEN <<"fallback">> ELSE <<>>
  BY <1>4 DEF BenchmarkResponse, ranked, winner
<1>14. DOMAIN data.results = 1..n /\ Len(data.results) = n
       /\ \A k \in 1..n : \E found : data.results[k] = WithMetadata(ranked[k], found)
  <2> DEFINE Filled(k) == WithMetadata(ranked[k], Metadata[ranked[k].server])
  <2>1. data.results = [k \in DOMAIN ranked |-> Filled(k)]
    BY DEF BenchmarkResponse, ranked, WithMetadata
  <2>2. \A k : \E found : Filled(k) = WithMetadata(ranked[k], found)
    OBVIOUS
  <2> HIDE DEF data, Filled
  <2>3. data.results = [k \in 1..n |-> Filled(k)]
    BY <1>4, <2>1
  <2>4. DOMAIN data.results = 1..n /\ \A k \in 1..n : data.results[k] = Filled(k)
    BY <2>3
  <2>5. Len(data.results) = n
    BY <1>1, <2>3
  <2> QED
    BY <2>2, <2>4, <2>5
<1> HIDE DEF data
<1>15. ASSUME NEW k \in 1..n, NEW field \in Measures
       PROVE  data.results[k][field] = Bench(m, order[k])[field]
  <2>1. PICK found : data.results[k] = WithMetadata(ranked[k], found)
    BY <1>14
  <2>2. Measures \subseteq DOMAIN ranked[k] /\ ranked[k][field] = Bench(m, order[k])[field]
    BY <1>5
  <2>3. WithMetadata(ranked[k], found)[field] = ranked[k][field]
    BY <2>2, MetadataKept
  <2> QED
    BY <2>1, <2>2, <2>3
<1> DEFINE w == IF E = {} THEN 1 ELSE first
<1>16. /\ w \in 1..n /\ data.winner = order[w]
       /\ IF E = {} THEN w = 1 /\ data.warnings # <<>>
          ELSE w \in E /\ (\A k \in E : w <= k) /\ data.warnings = <<>>
  <2>1. CASE E = {}
    BY <1>1, <1>10, <1>12, <1>13, <2>1
  <2>2. CASE E # {}
    <3>1. PICK l \in 1..n : l = first /\ l \in Nat \ {0}
      BY <1>9, <2>2
    <3>2. winner = order[l]
      BY <1>10, <1>11, <3>1
    <3> QED
      BY <1>8, <1>12, <1>13, <2>2, <3>1, <3>2
  <2> QED
    BY <2>1, <2>2
<1> HIDE DEF w
<1>17. IsResponse(data, m, order, w)
  BY <1>2, <1>6, <1>14, <1>15, <1>16 DEF IsResponse
<1> QED
  BY <1>17 DEF data

LEMMA ResponseHolds ==
  ASSUME ReportInv, stage \in {"ranked", "rendered"}
  PROVE  /\ measured \in Seq(Measurement) \ {<<>>}
         /\ \E order, w : IsResponse(response, measured, order, w)
<1>1. measured \in Seq(Measurement) \ {<<>>} /\ response = BenchmarkResponse(measured)
  BY InputsAssumption DEF ReportInv
<1> QED
  BY <1>1, ResponseIs

(* In every run the recommended resolver is the eligible one with the best *)
(* score, and the response warns exactly when none is eligible.            *)
THEOREM WinnerIsSafe == Spec => []SafeWinner
<1>1. ReportInv => SafeWinner
  <2> SUFFICES ASSUME ReportInv, stage = "ranked" PROVE SafeWinner
    BY DEF SafeWinner
  <2>0. PICK m \in Seq(Measurement) \ {<<>>} : m = measured
    BY ResponseHolds
  <2>1. PICK order, w : m = measured /\ IsResponse(response, m, order, w)
    BY <2>0, ResponseHolds
  <2> DEFINE eligible == {i \in DOMAIN Results : Eligible(Results[i])}
             candidates == IF eligible = {} THEN DOMAIN Results ELSE eligible
  <2>2. PICK n \in Nat \ {0} : n = Len(m)
    OBVIOUS
  <2>3. DOMAIN Results = 1..n
    BY <2>1, <2>2 DEF IsResponse, Results
  <2>4. ASSUME NEW k \in 1..n
        PROVE  /\ Results[k].score = Bench(m, order[k]).score
               /\ Results[k].server = order[k]
               /\ Eligible(Results[k]) <=> Eligible(Bench(m, order[k]))
    <3>1. \A field \in Measures : Results[k][field] = Bench(m, order[k])[field]
      BY <2>1, <2>2 DEF IsResponse, Results
    <3>2. order[k] \in 1..n /\ m[order[k]] \in Measurement
      BY <2>1, <2>2 DEF IsResponse, IsRanking
    <3>3. Bench(m, order[k]).server = order[k]
      BY <3>2, BenchmarkIs DEF Bench
    <3> QED
      BY <3>1, <3>3 DEF Measures, Eligible
  <2>5. eligible = Eligibles(m, order)
    BY <2>2, <2>3, <2>4 DEF Eligibles
  <2> HIDE DEF eligible
  <2>6. w \in candidates /\ \A o \in candidates : o \in 1..n /\ w <= o
    <3>1. \A o \in Eligibles(m, order) : o \in 1..n
      BY <2>2 DEF Eligibles
    <3> QED
      BY <2>1, <2>2, <2>3, <2>5, <3>1 DEF IsResponse
  <2> HIDE DEF candidates
  <2>7. ASSUME NEW o \in candidates PROVE Results[w].score <= Results[o].score
    <3>1. w \in 1..n /\ o \in 1..n /\ w <= o
      BY <2>6
    <3>2. Bench(m, order[w]).score <= Bench(m, order[o]).score
      BY <2>1, <2>2, <3>1 DEF IsResponse, IsRanking
    <3> QED
      BY <2>4, <3>1, <3>2
  <2>8. Results[w].server = response.winner
    BY <2>1, <2>2, <2>4, <2>6 DEF IsResponse
  <2>9. (eligible = {}) = (response.warnings # <<>>)
    BY <2>1, <2>5 DEF IsResponse
  <2> QED
    BY <2>6, <2>7, <2>8, <2>9 DEF SafeWinner, eligible, candidates
<1> QED
  BY <1>1, ReportInvariant, PTL

-----------------------------------------------------------------------------
(* Bars. *)

LEMMA UpTo ==
  ASSUME NEW n \in Nat, NEW x \in Nat, x <= n
  PROVE  x \in 0..n
OBVIOUS

LEMMA BoundExists ==
  ASSUME NEW n \in Nat, NEW f, \A i \in 1..n : f[i] \in Nat
  PROVE  \E b \in Nat : \A i \in 1..n : f[i] <= b
<1> DEFINE S == {k \in 0..n : \E b \in Nat : \A i \in 1..k : f[i] <= b}
<1>1. 0 \in S
  OBVIOUS
<1>2. ASSUME NEW k \in 1..n, k - 1 \in S PROVE k \in S
  <2>1. PICK b \in Nat : \A i \in 1..(k - 1) : f[i] <= b
    BY <1>2
  <2>2. PICK c \in Nat : c = IF f[k] <= b THEN b ELSE f[k]
    OBVIOUS
  <2>3. \A i \in 1..k : f[i] <= c
    <3> TAKE i \in 1..k
    <3>1. CASE i = k
      BY <2>2, <3>1
    <3>2. CASE i # k
      <4>1. i \in 1..(k - 1) /\ i \in 1..n
        BY <3>2
      <4> QED
        BY <2>1, <2>2, <4>1
    <3> QED
      BY <3>1, <3>2
  <2> QED
    BY <2>3
<1> HIDE DEF S
<1>3. n \in S
  BY <1>1, <1>2, InductionTo
<1> QED
  BY <1>3 DEF S

LEMMA WidthIs ==
  ASSUME NEW longest \in Nat, NEW value \in Nat, value <= longest
  PROVE  /\ BarWidth(value, longest) \in 0..100
         /\ BarWidth(longest, longest) = IF longest = 0 THEN 0 ELSE 100
         /\ \A other \in Nat : other <= value => BarWidth(other, longest) <= BarWidth(value, longest)
<1>1. PICK l \in Nat \ {0} : l = IF longest <= 0 THEN 1 ELSE longest
  OBVIOUS
<1>2. longest # 0 => l = longest
  BY <1>1
<1> DEFINE Share(v) == RoundDiv(100 * v, l)
<1>3. \A v : BarWidth(v, longest) = IF Share(v) <= 0 THEN 0 ELSE IF Share(v) < 2 THEN 2 ELSE Share(v)
  BY <1>1 DEF BarWidth
<1>4. \A v \in Nat : Share(v) \in Nat
  <2> TAKE v \in Nat
  <2>1. 100 * v \in Nat
    OBVIOUS
  <2> QED
    BY <2>1, RoundDivNatural
<1>5. Share(longest) = IF longest = 0 THEN 0 ELSE 100
  <2>1. 100 * longest = (IF longest = 0 THEN 0 ELSE 100) * l
    BY <1>1
  <2>2. (IF longest = 0 THEN 0 ELSE 100) \in Nat
    OBVIOUS
  <2> QED
    BY <2>1, <2>2, RoundDivWhole
<1>6. \A v, o \in Nat : o <= v => Share(o) <= Share(v)
  <2> TAKE v, o \in Nat
  <2> HAVE o <= v
  <2>1. 100 * v \in Nat /\ 100 * o \in Nat /\ 100 * o <= 100 * v
    OBVIOUS
  <2> QED
    BY <2>1, RoundDivMonotone
<1> HIDE DEF Share
<1>7. Share(value) <= 100
  BY <1>4, <1>5, <1>6
<1>8. BarWidth(value, longest) \in 0..100
  <2>1. PICK s \in Nat : s = Share(value) /\ s <= 100
    BY <1>4, <1>7
  <2>2. BarWidth(value, longest) = IF s <= 0 THEN 0 ELSE IF s < 2 THEN 2 ELSE s
    BY <1>3, <2>1
  <2>3. BarWidth(value, longest) \in Nat /\ BarWidth(value, longest) <= 100
    <3>1. CASE s = 0
      BY <2>2, <3>1
    <3>2. CASE s = 1
      BY <2>2, <3>2
    <3>3. CASE s >= 2
      BY <2>1, <2>2, <3>3
    <3> QED
      BY <3>1, <3>2, <3>3
  <2>4. 100 \in Nat
    OBVIOUS
  <2> QED
    BY Zenon, <2>3, <2>4, UpTo
<1>9. BarWidth(longest, longest) = IF longest = 0 THEN 0 ELSE 100
  BY <1>3, <1>5
<1>10. ASSUME NEW other \in Nat, other <= value
       PROVE  BarWidth(other, longest) <= BarWidth(value, longest)
  <2>1. PICK a \in Nat, b \in Nat : a = Share(other) /\ b = Share(value) /\ a <= b
    BY <1>4, <1>6, <1>10
  <2> QED
    BY <1>3, <2>1
<1> QED
  BY <1>8, <1>9, <1>10

BarsFit(bars, entries, n) ==
  \A i \in 1..n :
    /\ bars[i].label = entries[i].label /\ bars[i].width \in 0..100
    /\ \A j \in 1..n : entries[i].value <= entries[j].value => bars[i].width <= bars[j].width
    /\ (\A j \in 1..n : entries[j].value <= entries[i].value) =>
         bars[i].width = IF entries[i].value = 0 THEN 0 ELSE 100

LEMMA BarsAre ==
  ASSUME NEW n \in Nat \ {0}, NEW entries, DOMAIN entries = 1..n,
         \A i \in 1..n : entries[i].value \in Nat
  PROVE  BarsFit(RenderBarChart(entries), entries, n)
<1> DEFINE f == [i \in 1..n |-> entries[i].value]
           values == {0} \union {entries[i].value : i \in DOMAIN entries}
           longest == Max(values)
<1>1. PICK b \in Nat : \A i \in 1..n : f[i] <= b
  <2>1. \A i \in 1..n : f[i] \in Nat
    OBVIOUS
  <2> HIDE DEF f
  <2> QED
    BY <2>1, BoundExists
<1>2. values \in SUBSET Nat /\ values # {} /\ \A y \in values : y <= b
  BY <1>1
<1>3. \A i \in 1..n : entries[i].value \in values
  OBVIOUS
<1>4. \A y \in values : y = 0 \/ \E i \in 1..n : y = entries[i].value
  OBVIOUS
<1> HIDE DEF values
<1>5. longest \in values /\ \A y \in values : y <= longest
  BY <1>2, GreatestNatural
<1>6. PICK l \in Nat : l = longest
  BY <1>2, <1>5
<1>7. entries # <<>>
  OBVIOUS
<1>8. \A i \in 1..n : RenderBarChart(entries)[i] =
        [label |-> entries[i].label, text |-> entries[i].text,
         width |-> BarWidth(entries[i].value, l)]
  BY <1>6, <1>7 DEF RenderBarChart, values
<1> HIDE DEF longest
<1> DEFINE bars == RenderBarChart(entries)
<1>9. \A i \in 1..n : bars[i].label = entries[i].label
                        /\ bars[i].width = BarWidth(entries[i].value, l)
  <2> TAKE i \in 1..n
  <2>1. bars[i] = [label |-> entries[i].label, text |-> entries[i].text,
                   width |-> BarWidth(entries[i].value, l)]
    BY <1>8
  <2> HIDE DEF bars
  <2> QED
    BY <2>1
<1> HIDE DEF bars
<1>10. ASSUME NEW i \in 1..n
       PROVE  /\ bars[i].width \in 0..100
              /\ \A j \in 1..n : entries[i].value <= entries[j].value =>
                   bars[i].width <= bars[j].width
              /\ (\A j \in 1..n : entries[j].value <= entries[i].value) =>
                   bars[i].width = IF entries[i].value = 0 THEN 0 ELSE 100
  <2>1. \A j \in 1..n : entries[j].value \in Nat /\ entries[j].value <= l
    BY <1>3, <1>5, <1>6
  <2>2. bars[i].width \in 0..100
    <3>1. BarWidth(entries[i].value, l) \in 0..100
      BY <2>1, WidthIs
    <3> QED
      BY <1>9, <3>1
  <2>3. ASSUME NEW j \in 1..n, entries[i].value <= entries[j].value
        PROVE  bars[i].width <= bars[j].width
    <3>1. PICK u \in Nat, v \in Nat :
            u = entries[i].value /\ v = entries[j].value /\ u <= v /\ v <= l
      BY <2>1, <2>3
    <3>2. BarWidth(u, l) <= BarWidth(v, l)
      BY <3>1, WidthIs
    <3> QED
      BY <1>9, <3>1, <3>2
  <2>4. ASSUME \A j \in 1..n : entries[j].value <= entries[i].value
        PROVE  bars[i].width = IF entries[i].value = 0 THEN 0 ELSE 100
    <3>1. l <= entries[i].value
      BY <1>4, <1>5, <1>6, <2>1, <2>4
    <3>2. entries[i].value = l
      BY <2>1, <3>1
    <3> QED
      BY <1>9, <3>2, WidthIs
  <2> QED
    BY <2>2, <2>3, <2>4
<1> QED
  BY <1>9, <1>10 DEF bars, BarsFit

LEMMA ChartsAre ==
  ASSUME NEW data
  PROVE  LET Label(i) == ShortServer(data.results[i].server) IN
         /\ DOMAIN RenderCharts(data) = {"uncached_avg_ms", "cached_avg_ms", "failure_rate"}
         /\ RenderCharts(data).uncached_avg_ms =
              RenderBarChart([i \in DOMAIN data.results |->
                [label |-> Label(i), value |-> data.results[i].uncached_avg_ms,
                 text |-> FormatMs(data.results[i].uncached_avg_ms)]])
         /\ RenderCharts(data).cached_avg_ms =
              RenderBarChart([i \in DOMAIN data.results |->
                [label |-> Label(i), value |-> data.results[i].cached_avg_ms,
                 text |-> FormatMs(data.results[i].cached_avg_ms)]])
         /\ RenderCharts(data).failure_rate =
              RenderBarChart([i \in DOMAIN data.results |->
                [label |-> Label(i), value |-> data.results[i].failure_rate,
                 text |-> FormatPct01(data.results[i].failure_rate)]])
BY DEF RenderCharts

(* The bars of every report compare its resolvers. *)
THEOREM BarsAreFaithful == Spec => []BarsFaithful
<1>1. ReportInv => BarsFaithful
  <2> SUFFICES ASSUME ReportInv, stage = "rendered", NEW field \in DOMAIN view.charts
               PROVE  LET bars == view.charts[field]
                          value(i) == Results[i][field]
                      IN \A i \in DOMAIN Results :
                           /\ bars[i].width \in 0..100
                           /\ bars[i].label = ShortServer(view.rows[i].cells[2])
                           /\ \A j \in DOMAIN Results :
                                value(i) <= value(j) => bars[i].width <= bars[j].width
                           /\ (\A j \in DOMAIN Results : value(j) <= value(i)) =>
                                bars[i].width = IF value(i) = 0 THEN 0 ELSE 100
    BY DEF BarsFaithful
  <2>0. PICK m \in Seq(Measurement) \ {<<>>} : m = measured
    BY ResponseHolds
  <2>1. PICK order, w : m = measured /\ IsResponse(response, m, order, w)
    BY <2>0, ResponseHolds
  <2>2. PICK n \in Nat \ {0} : n = Len(m)
    OBVIOUS
  <2>3. DOMAIN Results = 1..n /\ Results # <<>>
    BY <2>1, <2>2 DEF IsResponse, Results
  <2>4. ASSUME NEW k \in 1..n
        PROVE  /\ Results[k].uncached_avg_ms \in Nat /\ Results[k].cached_avg_ms \in Nat
               /\ Results[k].failure_rate \in Nat
    <3>1. \A f \in Measures : Results[k][f] = Bench(m, order[k])[f]
      BY <2>1, <2>2 DEF IsResponse, Results
    <3>2. order[k] \in 1..n /\ m[order[k]] \in Measurement
      BY <2>1, <2>2 DEF IsResponse, IsRanking
    <3>3. Figures(Bench(m, order[k]))
      BY <3>2, BenchmarkIs DEF Bench
    <3> QED
      BY <3>1, <3>3 DEF Measures, Figures
  <2>5. view = Rendered(response)
    BY DEF ReportInv
  <2>6. view.charts = RenderCharts(response) /\ view.rows = RenderResultsTable(response)
    BY <2>5 DEF Rendered
  <2>7. \A i \in 1..n : view.rows[i].cells[2] = Results[i].server
    BY <2>3, <2>6 DEF RenderResultsTable, ResultRow, Results
  <2>8. PICK entries :
          /\ view.charts[field] = RenderBarChart(entries) /\ DOMAIN entries = 1..n
          /\ \A i \in 1..n : /\ entries[i].label = ShortServer(Results[i].server)
                              /\ entries[i].value = Results[i][field]
                              /\ entries[i].value \in Nat
    <3>1. CASE field = "uncached_avg_ms"
      <4> DEFINE entries == [i \in DOMAIN Results |->
                               [label |-> ShortServer(Results[i].server),
                                value |-> Results[i].uncached_avg_ms,
                                text |-> FormatMs(Results[i].uncached_avg_ms)]]
      <4>1. view.charts[field] = RenderBarChart(entries)
        BY <2>6, <3>1, ChartsAre DEF Results
      <4>2. /\ DOMAIN entries = 1..n
            /\ \A i \in 1..n : /\ entries[i].label = ShortServer(Results[i].server)
                                /\ entries[i].value = Results[i][field]
                                /\ entries[i].value \in Nat
        BY <2>3, <2>4, <3>1
      <4> QED
        BY <4>1, <4>2
    <3>2. CASE field = "cached_avg_ms"
      <4> DEFINE entries == [i \in DOMAIN Results |->
                               [label |-> ShortServer(Results[i].server),
                                value |-> Results[i].cached_avg_ms,
                                text |-> FormatMs(Results[i].cached_avg_ms)]]
      <4>1. view.charts[field] = RenderBarChart(entries)
        BY <2>6, <3>2, ChartsAre DEF Results
      <4>2. /\ DOMAIN entries = 1..n
            /\ \A i \in 1..n : /\ entries[i].label = ShortServer(Results[i].server)
                                /\ entries[i].value = Results[i][field]
                                /\ entries[i].value \in Nat
        BY <2>3, <2>4, <3>2
      <4> QED
        BY <4>1, <4>2
    <3>3. CASE field = "failure_rate"
      <4> DEFINE entries == [i \in DOMAIN Results |->
                               [label |-> ShortServer(Results[i].server),
                                value |-> Results[i].failure_rate,
                                text |-> FormatPct01(Results[i].failure_rate)]]
      <4>1. view.charts[field] = RenderBarChart(entries)
        BY <2>6, <3>3, ChartsAre DEF Results
      <4>2. /\ DOMAIN entries = 1..n
            /\ \A i \in 1..n : /\ entries[i].label = ShortServer(Results[i].server)
                                /\ entries[i].value = Results[i][field]
                                /\ entries[i].value \in Nat
        BY <2>3, <2>4, <3>3
      <4> QED
        BY <4>1, <4>2
    <3> QED
      BY <2>6, <3>1, <3>2, <3>3, ChartsAre
  <2>9. BarsFit(view.charts[field], entries, n)
    BY <2>8, BarsAre
  <2> DEFINE bars == view.charts[field]
  <2>10. ASSUME NEW i \in DOMAIN Results
         PROVE  /\ bars[i].width \in 0..100
                /\ bars[i].label = ShortServer(view.rows[i].cells[2])
                /\ \A j \in DOMAIN Results : Results[i][field] <= Results[j][field] =>
                     bars[i].width <= bars[j].width
                /\ (\A j \in DOMAIN Results : Results[j][field] <= Results[i][field]) =>
                     bars[i].width = IF Results[i][field] = 0 THEN 0 ELSE 100
    <3> HIDE DEF bars
    <3>1. /\ bars[i].label = entries[i].label /\ bars[i].width \in 0..100
          /\ \A j \in 1..n : entries[i].value <= entries[j].value =>
               bars[i].width <= bars[j].width
          /\ (\A j \in 1..n : entries[j].value <= entries[i].value) =>
               bars[i].width = IF entries[i].value = 0 THEN 0 ELSE 100
      BY <2>3, <2>9 DEF BarsFit, bars
    <3>2. \A j \in 1..n : entries[j].value = Results[j][field]
      BY <2>8
    <3>3. bars[i].label = ShortServer(view.rows[i].cells[2])
      BY <2>3, <2>7, <2>8, <3>1
    <3> QED
      BY <2>3, <3>1, <3>2, <3>3
  <2> QED
    BY Zenon, <2>10
<1> QED
  BY <1>1, ReportInvariant, PTL

-----------------------------------------------------------------------------
(* Diagnostics. *)

LEMMA ReversedIs ==
  ASSUME NEW S, NEW s \in Seq(S)
  PROVE  /\ Reverse(s) \in Seq(S) /\ Len(Reverse(s)) = Len(s)
         /\ \A i \in 1..Len(s) : Reverse(s)[i] = s[Len(s) + 1 - i]
<1>1. Len(s) \in Nat
  OBVIOUS
<1>2. \A i \in 1..Len(s) : Reverse(s)[i] = s[Len(s) - i + 1]
  BY <1>1 DEF Reverse
<1>3. \A i \in 1..Len(s) : Len(s) - i + 1 = Len(s) + 1 - i
  BY <1>1
<1> QED
  BY <1>2, <1>3, ReverseIs

(* As many places have a property when they are numbered the other way round. *)
LEMMA ReversedCount ==
  ASSUME NEW n \in Nat, NEW S \in SUBSET (1..n)
  PROVE  /\ IsFiniteSet(S) /\ Cardinality(S) \in Nat /\ Cardinality(S) <= n
         /\ Cardinality({i \in 1..n : n + 1 - i \in S}) = Cardinality(S)
<1> DEFINE T == {i \in 1..n : n + 1 - i \in S}
           f == [i \in S |-> n + 1 - i]
<1>1. IsFiniteSet(S) /\ Cardinality(S) \in Nat /\ Cardinality(S) <= n
  <2>1. IsFiniteSet(1..n) /\ Cardinality(1..n) = n
    BY FS_Interval
  <2> QED
    BY <2>1, FS_Subset, FS_CardinalityType
<1>2. f \in [S -> T]
  BY Z3
<1>3. \A a, b \in S : f[a] = f[b] => a = b
  OBVIOUS
<1>4. \A t \in T : \E x \in S : f[x] = t
  <2> TAKE t \in T
  <2>1. n + 1 - t \in S /\ f[n + 1 - t] = t
    OBVIOUS
  <2> QED
    BY <2>1
<1>5. ExistsBijection(S, T)
  <2> HIDE DEF f, T
  <2>1. f \in Bijection(S, T)
    BY <1>2, <1>3, <1>4 DEF Bijection, Injection, IsInjective, Surjection
  <2> QED
    BY <2>1 DEF ExistsBijection
<1> HIDE DEF T
<1>6. Cardinality(T) = Cardinality(S)
  BY <1>1, <1>5, FS_Bijection
<1> QED
  BY <1>1, <1>6 DEF T

LEMMA FirstRedirected ==
  ASSUME NEW o, NEW n \in Nat, Len(o) = n
  PROVE  LET first == SelectInSeq(o, Redirected) IN
         /\ first \in 0..n
         /\ first = 0 <=> \A i \in 1..n : ~Redirected(o[i])
<1> DEFINE E == {i \in 1..n : Redirected(o[i])}
           first == SelectInSeq(o, Redirected)
<1>1. first = IF E # {} THEN Min(E) ELSE 0
  BY DEF SelectInSeq
<1>2. E \in SUBSET Nat /\ E \subseteq 1..n
  OBVIOUS
<1>3. E = {} <=> \A i \in 1..n : ~Redirected(o[i])
  OBVIOUS
<1> HIDE DEF E, first
<1>4. E # {} => first \in E
  BY <1>1, <1>2, LeastNatural
<1>5. first \in 0..n /\ (first = 0 <=> E = {})
  <2>1. \A k \in 1..n : k \in 0..n /\ k # 0
    OBVIOUS
  <2>2. 0 \in 0..n
    OBVIOUS
  <2> QED
    BY <1>1, <1>2, <1>4, <2>1, <2>2
<1> QED
  BY <1>3, <1>5 DEF first

(* What is said of a server adds up; it depends on how many probes were     *)
(* answered how, and a redirected one ends the count.                       *)
Cleans(o) == {i \in DOMAIN o : Clean(o[i])}
Errors(o) == {i \in DOMAIN o : o[i].err}
IsHijacked(o) == \E i \in DOMAIN o : Redirected(o[i])

LEMMA ClassificationIs ==
  ASSUME NEW o \in Seq(Observation)
  PROVE  LET v == ClassifyResolverIntegrity(o)
             counted == v.clean + v.anomalies + v.errors
         IN /\ counted <= v.probes /\ (counted < v.probes => v.status = "hijacked")
            /\ v.status = IF IsHijacked(o) THEN "hijacked"
                          ELSE IntegrityStatus(FALSE, Len(o), Cardinality(Cleans(o)),
                                               Cardinality(Errors(o)))
<1>1. PICK n \in Nat : n = Len(o) /\ DOMAIN o = 1..n
  OBVIOUS
<1> DEFINE first == SelectInSeq(o, Redirected)
           counted == IF first = 0 THEN DOMAIN o ELSE 1..first
           v == ClassifyResolverIntegrity(o)
           clean == Cardinality({i \in counted : Clean(o[i])})
           errors == Cardinality({i \in counted : o[i].err})
<1>2. /\ v.status = IntegrityStatus(first # 0, n, clean, errors) /\ v.probes = n
      /\ v.clean = clean /\ v.errors = errors
      /\ v.anomalies = Cardinality(counted) - clean - errors
  BY <1>1 DEF ClassifyResolverIntegrity, Verdict
<1>3. first \in 0..n /\ (first = 0 <=> ~IsHijacked(o))
  BY <1>1, FirstRedirected DEF IsHijacked
<1> HIDE DEF v, first
<1>4. /\ counted \in SUBSET (1..n)
      /\ Cardinality(counted) = IF first = 0 THEN n ELSE first
  <2>1. \A k \in Nat : Cardinality(1..k) = k
    <3> TAKE k \in Nat
    <3> QED
      BY FS_Interval
  <2> QED
    BY <1>1, <1>3, <2>1
<1>5. clean \in Nat /\ errors \in Nat
  <2> HIDE DEF counted
  <2>1. {i \in counted : Clean(o[i])} \in SUBSET (1..n)
          /\ {i \in counted : o[i].err} \in SUBSET (1..n)
    BY <1>4
  <2> QED
    BY <2>1, ReversedCount
<1>6. first = 0 => clean = Cardinality(Cleans(o)) /\ errors = Cardinality(Errors(o))
  BY DEF Cleans, Errors
<1> HIDE DEF clean, errors, counted
<1>7. v.clean + v.anomalies + v.errors = IF first = 0 THEN n ELSE first
  <2>1. PICK a \in Nat, b \in Nat : a = clean /\ b = errors
    BY <1>5
  <2>2. PICK c \in Nat : c = IF first = 0 THEN n ELSE first
    BY <1>3
  <2>3. v.clean = a /\ v.errors = b /\ v.anomalies = c - a - b
    BY <1>2, <1>4, <2>1, <2>2
  <2> QED
    BY <2>2, <2>3
<1>8. first # 0 => v.status = "hijacked"
  BY <1>2 DEF IntegrityStatus
<1>9. first = 0 => v.status = IntegrityStatus(FALSE, n, clean, errors)
  BY <1>2
<1>10. LET sum == v.clean + v.anomalies + v.errors
       IN sum <= v.probes /\ (sum < v.probes => v.status = "hijacked")
  BY <1>2, <1>3, <1>7, <1>8
<1>11. v.status = IF IsHijacked(o) THEN "hijacked"
                  ELSE IntegrityStatus(FALSE, Len(o), Cardinality(Cleans(o)),
                                       Cardinality(Errors(o)))
  BY <1>1, <1>3, <1>6, <1>8, <1>9
<1> QED
  BY <1>10, <1>11 DEF v

LEMMA OrderDoesNotMatter ==
  ASSUME NEW o \in Seq(Observation)
  PROVE  ClassifyResolverIntegrity(Reverse(o)).status = ClassifyResolverIntegrity(o).status
<1>1. PICK n \in Nat : n = Len(o) /\ DOMAIN o = 1..n
  OBVIOUS
<1>2. PICK r \in Seq(Observation) :
        r = Reverse(o) /\ Len(r) = n /\ \A i \in 1..n : r[i] = o[n + 1 - i]
  BY <1>1, ReversedIs
<1>3. DOMAIN r = 1..n
  BY <1>2
<1>4. Cardinality(Cleans(r)) = Cardinality(Cleans(o))
  <2>1. Cleans(r) = {i \in 1..n : n + 1 - i \in Cleans(o)}
    BY <1>1, <1>2, <1>3 DEF Cleans
  <2>2. Cleans(o) \in SUBSET (1..n)
    BY <1>1 DEF Cleans
  <2> QED
    BY <2>1, <2>2, ReversedCount
<1>5. Cardinality(Errors(r)) = Cardinality(Errors(o))
  <2>1. Errors(r) = {i \in 1..n : n + 1 - i \in Errors(o)}
    BY <1>1, <1>2, <1>3 DEF Errors
  <2>2. Errors(o) \in SUBSET (1..n)
    BY <1>1 DEF Errors
  <2> QED
    BY <2>1, <2>2, ReversedCount
<1>6. IsHijacked(r) <=> IsHijacked(o)
  <2>1. \A i \in 1..n : n + 1 - i \in 1..n /\ n + 1 - (n + 1 - i) = i
    OBVIOUS
  <2>2. \A i \in 1..n : o[i] = r[n + 1 - i]
    BY <1>2, <2>1
  <2> QED
    BY <1>1, <1>2, <1>3, <2>1, <2>2 DEF IsHijacked
<1> QED
  BY <1>1, <1>2, <1>4, <1>5, <1>6, ClassificationIs

LEMMA DisjointCount ==
  ASSUME NEW S, NEW T, IsFiniteSet(S), IsFiniteSet(T), S \intersect T = {}
  PROVE  /\ IsFiniteSet(S \union T) /\ Cardinality(S \union T) \in Nat
         /\ Cardinality(S \union T) = Cardinality(S) + Cardinality(T)
<1>1. /\ IsFiniteSet(S \union T)
      /\ Cardinality(S \union T) = Cardinality(S) + Cardinality(T) - Cardinality(S \intersect T)
  BY FS_Union
<1>2. Cardinality(S \intersect T) = 0
  BY FS_EmptySet
<1>3. PICK a \in Nat, b \in Nat : a = Cardinality(S) /\ b = Cardinality(T)
  BY FS_CardinalityType
<1>4. Cardinality(S \union T) = a + b - 0
  BY <1>1, <1>2, <1>3
<1> QED
  BY <1>1, <1>3, <1>4

Having(results, n, status) == {i \in 1..n : results[i].integrity = status}

LEMMA FourParts ==
  ASSUME NEW n \in Nat, NEW results, \A i \in 1..n : results[i].integrity \in Statuses
  PROVE  \E a, b, c, d \in Nat :
           /\ a = Cardinality(Having(results, n, "clean"))
           /\ b = Cardinality(Having(results, n, "suspicious"))
           /\ c = Cardinality(Having(results, n, "hijacked"))
           /\ d = Cardinality(Having(results, n, "unknown"))
           /\ a + (b + c + d) = n
           /\ b + c + d = Cardinality((1..n) \ Having(results, n, "clean"))
<1> DEFINE A == Having(results, n, "clean")
           B == Having(results, n, "suspicious")
           C == Having(results, n, "hijacked")
           D == Having(results, n, "unknown")
<1>1. /\ (1..n) \ A = (B \union C) \union D /\ (B \union C) \intersect D = {}
      /\ B \intersect C = {} /\ (1..n) \intersect A = A
  BY DEF Statuses, Having
<1>2. A \in SUBSET (1..n) /\ B \in SUBSET (1..n) /\ C \in SUBSET (1..n) /\ D \in SUBSET (1..n)
  BY DEF Having
<1> HIDE DEF A, B, C, D
<1>3. IsFiniteSet(1..n) /\ Cardinality(1..n) = n
  BY FS_Interval
<1>4. IsFiniteSet(A) /\ IsFiniteSet(B) /\ IsFiniteSet(C) /\ IsFiniteSet(D)
  BY <1>2, ReversedCount
<1>5. PICK a \in Nat, b \in Nat, c \in Nat, d \in Nat :
        a = Cardinality(A) /\ b = Cardinality(B) /\ c = Cardinality(C) /\ d = Cardinality(D)
  BY <1>2, ReversedCount
<1>6. IsFiniteSet(B \union C) /\ Cardinality(B \union C) = b + c
  BY <1>1, <1>4, <1>5, DisjointCount
<1>7. Cardinality((B \union C) \union D) = (b + c) + d
  BY <1>1, <1>4, <1>5, <1>6, DisjointCount
<1>8. Cardinality((1..n) \ A) = n - a
  BY <1>1, <1>3, <1>5, FS_Difference
<1>9. b + c + d = n - a
  BY <1>1, <1>7, <1>8
<1>10. a + (b + c + d) = n /\ b + c + d = Cardinality((1..n) \ A)
  BY <1>8, <1>9
<1> QED
  BY <1>5, <1>10 DEF A, B, C, D

(* The diagnostics of every report add up. *)
THEOREM DiagnosticsAreRight == Spec => []DiagnosticsAddUp
<1>1. ReportInv => DiagnosticsAddUp
  <2> SUFFICES ASSUME ReportInv, stage = "rendered" PROVE DiagnosticsAddUp
    BY DEF DiagnosticsAddUp
  <2>0. PICK m \in Seq(Measurement) \ {<<>>} : m = measured
    BY ResponseHolds
  <2>1. PICK order, w : m = measured /\ IsResponse(response, m, order, w)
    BY <2>0, ResponseHolds
  <2>2. PICK n \in Nat \ {0} : n = Len(m)
    OBVIOUS
  <2>3. DOMAIN Results = 1..n /\ Len(Results) = n
    BY <2>1, <2>2 DEF IsResponse, Results
  <2>4. ASSUME NEW k \in 1..n
        PROVE  LET r == Results[k]
                   o == m[r.server].probes
                   v == ClassifyResolverIntegrity(o)
               IN /\ o \in Seq(Observation)
                  /\ r.integrity \in Statuses /\ r.integrity = v.status
                  /\ r.integrity_probe_count = v.probes /\ r.integrity_clean_count = v.clean
                  /\ r.integrity_error_count = v.errors
                  /\ r.integrity_anomaly_count = v.anomalies
    <3>1. \A field \in Measures : Results[k][field] = Bench(m, order[k])[field]
      BY <2>1, <2>2 DEF IsResponse, Results
    <3>2. order[k] \in 1..n /\ m[order[k]] \in Measurement
      BY <2>1, <2>2 DEF IsResponse, IsRanking
    <3>3. /\ Figures(Bench(m, order[k])) /\ Bench(m, order[k]).server = order[k]
          /\ LET b == Bench(m, order[k])
                 v == ClassifyResolverIntegrity(m[order[k]].probes)
             IN /\ b.integrity = v.status
                /\ b.integrity_probe_count = v.probes /\ b.integrity_clean_count = v.clean
                /\ b.integrity_error_count = v.errors
                /\ b.integrity_anomaly_count = v.anomalies
      BY <3>2, BenchmarkIs DEF Bench
    <3>4. m[order[k]].probes \in Seq(Observation)
      BY <3>2 DEF Measurement
    <3> QED
      BY <3>1, <3>3, <3>4 DEF Measures, Figures
  <2> DEFINE Of(status) == Having(Results, n, status)
             places == (1..n) \ Of("clean")
             shown == view.diagnostics
  <2>5. PICK places2 \in SUBSET (1..n) : places2 = places
    OBVIOUS
  <2>6. PICK at : IsPicking(at, Results, n, places2)
    BY PickedIs
  <2>7. /\ shown.list = [i \in DOMAIN Picked(Results, places2) |->
                           DiagnosticRow(Picked(Results, places2)[i])]
        /\ shown.counts = [status \in Statuses |-> Cardinality(Of(status))]
    <3>1. shown = RenderDiagnostics(response)
      BY DEF ReportInv, Rendered
    <3>2. \A status : Of(status) = {i \in DOMAIN Results : Results[i].integrity = status}
      BY <2>3 DEF Having
    <3>3. places2 = DOMAIN Results \ {i \in DOMAIN Results : Results[i].integrity = "clean"}
      BY <2>3, <2>5 DEF Having
    <3> HIDE DEF shown, With, places
    <3> QED
      BY <3>1, <3>2, <3>3 DEF RenderDiagnostics, SetDiagnosticsSummary, Results
  <2> HIDE DEF shown
  <2>8. LET flagged == shown.counts.suspicious + shown.counts.hijacked
                         + shown.counts.unknown
        IN shown.counts.clean + flagged = Len(Results) /\ Len(shown.list) = flagged
    <3>1. \A i \in 1..n : Results[i].integrity \in Statuses
      BY <2>4
    <3>2. PICK a, b, c, d \in Nat :
            /\ a = Cardinality(Of("clean")) /\ b = Cardinality(Of("suspicious"))
            /\ c = Cardinality(Of("hijacked")) /\ d = Cardinality(Of("unknown"))
            /\ a + (b + c + d) = n /\ b + c + d = Cardinality(places)
      <4>1. \E a, b, c, d \in Nat :
              /\ a = Cardinality(Having(Results, n, "clean"))
              /\ b = Cardinality(Having(Results, n, "suspicious"))
              /\ c = Cardinality(Having(Results, n, "hijacked"))
              /\ d = Cardinality(Having(Results, n, "unknown"))
              /\ a + (b + c + d) = n
              /\ b + c + d = Cardinality((1..n) \ Having(Results, n, "clean"))
        BY Zenon, <2>2, <3>1, FourParts
      <4> QED
        BY Zenon, <4>1
    <3>3. Len(shown.list) = Cardinality(places)
      <4>1. PICK l \in Nat : l = Cardinality(places)
        BY <2>5, <2>6 DEF IsPicking
      <4>2. DOMAIN Picked(Results, places2) = 1..l
        BY <2>5, <2>6, <4>1 DEF IsPicking
      <4> HIDE DEF places
      <4> QED
        BY <2>7, <4>1, <4>2
    <3> HIDE DEF With, places
    <3>4. /\ shown.counts.clean = Cardinality(Of("clean"))
          /\ shown.counts.suspicious = Cardinality(Of("suspicious"))
          /\ shown.counts.hijacked = Cardinality(Of("hijacked"))
          /\ shown.counts.unknown = Cardinality(Of("unknown"))
      BY <2>7 DEF Statuses
    <3> QED
      BY <2>3, <3>2, <3>3, <3>4
  <2>9. ASSUME NEW i \in DOMAIN shown.list
        PROVE  LET row == shown.list[i]
                   counted == row.clean + row.anomalies + row.errors
               IN /\ row.status # "clean" /\ counted <= row.probes
                  /\ counted < row.probes => row.status = "hijacked"
    <3>1. PICK k \in 1..n : /\ Results[k].integrity # "clean"
                            /\ shown.list[i] = DiagnosticRow(Results[k])
      <4>1. /\ DOMAIN Picked(Results, places2) = 1..Cardinality(places2)
            /\ \A j \in 1..Cardinality(places2) :
                 at[j] \in places2 /\ Picked(Results, places2)[j] = Results[at[j]]
        BY <2>6 DEF IsPicking
      <4>2. i \in 1..Cardinality(places2)
        BY <2>7, <4>1
      <4>3. at[i] \in 1..n /\ Results[at[i]].integrity # "clean"
        BY <2>5, <4>1, <4>2 DEF Having
      <4> QED
        BY <2>7, <4>1, <4>2, <4>3
    <3>2. PICK r : r = Results[k]
      OBVIOUS
    <3>3. PICK o \in Seq(Observation) :
            LET v == ClassifyResolverIntegrity(o) IN
            /\ r.integrity = v.status
            /\ r.integrity_probe_count = v.probes /\ r.integrity_clean_count = v.clean
            /\ r.integrity_error_count = v.errors /\ r.integrity_anomaly_count = v.anomalies
      BY <2>4, <3>2
    <3>4. LET counted == r.integrity_clean_count + r.integrity_anomaly_count
                           + r.integrity_error_count
          IN /\ counted <= r.integrity_probe_count
             /\ counted < r.integrity_probe_count => r.integrity = "hijacked"
      BY <3>3, ClassificationIs
    <3>5. LET row == shown.list[i] IN
          /\ row.status = r.integrity /\ row.probes = r.integrity_probe_count
          /\ row.clean = r.integrity_clean_count /\ row.errors = r.integrity_error_count
          /\ row.anomalies = r.integrity_anomaly_count
      BY <3>1, <3>2 DEF DiagnosticRow
    <3> QED
      BY <3>1, <3>2, <3>4, <3>5
  <2>10. \A i \in DOMAIN Results :
           LET probes == measured[Results[i].server].probes IN
           ClassifyResolverIntegrity(Reverse(probes)).status = Results[i].integrity
    BY <2>1, <2>3, <2>4, OrderDoesNotMatter
  <2> QED
    BY Zenon, <2>8, <2>9, <2>10 DEF DiagnosticsAddUp, shown
<1> QED
  BY <1>1, ReportInvariant, PTL

-----------------------------------------------------------------------------
(* Views. *)

(* The servers of a response are distinct: one of them is the winner. *)
LEMMA OneWinner ==
  ASSUME NEW data, NEW n \in Nat, NEW w \in 1..n,
         Len(data.results) = n, data.results[w].server = data.winner,
         \A i \in 1..n : data.results[i].server = data.winner => i = w
  PROVE  /\ WinnerPlace(data) = w
         /\ \A i \in 1..n : IsWinner(data, data.results[i]) <=> i = w
<1>1. \A i \in 1..n : IsWinner(data, data.results[i]) <=> i = w
  BY DEF IsWinner
<1> DEFINE E == {i \in 1..n : IsWinner(data, data.results[i])}
<1>2. WinnerPlace(data) = IF E # {} THEN Min(E) ELSE 0
  BY DEF WinnerPlace, SelectInSeq
<1>3. E = {w}
  BY <1>1
<1>4. E \in SUBSET Nat
  OBVIOUS
<1> HIDE DEF E
<1>5. Min(E) \in E
  BY <1>3, <1>4, LeastNatural
<1> QED
  BY <1>1, <1>2, <1>3, <1>5

SameCells(cells, line, csv) ==
  /\ \A c \in 1..2 : line[c] = cells[c] /\ csv[c] = cells[c]
  /\ \A c \in 4..9 : line[c - 1] = cells[c]
  /\ \A c \in 4..8 : csv[c + 2] = cells[c]
  /\ \A c \in 10..11 : csv[c + 2] = cells[c]

LEMMA CellsAre ==
  ASSUME NEW data, NEW r
  PROVE  LET cells == ResultRow(data, r).cells
             csv == CsvRow(r)
             line == <<r.rank, r.server, FormatMs(r.score), FormatMs(r.uncached_avg_ms),
                       FormatMs(r.cached_avg_ms), FormatMs(r.jitter_ms), r.integrity,
                       FormatPct01(r.failure_rate)>>
         IN /\ cells[2] = r.server /\ cells[3] = FormatResolverTag(r)
            /\ cells[4] = FormatMs(r.score) /\ cells[8] = r.integrity
            /\ SameCells(cells, line, csv)
BY DEF ResultRow, CsvRow, SameCells

(* Every view of every report tells the same. *)
THEOREM AllViewsAgree == Spec => []ViewsAgree
<1>1. ReportInv => ViewsAgree
  <2> SUFFICES ASSUME ReportInv, stage = "rendered" PROVE ViewsAgree
    BY DEF ViewsAgree
  <2>0. PICK m \in Seq(Measurement) \ {<<>>} : m = measured
    BY ResponseHolds
  <2>1. PICK order, w : m = measured /\ IsResponse(response, m, order, w)
    BY <2>0, ResponseHolds
  <2>2. PICK n \in Nat \ {0} : n = Len(m)
    OBVIOUS
  <2>3. /\ DOMAIN Results = 1..n /\ Len(Results) = n /\ Results # <<>> /\ w \in 1..n
        /\ response.winner = order[w]
    <3>1. DOMAIN Results = 1..n /\ Len(Results) = n /\ w \in 1..n /\ response.winner = order[w]
      BY <2>1, <2>2 DEF IsResponse, Results
    <3> QED
      BY <3>1
  <2>4. ASSUME NEW k \in 1..n PROVE Results[k].server = order[k] /\ order[k] \in 1..n
    <3>1. Results[k].server = Bench(m, order[k]).server
      BY <2>1, <2>2 DEF IsResponse, Results, Measures
    <3>2. order[k] \in 1..n /\ m[order[k]] \in Measurement
      BY <2>1, <2>2 DEF IsResponse, IsRanking
    <3>3. Bench(m, order[k]).server = order[k]
      BY <3>2, BenchmarkIs DEF Bench
    <3> QED
      BY <3>1, <3>2, <3>3
  <2>5. \A i \in 1..n : Results[i].server = response.winner => i = w
    <3>1. \A i, j \in 1..n : order[i] = order[j] => i = j
      BY <2>1, <2>2 DEF IsResponse, IsRanking
    <3> QED
      BY <2>3, <2>4, <3>1
  <2>6. /\ WinnerPlace(response) = w
        /\ \A i \in 1..n : IsWinner(response, Results[i]) <=> i = w
    BY <2>3, <2>4, <2>5, OneWinner DEF Results
  <2>7. response.winner # None /\ w # 0
    BY <2>3, <2>4 DEF None
  <2>8. view = Rendered(response)
    BY DEF ReportInv
  <2> DEFINE name == ShortServer(response.winner)
             best == Results[w]
  <2>9. /\ view.metrics.server = name /\ view.banner.winner = name
        /\ view.banner.tag = FormatResolverTag(best) /\ view.log.winner = response.winner
    <3>1. view.metrics.server = name
      BY <2>8 DEF Rendered, UpdateMetrics
    <3>2. view.banner.winner = name /\ view.banner.tag = FormatResolverTag(best)
      BY <2>6, <2>7, <2>8 DEF Rendered, UpdateWinnerBanner, Results
    <3>3. view.log.winner = response.winner
      BY <2>8 DEF Rendered, BuildLogText
    <3> QED
      BY <3>1, <3>2, <3>3
  <2>10. /\ view.cards.winner.value = name
         /\ view.cards.winner.detail = <<FormatMs(best.score), best.integrity>>
    <3>1. Recommended(response) = best /\ best.server = response.winner
      BY <2>3, <2>4, <2>6, <2>7 DEF Recommended, Results
    <3>2. view.cards = UpdateSummaryCards(response)
      BY <2>8 DEF Rendered
    <3>3. view.cards.winner = SummaryCard(ShortServer(best.server),
                                          <<FormatMs(best.score), best.integrity>>)
      <4> HIDE DEF best
      <4> QED
        BY <2>3, <3>1, <3>2 DEF UpdateSummaryCards, Results
    <3> QED
      BY <3>1, <3>3 DEF SummaryCard
  <2>11. /\ DOMAIN view.rows = 1..n
         /\ \A i \in 1..n : /\ view.rows[i] = ResultRow(response, Results[i])
                            /\ view.rows[i].winner_row <=> i = w
    <3>1. view.rows = [i \in DOMAIN Results |-> ResultRow(response, Results[i])]
      BY <2>3, <2>8 DEF Rendered, RenderResultsTable, Results
    <3> QED
      BY <2>3, <2>6, <3>1 DEF ResultRow
  <2> DEFINE winners == {i \in DOMAIN view.rows : view.rows[i].winner_row}
  <2>12. winners = {w} /\ Cardinality(winners) = 1
    <3>1. winners = {w}
      BY <2>3, <2>11
    <3> QED
      BY <3>1, FS_Singleton
  <2>13. \A i \in 1..n : view.log.lines[i] =
           LET r == Results[i]
           IN <<r.rank, r.server, FormatMs(r.score), FormatMs(r.uncached_avg_ms),
                FormatMs(r.cached_avg_ms), FormatMs(r.jitter_ms), r.integrity,
                FormatPct01(r.failure_rate)>>
    BY <2>3, <2>8 DEF Rendered, BuildLogText, Results
  <2>14. \A i \in 1..n : view.csv[i + 1] = CsvRow(Results[i])
    <3> DEFINE rows == [i \in DOMAIN Results |-> CsvRow(Results[i])]
    <3>1. view.csv = <<CsvHeader>> \o rows
      BY <2>8 DEF Rendered, ExportCsv, BuildCsv, Results
    <3>2. rows \in Seq({CsvRow(Results[i]) : i \in 1..n}) /\ Len(rows) = n
      BY <2>3
    <3>3. <<CsvHeader>> \in Seq({CsvHeader}) /\ Len(<<CsvHeader>>) = 1
      OBVIOUS
    <3> TAKE i \in 1..n
    <3>4. rows[i] = CsvRow(Results[i])
      BY <2>3
    <3> HIDE DEF rows
    <3>5. (<<CsvHeader>> \o rows)[i + 1] = rows[i]
      BY <3>2, <3>3
    <3> QED
      BY <3>1, <3>4, <3>5
  <2>15. ASSUME NEW i \in winners
         PROVE  LET cells == view.rows[i].cells IN
                /\ cells[2] = response.winner
                /\ view.cards.winner.detail = <<cells[4], cells[8]>>
                /\ view.banner.tag = cells[3]
    <3>1. i = w
      BY <2>12
    <3>2. view.rows[w] = ResultRow(response, best)
      BY <2>3, <2>11
    <3>3. best.server = response.winner
      BY <2>3, <2>4
    <3> HIDE DEF best
    <3> QED
      BY ZenonT(30), <2>9, <2>10, <3>1, <3>2, <3>3, CellsAre
  <2>16. ASSUME NEW i \in DOMAIN Results
         PROVE  SameCells(view.rows[i].cells, view.log.lines[i], view.csv[i + 1])
    <3>1. i \in 1..n
      BY <2>3
    <3>2. PICK r : r = Results[i]
      OBVIOUS
    <3>3. view.rows[i] = ResultRow(response, r) /\ view.csv[i + 1] = CsvRow(r)
      BY <2>11, <2>14, <3>1, <3>2
    <3>4. view.log.lines[i] =
            <<r.rank, r.server, FormatMs(r.score), FormatMs(r.uncached_avg_ms),
              FormatMs(r.cached_avg_ms), FormatMs(r.jitter_ms), r.integrity,
              FormatPct01(r.failure_rate)>>
      BY <2>13, <3>1, <3>2
    <3> QED
      BY <3>3, <3>4, CellsAre
  <2> QED
    BY Zenon, <2>9, <2>10, <2>12, <2>15, <2>16 DEF ViewsAgree, SameCells, winners, name
<1> QED
  BY <1>1, ReportInvariant, PTL

-----------------------------------------------------------------------------
(* Metadata. *)

Metas == {Merged(lookup.ripe, lookup.rdap) : lookup \in Lookup}
Cache == UNION {[addresses -> Metas] : addresses \in SUBSET Address}
Enriching == [cache : Cache, rows : Seq(Metas \union {Unknown}), warned : SUBSET Nat]
Enriched(start) == [cache |-> start, rows |-> <<>>, warned |-> {}]

Extends(d, c) == DOMAIN c \subseteq DOMAIN d /\ \A a \in DOMAIN c : d[a] = c[a]

LEMMA CountryKnown ==
  /\ Unknown.country = ""
  /\ \A meta \in Metas : meta.country # ""
<1>1. Unknown.country = ""
  BY DEF Unknown
<1>2. ASSUME NEW meta \in Metas PROVE meta.country # ""
  <2>1. PICK lookup \in Lookup : meta = Merged(lookup.ripe, lookup.rdap)
    BY <1>2 DEF Metas
  <2>2. meta.country = IF lookup.rdap.failed \/ lookup.rdap.country = "" THEN "--"
                       ELSE lookup.rdap.country
    BY <2>1 DEF Merged
  <2>3. "--" # ""
    OBVIOUS
  <2> QED
    BY <2>2, <2>3
<1> QED
  BY <1>1, <1>2

LEMMA LookupIs ==
  ASSUME NEW c \in Cache, NEW lookup \in Lookup
  PROVE  LET done == LookupResolverMetadata(c, lookup.address, lookup.ripe, lookup.rdap) IN
         /\ done.cache \in Cache /\ Extends(done.cache, c)
         /\ done.failed <=> lookup.address \notin DOMAIN done.cache
         /\ done.failed => lookup.ripe.failed /\ lookup.rdap.failed
         /\ ~done.failed => done.cache[lookup.address] \in Metas
<1> DEFINE a == lookup.address
           found == Merged(lookup.ripe, lookup.rdap)
           failed == lookup.ripe.failed /\ lookup.rdap.failed
           done == LookupResolverMetadata(c, a, lookup.ripe, lookup.rdap)
<1>1. a \in Address /\ found \in Metas
  BY DEF Lookup, Metas
<1>2. PICK addresses \in SUBSET Address : c \in [addresses -> Metas]
  BY DEF Cache
<1>3. DOMAIN c = addresses /\ \A x \in addresses : c[x] \in Metas
  BY <1>2
<1> HIDE DEF a, found
<1>4. CASE a \in DOMAIN c \/ failed
  <2>1. done.cache = c /\ (done.failed <=> a \notin DOMAIN c)
    BY <1>4 DEF LookupResolverMetadata, a
  <2> HIDE DEF done
  <2>2. Extends(c, c)
    BY DEF Extends
  <2> QED
    BY <1>3, <1>4, <2>1, <2>2 DEF done, a
<1>5. CASE ~(a \in DOMAIN c \/ failed)
  <2>1. done.cache = With(c, a, found) /\ done.failed = FALSE
    BY <1>5 DEF LookupResolverMetadata, a, found
  <2>2. With(c, a, found) \in [addresses \union {a} -> Metas]
    BY <1>1, <1>3 DEF With
  <2>3. addresses \union {a} \in SUBSET Address
    BY <1>1
  <2>4. With(c, a, found) \in Cache
    BY <2>2, <2>3 DEF Cache
  <2>5. Extends(With(c, a, found), c)
    BY <1>3, <1>5 DEF With, Extends
  <2>6. a \in DOMAIN With(c, a, found) /\ With(c, a, found)[a] = found
    BY DEF With
  <2> HIDE DEF done
  <2> QED
    BY <1>1, <2>1, <2>4, <2>5, <2>6 DEF done, a
<1> QED
  BY <1>4, <1>5

IsNext(t, s, lookup) ==
  LET i == Len(s.rows) + 1 IN
  /\ Extends(t.cache, s.cache)
  /\ Len(t.rows) = i /\ \A j \in 1..Len(s.rows) : t.rows[j] = s.rows[j]
  /\ IF lookup.address \in DOMAIN t.cache
       THEN t.rows[i] = t.cache[lookup.address] /\ t.warned = s.warned
     ELSE /\ t.rows[i] = Unknown /\ t.warned = s.warned \union {i}
          /\ lookup.ripe.failed /\ lookup.rdap.failed

LEMMA EnrichIs ==
  ASSUME NEW s \in Enriching, NEW lookup \in Lookup
  PROVE  Enrich(s, lookup) \in Enriching /\ IsNext(Enrich(s, lookup), s, lookup)
<1> DEFINE done == LookupResolverMetadata(s.cache, lookup.address, lookup.ripe, lookup.rdap)
           t == Enrich(s, lookup)
           last == IF done.failed THEN Unknown ELSE done.cache[lookup.address]
<1>1. /\ s.cache \in Cache /\ s.rows \in Seq(Metas \union {Unknown})
      /\ s.warned \in SUBSET Nat /\ Len(s.rows) \in Nat
  BY DEF Enriching
<1>2. /\ done.cache \in Cache /\ Extends(done.cache, s.cache)
      /\ done.failed <=> lookup.address \notin DOMAIN done.cache
      /\ done.failed => lookup.ripe.failed /\ lookup.rdap.failed
      /\ ~done.failed => done.cache[lookup.address] \in Metas
  BY <1>1, LookupIs
<1> HIDE DEF done
<1>3. t = [cache |-> done.cache, rows |-> Append(s.rows, last),
           warned |-> IF done.failed THEN s.warned \union {Len(s.rows) + 1} ELSE s.warned]
  BY DEF Enrich, done
<1>4. last \in Metas \union {Unknown}
  BY <1>2
<1> HIDE DEF t, last
<1>5. PICK more : more = Append(s.rows, last)
  OBVIOUS
<1>6. /\ more \in Seq(Metas \union {Unknown}) /\ Len(more) = Len(s.rows) + 1
      /\ more[Len(s.rows) + 1] = last /\ \A j \in 1..Len(s.rows) : more[j] = s.rows[j]
  BY <1>1, <1>4, <1>5, AppendProperties
<1>7. PICK warned : warned = IF done.failed THEN s.warned \union {Len(s.rows) + 1} ELSE s.warned
  OBVIOUS
<1>8. warned \in SUBSET Nat
  BY <1>1, <1>7
<1>9. t = [cache |-> done.cache, rows |-> more, warned |-> warned]
  BY <1>3, <1>5, <1>7
<1>10. t \in Enriching
  BY <1>2, <1>6, <1>8, <1>9 DEF Enriching
<1>11. t.cache = done.cache /\ t.rows = more /\ t.warned = warned
  BY <1>9
<1>12. last = IF done.failed THEN Unknown ELSE done.cache[lookup.address]
  BY DEF last
<1> QED
  BY <1>2, <1>6, <1>7, <1>10, <1>11, <1>12 DEF t, IsNext

(* What enrichServerMetadata has, one server after the other. *)
LEMMA EnrichSteps ==
  ASSUME NEW lookups \in Seq(Lookup), NEW start \in Cache
  PROVE  \E acc \in [0..Len(lookups) -> Enriching] :
           /\ acc[0] = Enriched(start) /\ EnrichServerMetadata(start, lookups) = acc[Len(lookups)]
           /\ \A k \in 1..Len(lookups) : acc[k] = Enrich(acc[k - 1], lookups[k])
<1> DEFINE n == Len(lookups)
           X == Enriching
           base == Enriched(start)
           Eq(it) == it = [t \in SUBSET (1..n) |->
                             IF t = {} THEN base ELSE Enrich(it[t \ {Max(t)}], lookups[Max(t)])]
           iter == CHOOSE it : Eq(it)
<1>1. n \in Nat /\ DOMAIN lookups = 1..n /\ \A k \in 1..n : lookups[k] \in Lookup
  OBVIOUS
<1>2. EnrichServerMetadata(start, lookups) = iter[1..n]
  BY <1>1 DEF EnrichServerMetadata, Enriched, FoldLeft, MapThenFoldSet
<1>3. base \in X /\ \A y \in X, e \in Lookup : Enrich(y, e) \in X
  <2>1. base \in X
    <3>1. <<>> \in Seq(Metas \union {Unknown})
      OBVIOUS
    <3> QED
      BY <3>1 DEF Enriching, Enriched
  <2>2. ASSUME NEW y \in X, NEW e \in Lookup PROVE Enrich(y, e) \in X
    BY <2>2, EnrichIs
  <2> QED
    BY <2>1, <2>2
<1> HIDE DEF X, base
<1>4. PICK step \in [1..n -> [X -> X]] :
        \A k \in 1..n, y \in X : step[k][y] = Enrich(y, lookups[k])
  <2>1. [k \in 1..n |-> [y \in X |-> Enrich(y, lookups[k])]] \in [1..n -> [X -> X]]
    BY <1>1, <1>3
  <2> QED
    BY <2>1
<1>5. PICK it \in [SUBSET (1..n) -> X] : Iterates(it, base, step, n)
  BY <1>1, <1>3, <1>4, Iteration
<1>6. Eq(it)
  <2>1. ASSUME NEW t \in SUBSET (1..n), t # {}
        PROVE  it[t] = Enrich(it[t \ {Max(t)}], lookups[Max(t)])
    <3>1. Max(t) \in 1..n /\ t \ {Max(t)} \in SUBSET (1..n)
      BY <1>1, <2>1, IterationPlaces
    <3>2. it[t] = step[Max(t)][it[t \ {Max(t)}]]
      BY <1>5, <2>1 DEF Iterates
    <3> QED
      BY <1>4, <1>5, <3>1, <3>2
  <2> QED
    BY <1>5, <2>1 DEF Iterates
<1>7. Eq(iter)
  BY <1>6
<1> HIDE DEF iter
<1>8. iter[1..0] = base
  BY <1>1, <1>7, IterationPlaces
<1>9. ASSUME NEW k \in 1..n PROVE iter[1..k] = Enrich(iter[1..(k-1)], lookups[k])
  <2>1. 1..k # {} /\ 1..k \in SUBSET (1..n) /\ Max(1..k) = k /\ (1..k) \ {k} = 1..(k-1)
    BY <1>1, IterationPlaces
  <2>2. iter[1..k] = Enrich(iter[(1..k) \ {Max(1..k)}], lookups[Max(1..k)])
    BY <1>7, <2>1
  <2> QED
    BY <2>1, <2>2
<1>10. \A k \in 0..n : iter[1..k] \in X
  <2>1. iter[1..0] \in X
    BY <1>3, <1>8
  <2>2. \A k \in 1..n : iter[1..(k-1)] \in X => iter[1..k] \in X
    BY <1>1, <1>3, <1>9
  <2> QED
    BY <1>1, <2>1, <2>2, StepsStay
<1> DEFINE acc == [k \in 0..n |-> iter[1..k]]
<1>11. acc \in [0..n -> X] /\ acc[0] = base /\ acc[n] = iter[1..n]
         /\ \A k \in 1..n : acc[k] = iter[1..k] /\ acc[k - 1] = iter[1..(k-1)]
  BY <1>1, <1>8, <1>10
<1>12. \A k \in 1..n : acc[k] = Enrich(acc[k - 1], lookups[k])
  BY <1>9, <1>11
<1> HIDE DEF acc
<1> QED
  BY <1>2, <1>11, <1>12 DEF X, base


(* What a run gets: `caches` are what is known after each server. *)
IsEnriched(caches, start, lookups, e) ==
  LET n == Len(lookups) IN
  /\ caches \in [0..n -> Cache] /\ caches[0] = start /\ caches[n] = e.cache
  /\ \A i, j \in 0..n : i <= j => Extends(caches[j], caches[i])
  /\ Len(e.rows) = n
  /\ \A i \in 1..n :
       IF lookups[i].address \in DOMAIN caches[i]
         THEN e.rows[i] = caches[i][lookups[i].address] /\ i \notin e.warned
       ELSE /\ e.rows[i] = Unknown /\ i \in e.warned
            /\ lookups[i].ripe.failed /\ lookups[i].rdap.failed

LEMMA EnrichedIs ==
  ASSUME NEW start \in Cache, NEW lookups \in Seq(Lookup)
  PROVE  \E caches : IsEnriched(caches, start, lookups, EnrichServerMetadata(start, lookups))
<1> DEFINE e == EnrichServerMetadata(start, lookups)
<1>1. PICK n \in Nat : n = Len(lookups)
  OBVIOUS
<1>2. PICK acc \in [0..n -> Enriching] :
        /\ acc[0] = Enriched(start) /\ e = acc[n]
        /\ \A k \in 1..n : acc[k] = Enrich(acc[k - 1], lookups[k])
  BY <1>1, EnrichSteps
<1> HIDE DEF e
<1>3. \A k \in 1..n : lookups[k] \in Lookup
  BY <1>1
<1> DEFINE caches == [k \in 0..n |-> acc[k].cache]
           At(k) == lookups[k].address
           Right(k, s) ==
             /\ Len(s.rows) = k
             /\ \A i \in 1..k :
                  IF At(i) \in DOMAIN caches[i]
                    THEN s.rows[i] = caches[i][At(i)] /\ i \notin s.warned
                  ELSE /\ s.rows[i] = Unknown /\ i \in s.warned
                       /\ lookups[i].ripe.failed /\ lookups[i].rdap.failed
             /\ \A i \in s.warned : i <= k
             /\ \A i \in 0..k : Extends(caches[k], caches[i])
           S == {k \in 0..n : Right(k, acc[k])}
<1>4. \A k \in 0..n : acc[k] \in Enriching /\ caches[k] = acc[k].cache
  OBVIOUS
<1> HIDE DEF caches
<1>5. 0 \in S
  <2>1. Len(acc[0].rows) = 0 /\ acc[0].warned = {}
    BY <1>2 DEF Enriched
  <2>2. \A c : Extends(c, c)
    BY DEF Extends
  <2> QED
    BY <2>1, <2>2
<1>6. ASSUME NEW k \in 1..n, k - 1 \in S PROVE k \in S
  <2>1. PICK h \in 0..n : h = k - 1 /\ k = h + 1 /\ h \in Nat
    OBVIOUS
  <2>2. PICK s \in Enriching, t \in Enriching : s = acc[h] /\ t = acc[k] /\ t = Enrich(s, lookups[k])
    BY <1>2, <1>4, <2>1
  <2>3. Right(h, s)
    BY <1>6, <2>1, <2>2
  <2>4. /\ Extends(t.cache, s.cache) /\ Len(t.rows) = k
        /\ \A j \in 1..h : t.rows[j] = s.rows[j]
        /\ IF At(k) \in DOMAIN t.cache
             THEN t.rows[k] = t.cache[At(k)] /\ t.warned = s.warned
           ELSE /\ t.rows[k] = Unknown /\ t.warned = s.warned \union {k}
                /\ lookups[k].ripe.failed /\ lookups[k].rdap.failed
    <3>1. PICK lookup \in Lookup : lookup = lookups[k]
      BY <1>3
    <3>2. PICK l \in Nat : l = Len(s.rows) /\ l = h /\ l + 1 = k
      BY <2>1, <2>3
    <3>3. IsNext(t, s, lookup)
      BY <2>2, <3>1, EnrichIs
    <3> QED
      BY <3>1, <3>2, <3>3 DEF IsNext
  <2>5. caches[k] = t.cache /\ caches[h] = s.cache
    <3>1. k \in 0..n
      OBVIOUS
    <3>2. caches[k] = acc[k].cache /\ caches[h] = acc[h].cache
      BY <1>4, <3>1
    <3> QED
      BY <2>2, <3>2
  <2>6. ASSUME NEW i \in 1..k
        PROVE  IF At(i) \in DOMAIN caches[i]
                 THEN t.rows[i] = caches[i][At(i)] /\ i \notin t.warned
               ELSE /\ t.rows[i] = Unknown /\ i \in t.warned
                    /\ lookups[i].ripe.failed /\ lookups[i].rdap.failed
    <3>1. CASE i = k
      <4>1. k \notin s.warned
        BY <2>1, <2>3
      <4> QED
        BY <2>4, <2>5, <3>1, <4>1
    <3>2. CASE i # k
      <4>1. i \in 1..h
        BY <2>1, <3>2
      <4>2. t.rows[i] = s.rows[i] /\ (i \in t.warned <=> i \in s.warned)
        BY <2>4, <3>2, <4>1
      <4> QED
        BY <2>3, <4>1, <4>2
    <3> QED
      BY <3>1, <3>2
  <2>7. \A i \in t.warned : i <= k
    <3>1. \A i \in s.warned : i \in Nat /\ i <= h
      BY <2>3 DEF Enriching
    <3> QED
      BY <2>1, <2>4, <3>1
  <2>8. \A i \in 0..k : Extends(caches[k], caches[i])
    <3> TAKE i \in 0..k
    <3>1. CASE i = k
      BY <3>1 DEF Extends
    <3>2. CASE i # k
      <4>1. i \in 0..h
        BY <2>1, <3>2
      <4>2. Extends(caches[h], caches[i]) /\ Extends(caches[k], caches[h])
        BY <2>3, <2>4, <2>5, <4>1
      <4> QED
        BY <4>2 DEF Extends
    <3> QED
      BY <3>1, <3>2
  <2>9. Right(k, t)
    BY <2>4, <2>6, <2>7, <2>8
  <2>10. k \in 0..n /\ acc[k] = t
    BY <2>2
  <2> HIDE DEF Right
  <2> QED
    BY <2>9, <2>10
<1> HIDE DEF Right
<1>7. \A k \in 0..n : k \in S
  <2> HIDE DEF S
  <2> QED
    BY <1>5, <1>6, InductionTo
<1>8. \A i, j \in 0..n : i <= j => Extends(caches[j], caches[i])
  <2> TAKE i, j \in 0..n
  <2> HAVE i <= j
  <2>1. Right(j, acc[j]) /\ i \in 0..j
    BY <1>7
  <2> QED
    BY <2>1 DEF Right
<1>9. Right(n, e)
  BY <1>2, <1>7
<1>10. /\ caches \in [0..n -> Cache] /\ caches[0] = start /\ caches[n] = e.cache
  <2>1. caches \in [0..n -> Cache]
    BY <1>4 DEF Enriching, caches
  <2>2. caches[0] = start
    BY <1>2, <1>4 DEF Enriched
  <2>3. caches[n] = e.cache
    BY <1>2, <1>4
  <2> QED
    BY <2>1, <2>2, <2>3
<1>11. IsEnriched(caches, start, lookups, e)
  BY <1>1, <1>8, <1>9, <1>10 DEF IsEnriched, Right
<1> QED
  BY <1>11 DEF e

(* In every two runs, what is shown about a server is explained. *)
THEOREM MetadataIsExplained == Spec => []MetadataExplained
<1>1. ReportInv => MetadataExplained
  <2> SUFFICES ASSUME ReportInv, stage = "text", text.kind = "lookups"
               PROVE  MetadataExplained
    BY DEF MetadataExplained
  <2>1. text \in [kind : {"lookups"}, first : Seq(Lookup), second : Seq(Lookup)]
    BY TextsAssumption DEF ReportInv, Text
  <2> DEFINE one == text.first
             two == text.second
  <2>2. one \in Seq(Lookup) /\ two \in Seq(Lookup)
    BY <2>1
  <2> HIDE DEF one, two
  <2> DEFINE first == EnrichServerMetadata(<<>>, one)
             second == EnrichServerMetadata(first.cache, two)
             lookups == <<one, two>>
             runs == <<first, second>>
             Known(n, i) == runs[n].rows[i].country # ""
  <2>3. <<>> \in Cache
    <3>1. <<>> \in [{} -> Metas]
      OBVIOUS
    <3> QED
      BY <3>1 DEF Cache
  <2>4. PICK c : IsEnriched(c, <<>>, one, first)
    BY <2>2, <2>3, EnrichedIs
  <2>5. first.cache \in Cache
    BY <2>4 DEF IsEnriched
  <2>6. PICK d : IsEnriched(d, first.cache, two, second)
    BY <2>2, <2>5, EnrichedIs
  <2> HIDE DEF first, second
  <2>7. PICK l1 \in Nat, l2 \in Nat : l1 = Len(one) /\ l2 = Len(two)
    BY <2>2
  <2> DEFINE seen(n, i) == IF n = 1 THEN c[i] ELSE d[i]
             Places(n) == IF n = 1 THEN 1..l1 ELSE 1..l2
  <2>8. ASSUME NEW n \in 1..2
        PROVE  /\ DOMAIN lookups[n] = Places(n)
               /\ \A i \in Places(n) :
                    /\ seen(n, i) \in Cache
                    /\ IF lookups[n][i].address \in DOMAIN seen(n, i)
                         THEN /\ runs[n].rows[i] = seen(n, i)[lookups[n][i].address]
                              /\ i \notin runs[n].warned
                       ELSE /\ runs[n].rows[i] = Unknown /\ i \in runs[n].warned
                            /\ lookups[n][i].ripe.failed /\ lookups[n][i].rdap.failed
    <3>1. CASE n = 1
      <4>1. /\ lookups[n] = one /\ runs[n] = first /\ DOMAIN one = 1..l1
            /\ Places(n) = 1..l1 /\ \A i : seen(n, i) = c[i]
        BY <2>2, <2>7, <3>1
      <4>2. \A i \in 1..l1 :
              /\ c[i] \in Cache
              /\ IF one[i].address \in DOMAIN c[i]
                   THEN first.rows[i] = c[i][one[i].address] /\ i \notin first.warned
                 ELSE /\ first.rows[i] = Unknown /\ i \in first.warned
                      /\ one[i].ripe.failed /\ one[i].rdap.failed
        BY <2>4, <2>7 DEF IsEnriched
      <4> HIDE DEF lookups, runs, seen, Places
      <4> QED
        BY <4>1, <4>2
    <3>2. CASE n = 2
      <4>1. /\ lookups[n] = two /\ runs[n] = second /\ DOMAIN two = 1..l2
            /\ Places(n) = 1..l2 /\ \A i : seen(n, i) = d[i]
        BY <2>2, <2>7, <3>2
      <4>2. \A i \in 1..l2 :
              /\ d[i] \in Cache
              /\ IF two[i].address \in DOMAIN d[i]
                   THEN second.rows[i] = d[i][two[i].address] /\ i \notin second.warned
                 ELSE /\ second.rows[i] = Unknown /\ i \in second.warned
                      /\ two[i].ripe.failed /\ two[i].rdap.failed
        BY <2>6, <2>7 DEF IsEnriched
      <4> HIDE DEF lookups, runs, seen, Places
      <4> QED
        BY <4>1, <4>2
    <3> QED
      BY <3>1, <3>2
  <2>9. ASSUME NEW n \in 1..2, NEW later \in n..2, NEW i \in Places(n), NEW j \in Places(later),
               later > n \/ j >= i
        PROVE  Extends(seen(later, j), seen(n, i))
    <3>1. CASE n = 1 /\ later = 1
      BY <2>4, <2>7, <2>9, <3>1 DEF IsEnriched
    <3>2. CASE n = 2 /\ later = 2
      BY <2>6, <2>7, <2>9, <3>2 DEF IsEnriched
    <3>3. CASE n = 1 /\ later = 2
      <4>1. Extends(c[l1], c[i]) /\ c[l1] = first.cache
        BY <2>4, <2>7, <3>3 DEF IsEnriched
      <4>2. Extends(d[j], d[0]) /\ d[0] = first.cache
        BY <2>6, <2>7, <3>3 DEF IsEnriched
      <4> QED
        BY <3>3, <4>1, <4>2 DEF Extends
    <3> QED
      BY <3>1, <3>2, <3>3
  <2> HIDE DEF seen, Places, lookups, runs
  <2>10. \A meta \in Metas : meta.country # ""
    BY CountryKnown
  <2>11. \A cache \in Cache : \A a \in DOMAIN cache : cache[a] \in Metas
    BY DEF Cache
  <2>12. ASSUME NEW n \in 1..2, NEW i \in Places(n)
         PROVE  /\ Known(n, i) <=> lookups[n][i].address \in DOMAIN seen(n, i)
                /\ Known(n, i) = (i \notin runs[n].warned)
                /\ ~Known(n, i) => lookups[n][i].ripe.failed /\ lookups[n][i].rdap.failed
    <3>1. CASE lookups[n][i].address \in DOMAIN seen(n, i)
      <4>1. runs[n].rows[i] \in Metas /\ i \notin runs[n].warned
        BY <2>8, <2>11, <3>1
      <4> QED
        BY <2>10, <3>1, <4>1
    <3>2. CASE lookups[n][i].address \notin DOMAIN seen(n, i)
      BY <2>8, <3>2, CountryKnown
    <3> QED
      BY <3>1, <3>2
  <2>13. ASSUME NEW n \in 1..2, NEW later \in n..2, NEW i \in Places(n), NEW j \in Places(later),
                lookups[n][i].address = lookups[later][j].address, Known(n, i),
                later > n \/ j >= i
         PROVE  runs[later].rows[j] = runs[n].rows[i]
    <3>1. PICK a : a = lookups[n][i].address /\ a = lookups[later][j].address
      BY <2>13
    <3>2. a \in DOMAIN seen(n, i) /\ runs[n].rows[i] = seen(n, i)[a]
      <4>1. lookups[n][i].address \in DOMAIN seen(n, i)
        BY <2>12, <2>13
      <4> QED
        BY <2>8, <3>1, <4>1
    <3>3. a \in DOMAIN seen(later, j) /\ seen(later, j)[a] = seen(n, i)[a]
      BY <2>9, <2>13, <3>2 DEF Extends
    <3>4. later \in 1..2
      OBVIOUS
    <3>5. runs[later].rows[j] = seen(later, j)[a]
      BY <2>8, <3>1, <3>3, <3>4
    <3> QED
      BY <3>2, <3>3, <3>5
  <2>14. \A n \in 1..2 : \A i \in DOMAIN lookups[n] :
           /\ Known(n, i) = (i \notin runs[n].warned)
           /\ ~Known(n, i) => lookups[n][i].ripe.failed /\ lookups[n][i].rdap.failed
           /\ \A later \in n..2 : \A j \in DOMAIN lookups[later] :
                /\ lookups[n][i].address = lookups[later][j].address /\ Known(n, i)
                /\ later > n \/ j >= i
                => runs[later].rows[j] = runs[n].rows[i]
    <3>1. \A n \in 1..2 : \A later \in n..2 : later \in 1..2
      OBVIOUS
    <3>2. \A n \in 1..2 : DOMAIN lookups[n] = Places(n)
      BY <2>8
    <3> HIDE DEF Known
    <3> QED
      BY <2>12, <2>13, <3>1, <3>2
  <2> QED
    BY Zenon, <2>14 DEF MetadataExplained, lookups, runs, first, second, one, two
<1> QED
  BY <1>1, ReportInvariant, PTL

-----------------------------------------------------------------------------
(* Browser history. *)

Records == [urls : Seq(Url), failed : BOOLEAN, copies : Seq(Profile)]
NoRecords == [urls |-> <<>>, failed |-> FALSE, copies |-> <<>>]

(* A profile after the records of others. *)
IsRead(t, s, profile) ==
  IF s.failed THEN t = s
  ELSE /\ t.failed <=> profile.fate # "read"
       /\ t.copies = IF profile.fate = "not copied" THEN Append(s.copies, profile) ELSE s.copies
       /\ ~t.failed => ToSet(t.urls) = ToSet(s.urls) \union ToSet(profile.urls)

LEMMA ElementsOfConcat ==
  ASSUME NEW S, NEW s \in Seq(S), NEW t \in Seq(S), NEW u \in Seq(S), IsConcat(u, s, t)
  PROVE  ToSet(u) = ToSet(s) \union ToSet(t)
<1>1. PICK m \in Nat, n \in Nat : m = Len(s) /\ n = Len(t)
  OBVIOUS
<1>2. Len(u) = m + n /\ \A i \in 1..(m + n) : u[i] = IF i <= m THEN s[i] ELSE t[i - m]
  BY <1>1 DEF IsConcat
<1>3. DOMAIN s = 1..m /\ DOMAIN t = 1..n /\ DOMAIN u = 1..(m + n)
  BY <1>1, <1>2
<1>4. ASSUME NEW i \in 1..(m + n) PROVE u[i] \in ToSet(s) \union ToSet(t)
  <2>1. CASE i <= m
    <3>1. i \in 1..m
      BY <2>1
    <3>2. u[i] = s[i]
      BY <1>2, <2>1
    <3> QED
      BY <1>3, <3>1, <3>2 DEF ToSet
  <2>2. CASE ~(i <= m)
    <3>1. i - m \in 1..n
      BY <2>2
    <3>2. u[i] = t[i - m]
      BY <1>2, <2>2
    <3> QED
      BY <1>3, <3>1, <3>2 DEF ToSet
  <2> QED
    BY <2>1, <2>2
<1>5. ASSUME NEW i \in 1..m PROVE s[i] \in ToSet(u)
  <2>1. i \in 1..(m + n) /\ i <= m
    OBVIOUS
  <2> QED
    BY <1>2, <1>3, <2>1 DEF ToSet
<1>6. ASSUME NEW i \in 1..n PROVE t[i] \in ToSet(u)
  <2>1. i + m \in 1..(m + n) /\ ~(i + m <= m) /\ (i + m) - m = i
    OBVIOUS
  <2>2. u[i + m] = t[i]
    BY <1>2, <2>1
  <2> QED
    BY <1>3, <2>1, <2>2 DEF ToSet
<1>7. ToSet(u) \subseteq ToSet(s) \union ToSet(t)
  <2>1. \A x \in ToSet(u) : \E i \in 1..(m + n) : x = u[i]
    BY <1>3 DEF ToSet
  <2> QED
    BY <1>4, <2>1
<1>8. ToSet(s) \subseteq ToSet(u)
  <2>1. \A x \in ToSet(s) : \E i \in 1..m : x = s[i]
    BY <1>3 DEF ToSet
  <2> QED
    BY <1>5, <2>1
<1>9. ToSet(t) \subseteq ToSet(u)
  <2>1. \A x \in ToSet(t) : \E i \in 1..n : x = t[i]
    BY <1>3 DEF ToSet
  <2> QED
    BY <1>6, <2>1
<1> QED
  BY <1>7, <1>8, <1>9

LEMMA ReadIs ==
  ASSUME NEW s \in Records, NEW profile \in Profile
  PROVE  ReadProfile(s, profile) \in Records /\ IsRead(ReadProfile(s, profile), s, profile)
<1> DEFINE t == ReadProfile(s, profile)
           answer == QueryHistoryURLs(profile)
<1>1. /\ s.urls \in Seq(Url) /\ s.failed \in BOOLEAN /\ s.copies \in Seq(Profile)
      /\ profile.urls \in Seq(Url)
  BY DEF Records, Profile
<1>2. /\ answer.urls = IF profile.fate = "read" THEN profile.urls ELSE <<>>
      /\ answer.failed = (profile.fate # "read")
      /\ answer.left = (profile.fate = "not copied")
  BY DEF QueryHistoryURLs
<1>3. CASE s.failed
  <2>1. t = s
    BY <1>3 DEF ReadProfile
  <2> HIDE DEF t
  <2> QED
    BY <1>3, <2>1 DEF IsRead, t
<1>4. CASE ~s.failed
  <2> HIDE DEF answer
  <2>1. t = [urls |-> IF answer.failed THEN <<>> ELSE Uniq(s.urls \o answer.urls),
             failed |-> answer.failed,
             copies |-> IF answer.left THEN Append(s.copies, profile) ELSE s.copies]
    BY <1>4 DEF ReadProfile, answer
  <2> HIDE DEF t
  <2>2. PICK urls : urls = IF answer.failed THEN <<>> ELSE Uniq(s.urls \o answer.urls)
    OBVIOUS
  <2>3. PICK copies : copies = IF answer.left THEN Append(s.copies, profile) ELSE s.copies
    OBVIOUS
  <2>4. urls \in Seq(Url) /\ (~answer.failed => ToSet(urls) = ToSet(s.urls) \union ToSet(profile.urls))
    <3>1. CASE answer.failed
      <4>1. <<>> \in Seq(Url)
        OBVIOUS
      <4> QED
        BY <2>2, <3>1, <4>1
    <3>2. CASE ~answer.failed
      <4>1. answer.urls = profile.urls
        BY <1>2, <3>2
      <4>2. PICK both \in Seq(Url) : IsConcat(both, s.urls, profile.urls)
        BY <1>1, ConcatIs
      <4>3. both = s.urls \o profile.urls
        BY <4>2 DEF IsConcat
      <4>4. ToSet(both) = ToSet(s.urls) \union ToSet(profile.urls)
        BY <1>1, <4>2, ElementsOfConcat
      <4> QED
        BY <2>2, <3>2, <4>1, <4>3, <4>4, UniqIs
    <3> QED
      BY <3>1, <3>2
  <2>5. copies \in Seq(Profile)
    BY <1>1, <2>3, AppendIs
  <2>6. t = [urls |-> urls, failed |-> answer.failed, copies |-> copies]
    BY <2>1, <2>2, <2>3
  <2>7. t \in Records
    BY <1>2, <2>4, <2>5, <2>6 DEF Records
  <2>8. t.urls = urls /\ t.failed = answer.failed /\ t.copies = copies
    BY <2>6
  <2>9. IsRead(t, s, profile)
    BY <1>2, <1>4, <2>3, <2>4, <2>8 DEF IsRead
  <2> QED
    BY <2>7, <2>9 DEF t
<1> QED
  BY <1>3, <1>4

(* What ChromiumFamily has, one profile after the other. *)
LEMMA ReadSteps ==
  ASSUME NEW profiles \in Seq(Profile)
  PROVE  \E acc \in [0..Len(profiles) -> Records] :
           /\ acc[0] = NoRecords /\ ChromiumFamily(profiles) = acc[Len(profiles)]
           /\ \A k \in 1..Len(profiles) : acc[k] = ReadProfile(acc[k - 1], profiles[k])
<1> DEFINE n == Len(profiles)
           X == Records
           base == NoRecords
           Eq(it) == it = [t \in SUBSET (1..n) |->
                             IF t = {} THEN base ELSE ReadProfile(it[t \ {Max(t)}], profiles[Max(t)])]
           iter == CHOOSE it : Eq(it)
<1>1. n \in Nat /\ DOMAIN profiles = 1..n /\ \A k \in 1..n : profiles[k] \in Profile
  OBVIOUS
<1>2. ChromiumFamily(profiles) = iter[1..n]
  BY <1>1 DEF ChromiumFamily, NoRecords, FoldLeft, MapThenFoldSet
<1>3. base \in X /\ \A y \in X, e \in Profile : ReadProfile(y, e) \in X
  <2>1. base \in X
    <3>1. <<>> \in Seq(Url) /\ <<>> \in Seq(Profile)
      OBVIOUS
    <3> QED
      BY <3>1 DEF NoRecords, Records
  <2>2. ASSUME NEW y \in X, NEW e \in Profile PROVE ReadProfile(y, e) \in X
    BY <2>2, ReadIs
  <2> QED
    BY <2>1, <2>2
<1> HIDE DEF X, base
<1>4. PICK step \in [1..n -> [X -> X]] :
        \A k \in 1..n, y \in X : step[k][y] = ReadProfile(y, profiles[k])
  <2>1. [k \in 1..n |-> [y \in X |-> ReadProfile(y, profiles[k])]] \in [1..n -> [X -> X]]
    BY <1>1, <1>3
  <2> QED
    BY <2>1
<1>5. PICK it \in [SUBSET (1..n) -> X] : Iterates(it, base, step, n)
  BY <1>1, <1>3, <1>4, Iteration
<1>6. Eq(it)
  <2>1. ASSUME NEW t \in SUBSET (1..n), t # {}
        PROVE  it[t] = ReadProfile(it[t \ {Max(t)}], profiles[Max(t)])
    <3>1. Max(t) \in 1..n /\ t \ {Max(t)} \in SUBSET (1..n)
      BY <1>1, <2>1, IterationPlaces
    <3>2. it[t] = step[Max(t)][it[t \ {Max(t)}]]
      BY <1>5, <2>1 DEF Iterates
    <3> QED
      BY <1>4, <1>5, <3>1, <3>2
  <2> QED
    BY <1>5, <2>1 DEF Iterates
<1>7. Eq(iter)
  BY <1>6
<1> HIDE DEF iter
<1>8. iter[1..0] = base
  BY <1>1, <1>7, IterationPlaces
<1>9. ASSUME NEW k \in 1..n PROVE iter[1..k] = ReadProfile(iter[1..(k-1)], profiles[k])
  <2>1. 1..k # {} /\ 1..k \in SUBSET (1..n) /\ Max(1..k) = k /\ (1..k) \ {k} = 1..(k-1)
    BY <1>1, IterationPlaces
  <2>2. iter[1..k] = ReadProfile(iter[(1..k) \ {Max(1..k)}], profiles[Max(1..k)])
    BY <1>7, <2>1
  <2> QED
    BY <2>1, <2>2
<1>10. \A k \in 0..n : iter[1..k] \in X
  <2>1. iter[1..0] \in X
    BY <1>3, <1>8
  <2>2. \A k \in 1..n : iter[1..(k-1)] \in X => iter[1..k] \in X
    BY <1>1, <1>3, <1>9
  <2> QED
    BY <1>1, <2>1, <2>2, StepsStay
<1> DEFINE acc == [k \in 0..n |-> iter[1..k]]
<1>11. acc \in [0..n -> X] /\ acc[0] = base /\ acc[n] = iter[1..n]
         /\ \A k \in 1..n : acc[k] = iter[1..k] /\ acc[k - 1] = iter[1..(k-1)]
  BY <1>1, <1>8, <1>10
<1>12. \A k \in 1..n : acc[k] = ReadProfile(acc[k - 1], profiles[k])
  BY <1>9, <1>11
<1> HIDE DEF acc
<1> QED
  BY <1>2, <1>11, <1>12 DEF X, base

(* Which copies are left behind, and what is read otherwise. *)
IsFamily(history, profiles) ==
  /\ history \in Records
  /\ history.failed <=> \E i \in DOMAIN profiles : profiles[i].fate # "read"
  /\ \/ history.copies = <<>>
     \/ history.failed /\ Len(history.copies) = 1 /\ history.copies[1].fate = "not copied"
  /\ ~history.failed =>
       \A url : url \in ToSet(history.urls) <=> \E i \in DOMAIN profiles : url \in ToSet(profiles[i].urls)

LEMMA FamilyIs ==
  ASSUME NEW profiles \in Seq(Profile)
  PROVE  IsFamily(ChromiumFamily(profiles), profiles)
<1>1. PICK n \in Nat : n = Len(profiles) /\ DOMAIN profiles = 1..n
  OBVIOUS
<1>2. PICK acc \in [0..n -> Records] :
        /\ acc[0] = NoRecords /\ ChromiumFamily(profiles) = acc[n]
        /\ \A k \in 1..n : acc[k] = ReadProfile(acc[k - 1], profiles[k])
  BY <1>1, ReadSteps
<1> DEFINE Fails(k) == \E i \in 1..k : profiles[i].fate # "read"
           Has(k, url) == \E i \in 1..k : url \in ToSet(profiles[i].urls)
           Right(k, s) ==
             /\ s.failed <=> Fails(k)
             /\ \/ s.copies = <<>>
                \/ s.failed /\ Len(s.copies) = 1 /\ s.copies[1].fate = "not copied"
             /\ ~s.failed => \A url : url \in ToSet(s.urls) <=> Has(k, url)
           S == {k \in 0..n : Right(k, acc[k])}
<1>3. 0 \in S
  <2>1. acc[0].failed = FALSE /\ acc[0].copies = <<>> /\ ToSet(acc[0].urls) = {}
    BY <1>2 DEF NoRecords, ToSet
  <2>2. ~Fails(0) /\ \A url : ~Has(0, url)
    OBVIOUS
  <2> HIDE DEF Fails, Has
  <2>3. Right(0, acc[0])
    BY <2>1, <2>2
  <2> HIDE DEF Right
  <2> QED
    BY <2>3
<1>4. ASSUME NEW k \in 1..n, k - 1 \in S PROVE k \in S
  <2>1. PICK h \in 0..n : h = k - 1 /\ k = h + 1
    OBVIOUS
  <2>2. PICK s \in Records, t \in Records, profile \in Profile :
          /\ s = acc[h] /\ t = acc[k] /\ profile = profiles[k]
          /\ t = ReadProfile(s, profile)
    BY <1>1, <1>2, <2>1
  <2>3. IsRead(t, s, profile)
    BY <2>2, ReadIs
  <2>4. Right(h, s)
    BY <1>4, <2>1, <2>2
  <2>5. /\ Fails(k) <=> Fails(h) \/ profile.fate # "read"
        /\ \A url : Has(k, url) <=> Has(h, url) \/ url \in ToSet(profile.urls)
    <3>1. \A i : i \in 1..k <=> i \in 1..h \/ i = k
      BY <2>1
    <3> QED
      BY <2>2, <3>1
  <2> HIDE DEF Fails, Has
  <2>6. Right(k, t)
    <3>1. CASE s.failed
      BY <2>3, <2>4, <2>5, <3>1 DEF IsRead
    <3>2. CASE ~s.failed
      <4>1. s.copies = <<>>
        BY <2>4, <3>2
      <4>2. Append(<<>>, profile) = <<profile>>
        OBVIOUS
      <4>3. t.copies = IF profile.fate = "not copied" THEN <<profile>> ELSE <<>>
        BY <2>3, <3>2, <4>1, <4>2 DEF IsRead
      <4>4. t.failed <=> profile.fate # "read"
        BY <2>3, <3>2 DEF IsRead
      <4>5. \/ t.copies = <<>>
            \/ t.failed /\ Len(t.copies) = 1 /\ t.copies[1].fate = "not copied"
        <5>1. CASE profile.fate = "not copied"
          <6>1. Len(<<profile>>) = 1 /\ <<profile>>[1] = profile
            OBVIOUS
          <6>2. t.copies = <<profile>> /\ t.failed
            BY <4>3, <4>4, <5>1
          <6> QED
            BY <5>1, <6>1, <6>2
        <5>2. CASE profile.fate # "not copied"
          BY <4>3, <5>2
        <5> QED
          BY <5>1, <5>2
      <4>6. ~t.failed => ToSet(t.urls) = ToSet(s.urls) \union ToSet(profile.urls)
        BY <2>3, <3>2 DEF IsRead
      <4> QED
        BY <2>4, <2>5, <3>2, <4>4, <4>5, <4>6
    <3> QED
      BY <3>1, <3>2
  <2> HIDE DEF Right
  <2> QED
    BY <2>2, <2>6
<1>5. n \in S
  <2> HIDE DEF S
  <2>1. \A k \in 0..n : k \in S
    BY <1>3, <1>4, InductionTo
  <2> QED
    BY <2>1
<1>6. Right(n, ChromiumFamily(profiles)) /\ ChromiumFamily(profiles) \in Records
  BY <1>2, <1>5
<1> QED
  BY <1>1, <1>6 DEF IsFamily

(* Whatever fails when the history is read, HistoryRead holds. *)
THEOREM HistoryIsRead == Spec => []HistoryRead
<1>1. ReportInv => HistoryRead
  <2> SUFFICES ASSUME ReportInv, stage = "text", text.kind = "history"
               PROVE  HistoryRead
    BY DEF HistoryRead
  <2> DEFINE profiles == text.profiles
             count == text.count
             history == ChromiumFamily(profiles)
             Hosts(i) == ToSet(ExternalHostnames(profiles[i].urls))
             external == UNION {Hosts(i) : i \in DOMAIN profiles}
             names == Uniq(ExternalHostnames(history.urls))
  <2>1. profiles \in Seq(Profile) /\ count \in Nat \ {0}
    <3>1. text \in [kind : {"history"}, profiles : Seq(Profile), count : Nat \ {0}]
      BY TextsAssumption DEF ReportInv, Text
    <3> QED
      BY <3>1
  <2> HIDE DEF profiles, count
  <2>2. IsFamily(history, profiles)
    BY <2>1, FamilyIs
  <2> HIDE DEF history
  <2>3. history.urls \in Seq(Url)
    BY <2>2 DEF IsFamily, Records
  <2>4. names \in Seq(STRING) /\ Distinct(names) /\ ToSet(names) = ToSet(ExternalHostnames(history.urls))
    BY <2>3, ExternalIs, UniqIs
  <2> HIDE DEF names
  <2>5. ASSUME ~history.failed PROVE ToSet(names) = external
    <3>1. \A host : host \in ToSet(names)
                    <=> \E url \in ToSet(history.urls) : url.external /\ url.host = host
      BY <2>3, <2>4, ExternalIs
    <3>2. ASSUME NEW i \in DOMAIN profiles, NEW host
          PROVE  host \in Hosts(i) <=> \E url \in ToSet(profiles[i].urls) : url.external /\ url.host = host
      <4>1. profiles[i].urls \in Seq(Url)
        <5>1. profiles[i] \in Profile
          BY <2>1
        <5> QED
          BY <5>1 DEF Profile
      <4> QED
        BY <4>1, ExternalIs
    <3>3. \A url : url \in ToSet(history.urls)
                   <=> \E i \in DOMAIN profiles : url \in ToSet(profiles[i].urls)
      BY <2>2, <2>5 DEF IsFamily
    <3> HIDE DEF Hosts
    <3>4. \A host : host \in external <=> \E i \in DOMAIN profiles : host \in Hosts(i)
      OBVIOUS
    <3> HIDE DEF external
    <3>5. \A host : host \in ToSet(names) <=> host \in external
      BY <3>1, <3>2, <3>3, <3>4
    <3> QED
      BY <3>5
  <2> HIDE DEF external
  <2>6. names = <<>> <=> ToSet(names) = {}
    BY <2>4, NoElements
  <2>7. Hostnames(count, history.urls) = IF names = <<>> THEN {FallbackHostnames(count)}
                                         ELSE Random(count, names)
    BY DEF Hostnames, names
  <2>8. Hostnames(count, history.urls) # {}
    BY <2>1, <2>4, <2>7, RandomIs
  <2>9. \A hosts : hosts \in Seq(STRING) /\ Distinct(hosts) => Cardinality(ToSet(hosts)) = Len(hosts)
    BY DistinctCount
  <2>10. ASSUME ~history.failed, NEW hosts \in Hostnames(count, history.urls)
         PROVE  IF external = {}
                  THEN Len(hosts) = count
                         /\ (count <= Len(Domains) => Cardinality(ToSet(hosts)) = Len(hosts))
                ELSE /\ Cardinality(ToSet(hosts)) = Len(hosts) /\ ToSet(hosts) \subseteq external
                     /\ Len(hosts) = count \/ ToSet(hosts) = external
    <3>1. CASE external = {}
      <4>1. hosts = FallbackHostnames(count)
        BY <2>5, <2>6, <2>7, <2>10, <3>1
      <4>2. /\ hosts \in Seq(STRING) /\ Len(hosts) = count
            /\ count <= Len(Domains) => Distinct(hosts)
        BY <2>1, <4>1, FallbackIs
      <4> QED
        BY <2>9, <3>1, <4>2
    <3>2. CASE external # {}
      <4>1. hosts \in Random(count, names)
        BY <2>5, <2>6, <2>7, <2>10, <3>2
      <4>2. /\ hosts \in Seq(STRING) /\ Distinct(hosts) /\ ToSet(hosts) \subseteq ToSet(names)
            /\ Len(hosts) = count \/ ToSet(hosts) = ToSet(names)
        BY <2>1, <2>4, <4>1, RandomIs
      <4> QED
        BY <2>5, <2>9, <2>10, <3>2, <4>2
    <3> QED
      BY <3>1, <3>2
  <2>11. /\ \A i \in DOMAIN history.copies : history.copies[i].fate = "not copied"
         /\ Len(history.copies) <= 1 /\ (history.copies # <<>> => history.failed)
         /\ history.failed = (\E i \in DOMAIN profiles : profiles[i].fate # "read")
    <3>1. history.copies \in Seq(Profile) /\ history.failed \in BOOLEAN
      BY <2>2 DEF IsFamily, Records
    <3>2. history.failed = (\E i \in DOMAIN profiles : profiles[i].fate # "read")
      <4> DEFINE some == \E i \in DOMAIN profiles : profiles[i].fate # "read"
      <4>1. history.failed <=> some
        BY <2>2 DEF IsFamily
      <4>2. some \in BOOLEAN
        OBVIOUS
      <4> HIDE DEF some
      <4>3. history.failed = some
        BY Zenon, <3>1, <4>1, <4>2
      <4> QED
        BY <4>3 DEF some
    <3>3. PICK copies \in Seq(Profile) : copies = history.copies
      BY <3>1
    <3>4. \/ copies = <<>>
          \/ history.failed /\ Len(copies) = 1 /\ copies[1].fate = "not copied"
      BY <2>2, <3>3 DEF IsFamily
    <3>5. /\ \A i \in DOMAIN copies : copies[i].fate = "not copied"
          /\ Len(copies) <= 1 /\ (copies # <<>> => history.failed)
      <4>1. CASE copies = <<>>
        <5>1. Len(copies) = 0 /\ DOMAIN copies = {}
          BY <4>1
        <5> QED
          BY <4>1, <5>1
      <4>2. CASE history.failed /\ Len(copies) = 1 /\ copies[1].fate = "not copied"
        <5>1. \A i \in 1..1 : i = 1
          OBVIOUS
        <5>2. DOMAIN copies = 1..Len(copies)
          BY <3>3
        <5>3. DOMAIN copies = 1..1
          BY <4>2, <5>2
        <5>4. copies[1].fate = "not copied" /\ history.failed /\ Len(copies) = 1
          BY Zenon, <4>2
        <5>5. ASSUME NEW n, n = 1 PROVE n <= 1
          BY <5>5
        <5> QED
          BY Zenon, <5>1, <5>3, <5>4, <5>5
      <4> QED
        BY <3>4, <4>1, <4>2
    <3> QED
      BY <3>2, <3>3, <3>5
  <2> QED
    BY Zenon, <2>8, <2>10, <2>11 DEF HistoryRead, history, profiles, count, external
<1> QED
  BY <1>1, ReportInvariant, PTL

(* In whatever order quotes, commas, line feeds and carriage returns stand   *)
(* in the cells of an export: a program that reads CSV gets exactly those    *)
(* cells, unless one of them has a carriage return and nothing else that     *)
(* would put it in quotes; then it gets others (escapeCsv, buildCsv).        *)
THEOREM CsvIsRead == Spec => []CsvRoundTrips
<1>1. ReportInv => CsvRoundTrips
  <2> SUFFICES ASSUME ReportInv, stage = "text", text.kind = "table"
               PROVE  (CsvParsed(CsvText(text.rows)) = text.rows)
                        = ~(\E l \in DOMAIN text.rows : \E c \in DOMAIN text.rows[l] :
                              BareReturn(text.rows[l][c]))
    BY DEF CsvRoundTrips
  <2>1. text \in [kind : {"table"}, rows : Seq(Seq(Seq(Char)) \ {<<>>}) \ {<<>>}]
    BY TextsAssumption DEF ReportInv, Text
  <2>2. text.rows \in Seq(Cells \ {<<>>}) \ {<<>>}
    BY <2>1 DEF Cells
  <2>3. (CsvParsed(CsvText(text.rows)) = text.rows)
          <=> ~(\E l \in DOMAIN text.rows : \E c \in DOMAIN text.rows[l] :
                  BareReturn(text.rows[l][c]))
    BY <2>2, CsvIs
  <2> QED
    BY Zenon, <2>3
<1> QED
  BY <1>1, ReportInvariant, PTL
=============================================================================
