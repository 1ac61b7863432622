------------------------------ MODULE MCReport -------------------------------
(***************************************************************************)
(* RunReport over bounded inputs.                                          *)
(***************************************************************************)
EXTENDS RunReport

CONSTANTS MaxServers,     \* bound: servers in a report with every outcome
          MaxLength,      \* bound: characters of a text
          MaxTotal,       \* bound: queries of a run whose progress is shown,
          ManyQueries     \* and of a run near whose end percentages are rounded up

-----------------------------------------------------------------------------
(* Three servers: the first two differ in their port only, and the page     *)
(* sorts the names the other way round.                                     *)
MCHost == <<1, 1, 2>>
MCPort == <<53, 5353, 53>>
MCCollation == <<3, 2, 1>>

Ripe(asn, name) == [failed |-> FALSE, asn |-> asn, name |-> name]
NoRipe == [failed |-> TRUE, asn |-> "", name |-> ""]
Rdap(organization, country) ==
  [failed |-> FALSE, organization |-> organization, country |-> country]
NoRdap == [failed |-> TRUE, organization |-> "", country |-> ""]

(* Everything, what RDAP alone may know, and nothing. *)
Found(m) == [asn |-> m.asn # "", country |-> m.country # "",
             organization |-> m.organization # ""]
MCMetadata == <<Found(Merged(Ripe("64500", "name"), Rdap("org", "US"))),
                Found(Merged(NoRipe, Rdap("org", ""))), Found(Unknown)>>

(* Resolvers 1 to 4 are public, 0 is not; two may be selected. *)
At(address, port) == [address |-> address, port |-> port]
MCAddress == 0..4
MCPublic == 1..4
MCGlobalPool == <<At(1, 53), At(2, 0)>>
MCDefaultRegionalPool == <<At(2, 53)>>
MCRegionalPools == [eu |-> <<At(3, 53)>>]
MCBuiltIn == At(1, 53)
MCDomains == <<"d1", "d2">>

MCChar == {"a", "p", "s", "o", "quote", ",", "newline", "cr", "/", ";", "tab", " ",
           "nbsp", "bom", "nel"}

(* Inputs. *)

Error == [err |-> TRUE, rcode |-> "", answers |-> 0]
Answer(rcode, answers) == [err |-> FALSE, rcode |-> rcode, answers |-> answers]
Observations == {Error, Answer("NXDOMAIN", 0), Answer("NXDOMAIN", 1), Answer("SERVFAIL", 0)}
CleanProbes == <<Answer("NXDOMAIN", 0), Answer("NXDOMAIN", 0)>>

Measurements(passes, probes) == [cold : passes, warm : passes, probes : probes]

(* One host and every sequence of two probes. *)
AllOutcomes == Measurements({<<Failed>>, <<10>>, <<1500>>},
                            {<<o, p>> : o, p \in Observations})

(* Two hosts, for three servers. *)
FewOutcomes == Measurements({<<Failed, Failed>>, <<10, Failed>>, <<1500, 40>>},
                            {CleanProbes, <<Error, Answer("NOERROR", 0)>>})

MCInputs == UNION {[1..n -> AllOutcomes] : n \in 1..MaxServers} \union [1..3 -> FewOutcomes]

TextsOver(chars) == UNION {[1..n -> chars] : n \in 0..MaxLength}

Tables == LET Cells == TextsOver({"a", ",", "quote", "newline", "cr"})
          IN {<<<<a, b>>>> : a, b \in Cells} \union {<<<<a>>, <<b>>>> : a, b \in Cells}

Uuids == TextsOver({"a", "p"}) \ {<<>>}
Endpoints == {<<"p">>, <<"s", "/", "o">>, <<"/", "p">>}

Steps == {<<c, t>> \in (0..MaxTotal) \X {3, MaxTotal} : c <= t}
           \union {<<ManyQueries - left, ManyQueries>> : left \in 0..2}

Progress == {[status |-> s, completed |-> step[1], total |-> step[2],
              percent |-> Percent(step[1], step[2]), server |-> srv,
              phase |-> "cold-cache", elapsed |-> 59 + step[1], eta |-> eta] :
               s \in {"running", "canceled", "error"}, srv \in {"srv", Absent},
               step \in Steps, eta \in {0, 75, Absent}}

Lists(set, length) == UNION {[1..n -> set] : n \in 0..length}

Entries == {At(1, 0), At(1, 53), At(1, 5353), At(4, 0), At(0, 0)}

Selections == [cfg : [nameservers : Lists(Entries, 3), include_system : BOOLEAN,
                      include_global : BOOLEAN, include_regional : BOOLEAN,
                      location : {"eu", "other"}],
               machine : {<<>>, <<At(4, 0)>>, <<At(0, 0), At(1, 0)>>}]

History == Lists({[host |-> "a", external |-> TRUE], [host |-> "b", external |-> TRUE],
               [host |-> "intranet", external |-> FALSE]}, 2)

Profiles == [fate : {"read"}, urls : History] \union [fate : Fates \ {"read"}, urls : {<<>>}]

Outcomes == {[ripe |-> NoRipe, rdap |-> NoRdap],
             [ripe |-> Ripe("64500", ""), rdap |-> NoRdap],
             [ripe |-> NoRipe, rdap |-> Rdap("org", "US")],
             [ripe |-> Ripe("", "name"), rdap |-> Rdap("", "US")]}

(* Two runs that look up the addresses of the same servers. *)
LookedUp(addresses, outcomes) ==
  [i \in DOMAIN addresses |-> [address |-> addresses[i], ripe |-> outcomes[i].ripe,
                               rdap |-> outcomes[i].rdap]]
TwoRuns == {[kind |-> "lookups", first |-> LookedUp(addresses, first),
             second |-> LookedUp(addresses, second)] :
              addresses \in [1..2 -> {1, 4}],
              first \in [1..2 -> Outcomes], second \in [1..2 -> Outcomes]}

(* Inputs of the operators of RunData and PageText. *)
MCTexts == [kind : {"selection"}, selection : Selections]
             \union [kind : {"history"}, profiles : Lists(Profiles, 2), count : 1..3]
             \union TwoRuns
             \union [kind : {"table"}, rows : Tables]
             \union [kind : {"path"}, uuid : Uuids, path : Endpoints]
             \union [kind : {"list"},
                        list : TextsOver({"a", ",", " ", "newline", "nbsp", "bom", "nel"})]
             \union [kind : {"progress"}, state : Progress]
=============================================================================
