------------------------------- MODULE RunData -------------------------------
(***************************************************************************)
(* What a run works with, before and after it measures: the resolvers it   *)
(* selects, the hostnames it takes from the browser history, and what it   *)
(* looks up about the addresses of its resolvers.                          *)
(*                                                                         *)
(* A server is <<address, port>>.  The files of the browsers, the lookups  *)
(* over the network and the dice are inputs or sets of outcomes.           *)
(***************************************************************************)
EXTENDS Integers, Sequences, FiniteSets, SequencesExt

CONSTANTS Address,         \* what may stand for an address
          Public,          \* the addresses of isAllowedResolverIP
          MaxResolvers,    \* MAX_RESOLVERS
          GlobalPool, DefaultRegionalPool,
          RegionalPools,   \* the pools of the locations that have one
          BuiltIn,         \* 8.8.8.8
          Domains          \* the hostnames of fallbackHostnames

Entry == [address : Address, port : Nat]

ASSUME RunDataAssumption ==
  /\ MaxResolvers \in Nat \ {0}
  /\ BuiltIn \in Entry /\ BuiltIn.address \in Public
  /\ GlobalPool \in Seq(Entry) /\ DefaultRegionalPool \in Seq(Entry)
  /\ \A location \in DOMAIN RegionalPools : RegionalPools[location] \in Seq(Entry)
  /\ Domains \in Seq(STRING) \ {<<>>}
  /\ \A i, j \in DOMAIN Domains : Domains[i] = Domains[j] => i = j

-----------------------------------------------------------------------------
(* Resolvers.  An entry is [address, port]; port 0 stands for none.  Text    *)
(* that is not an address has an address outside Public.                     *)

Rejected == <<>>

NormalizeNameServer(entry) ==
  IF entry.address \notin Public THEN Rejected
  ELSE <<entry.address, IF entry.port = 0 THEN 53 ELSE entry.port>>

(* appendUnique; also parseNameServers and normalizeResolverList. *)
AddServer(servers, entry) ==
  LET server == NormalizeNameServer(entry)
  IN IF server = Rejected \/ server \in ToSet(servers) THEN servers
     ELSE Append(servers, server)

AppendUnique(entries) == FoldLeft(AddServer, <<>>, entries)

(* The pools that a request asks for. *)
Pools(cfg) ==
  (IF cfg.include_global THEN GlobalPool ELSE <<>>)
    \o (IF ~cfg.include_regional THEN <<>>
        ELSE IF cfg.location \in DOMAIN RegionalPools THEN RegionalPools[cfg.location]
        ELSE DefaultRegionalPool)

(* Mutant: the pools come before the entries of the user. *)
MergePoolsFirst(cfg, system) ==
  LET merged == AppendUnique(Pools(cfg) \o cfg.nameservers \o system)
  IN IF merged = <<>> THEN AppendUnique(<<BuiltIn>>) ELSE merged

MergeNameServers(cfg, system) ==
  LET merged == AppendUnique(cfg.nameservers \o system \o Pools(cfg))
  IN IF merged = <<>> THEN AppendUnique(<<BuiltIn>>) ELSE merged

(* The selection of benchmarkJob.run, with two of its warnings; `machine` is *)
(* what the machine names as its resolvers.                                  *)
SelectResolvers(cfg, machine) ==
  LET system == IF cfg.include_system THEN machine ELSE <<>>
      merged == MergeNameServers(cfg, system)
      kept == IF Len(merged) <= MaxResolvers THEN merged ELSE SubSeq(merged, 1, MaxResolvers)
  IN [servers |-> kept, truncated |-> Len(merged) - Len(kept),
      ignored |-> Len(cfg.nameservers) - Len(AppendUnique(cfg.nameservers))]

-----------------------------------------------------------------------------
(* Browser history.  A profile is [fate, urls]: what becomes of the copy of *)
(* its database and of the query, and the URLs in it.                       *)

Url == [host : STRING, external : BOOLEAN]

Fates == {"unreadable",    \* the database or the temporary file cannot be opened
          "not copied",    \* the copy fails or is empty
          "not queried",   \* the copy is no such database, or a row is unreadable
          "read"}          \* or there is none any more, and it has no URLs

(* Mutant: only a query that succeeds removes the copy. *)
QueryLeavesCopy(profile) ==
  [urls |-> IF profile.fate = "read" THEN profile.urls ELSE <<>>,
   failed |-> profile.fate # "read",
   left |-> profile.fate \in {"not copied", "not queried"}]

(* queryHistoryURLs and unlockDatabase: the copy is removed once its name is *)
(* returned, and nobody knows the name of a copy that failed.                *)
QueryHistoryURLs(profile) ==
  [urls |-> IF profile.fate = "read" THEN profile.urls ELSE <<>>,
   failed |-> profile.fate # "read",
   left |-> profile.fate = "not copied"]

(* Uniq, and the loop of ChromiumFamily over the records of a profile. *)
AddNew(seen, next) == IF next \in ToSet(seen) THEN seen ELSE Append(seen, next)
Uniq(input) == FoldLeft(AddNew, <<>>, input)

(* ChromiumFamily: the first profile that fails ends it.  `copies` are the *)
(* profiles whose copies are left behind.                                  *)
ReadProfile(s, profile) ==
  LET answer == QueryHistoryURLs(profile)
  IN IF s.failed THEN s
     ELSE [urls |-> IF answer.failed THEN <<>> ELSE Uniq(s.urls \o answer.urls),
           failed |-> answer.failed,
           copies |-> IF answer.left THEN Append(s.copies, profile) ELSE s.copies]

ChromiumFamily(profiles) ==
  FoldLeft(ReadProfile, [urls |-> <<>>, failed |-> FALSE, copies |-> <<>>], profiles)

(* ExternalHostnames. *)
AddExternal(hosts, url) == IF url.external THEN Append(hosts, url.host) ELSE hosts
ExternalHostnames(urls) == FoldLeft(AddExternal, <<>>, urls)

(* Random: every outcome of its loop, which rolls again for what it has. *)
Random(count, input) ==
  LET size == IF count < Len(input) THEN count ELSE Len(input)
  IN {[i \in 1..size |-> input[roll[i]]] :
        roll \in {f \in [1..size -> DOMAIN input] : \A i, j \in 1..size : f[i] = f[j] => i = j}}

FallbackHostnames(count) ==
  [i \in 1..count |-> Domains[((i - 1) % Len(Domains)) + 1]]

(* The hostnames that benchmarkJob.run may choose from the records. *)
Hostnames(count, urls) ==
  LET external == Uniq(ExternalHostnames(urls))
  IN IF external = <<>> THEN {FallbackHostnames(count)} ELSE Random(count, external)

-----------------------------------------------------------------------------
(* Metadata.  A lookup has two outcomes, [failed, asn, name] of RIPE and      *)
(* [failed, organization, country] of RDAP; "" stands for nothing.            *)

Unknown == [asn |-> "", name |-> "", organization |-> "", country |-> ""]

(* The merge of lookupResolverMetadata. *)
Merged(ripe, rdap) ==
  LET asn == IF ripe.failed THEN "" ELSE ripe.asn
      organization == IF rdap.failed THEN "" ELSE rdap.organization
      country == IF rdap.failed THEN "" ELSE rdap.country
      name == IF ripe.failed \/ ripe.name = "" THEN organization ELSE ripe.name
  IN [asn |-> asn, name |-> name,
      organization |-> IF organization = "" THEN name ELSE organization,
      country |-> IF country = "" THEN "--" ELSE country]

With(cache, address, found) ==
  [a \in DOMAIN cache \union {address} |-> IF a = address THEN found ELSE cache[a]]

(* Mutant: a lookup that failed is cached as well. *)
LookupRemembersFailure(cache, address, ripe, rdap) ==
  LET failed == ripe.failed /\ rdap.failed
      found == IF failed THEN Unknown ELSE Merged(ripe, rdap)
  IN IF address \in DOMAIN cache THEN [cache |-> cache, failed |-> FALSE]
     ELSE [cache |-> With(cache, address, found), failed |-> failed]

(* lookupResolverMetadata.  One answer is enough, and then there is no other *)
(* lookup for the address.                                                   *)
LookupResolverMetadata(cache, address, ripe, rdap) ==
  IF address \in DOMAIN cache \/ (ripe.failed /\ rdap.failed)
    THEN [cache |-> cache, failed |-> address \notin DOMAIN cache]
  ELSE [cache |-> With(cache, address, Merged(ripe, rdap)), failed |-> FALSE]

(* enrichServerMetadata, for servers in the order of the ranking; a lookup is *)
(* [address, ripe, rdap], with what it would get.  What this run has seen is  *)
(* in the cache.                                                              *)
Enrich(s, lookup) ==
  LET done == LookupResolverMetadata(s.cache, lookup.address, lookup.ripe, lookup.rdap)
  IN [cache |-> done.cache,
      rows |-> Append(s.rows, IF done.failed THEN Unknown ELSE done.cache[lookup.address]),
      warned |-> IF done.failed THEN s.warned \union {Len(s.rows) + 1} ELSE s.warned]

EnrichServerMetadata(cache, lookups) ==
  FoldLeft(Enrich, [cache |-> cache, rows |-> <<>>, warned |-> {}], lookups)
=============================================================================
