# TLA+ models of n0-dns-resolver

A verification development for the stub resolver in this repository: TLA+ modules of its concurrent
core, TLC configurations that check them on small instances, and TLAPS proofs of what matters most.
Paths below are relative to the crate.

## The system

A `DnsResolver` answers lookups (`lookup_ipv4`, `lookup_txt`, ..., all through
`lookup_record_impl`) for any number of concurrent tasks. Its parts, from the outside in:

| part | state | operations | what makes it right | what is hard |
|---|---|---|---|---|
| generic lookup (`src/resolver.rs`) | locals of one lookup; shares the cache | probe, ask each candidate, cache, serve stale, clear, reset | answers follow the search order; staleness is bounded; a failure never pins a live name as absent | replies applied late, one candidate of several failing, two tasks inserting in either order |
| cache (`src/resolver/cache.rs`) | LRU map from a 64-bit hash to an entry, under a mutex | `get`, `get_stale`, `insert`, `clear` | a collision is a miss; TTLs are capped; expired entries stay for serve-stale only | expiry, collisions, capacity |
| CNAME following (`src/resolver.rs`, `src/resolver/query.rs`) | the name being asked | up to 8 queries | ends; never leaves the chain | cycles, depth limits |
| query racing (`src/resolver.rs`) | order, dials in flight, a delay, the last error | `send_query`, `race`, `order_indices` | every nameserver asked once, primary tier first, never idle, never gives up early | completions and timers in any order; keys that move during the sort |
| RTT estimates (`src/resolver/rtt_map.rs`) | two averages per nameserver, under a mutex | read with decay, success, failure | a failed server is demoted and recovers | shared by all races |
| UDP attempt (`src/resolver.rs`) | datagrams outstanding, three timers, a TCP query | `query_nameserver`, `udp_query` | TCP joins on time and once; ends | two transports and three timers in any order |
| transports (`src/resolver/transport.rs`) | sockets | UDP, framed TCP and DoT, HTTPS | an answer is one to this query | stray datagrams, stale frames, connections closed while idle |
| connection pool (`src/resolver/pool.rs`) | idle connections per key, under a mutex; a pruning task | checkout, check-in, sweep | one owner per connection, bounded idle time, no leak | tasks, the pruner and the server interleave |
| state assembly (`src/resolver.rs`, `src/builder.rs`, `src/public_resolvers.rs`) | nameservers, tier size, search list; built once | `ResolverState::build`, `default_order` | tiers as the fallback mode says | empty lists |
| messages (`src/resolver/query.rs`) | none | `build_query`, `strip_edns`, `answers_query`, `check_response`, `parse_response` | a verdict is what the nameserver holds | what does not parse, is truncated or rejects EDNS |
| system configuration, hosts file (`src/system_config*`) | read once per resolver | `read_system_dns`, `Hosts` | a resolver runs on what it read, of a version there was | files rewritten while they are read; placeholders, zones, repeated directives |
| records (`src/records.rs`) | none | accessors of service bindings | an endpoint is the one its zone means | root targets, default protocols |
| errors (`src/error.rs`) | none | conversions | | |

They interact by calls: a lookup asks `send_query` once per CNAME hop and candidate, which runs one
`race` per tier, which runs one `query_nameserver` per nameserver, which uses the transports and the
pool. Shared between concurrent lookups are the cache, the RTT estimates and the pool, each behind
its own mutex held for one operation. Everything else is local to a future, and dropping the future
(a cancelled lookup, a race that was won) drops it all. `reset` makes a new resolver that shares
only the cache.

`PROJECT.json` lists every part with its status, every place where this code can go wrong in a way a
test would hardly reach ("hazards"), and the properties that watch over it.

## Modules

| module | models | over |
|---|---|---|
| `TieredQuery` | the abstract specification of one DNS query | |
| `Race`, `RaceProofs` | the code that keeps it, with its proofs | `TieredQuery` |
| `NameserverQuery`, `NameserverQueryProofs` | one attempt that `Race` dials, by its timers | |
| `Places` | sequences by their places: what a filter keeps, what nested loops append | |
| `Answers`, `Message`, `Records` | what is read from an answer section, a message, a record | `Places`, each other |
| `Exchange`, `ExchangeProofs` | one query to one nameserver, by its messages | `Message`, `Records` |
| `Cname`, `CnameProofs` | `send_query_following_cnames`, several exchanges | `Answers` |
| `DnsCache`, `Lookup`, `LookupProofs` | `lookup_record_impl`, with one query of `Cname` as its step | |
| `ConnPool`, `ConnPoolProofs` | pooled connections, below the attempts | |
| `SystemFiles`, `SystemConfig`, `SystemConfigProofs` | the platform readers, and when they are run | `Places` |
| `ServerOrder`, `Configuration`, `ConfigurationProofs` | how a resolver comes by what `Race` (tiers) and `Lookup` (candidates) take as constants | |

`MC*` modules give the constants values.

**TieredQuery.** Per query: who is being asked, who failed, the outcome. A nameserver is asked at
most once, a fallback one only when every primary one failed, at most `MaxConcurrent` at a time, and
an error is reported only when all failed.

**Race.** `race[q]` holds the locals of `race` (`order`, `next`, `dials`, the delay, `last_err`) and
of the sort inside `order_indices`: an insertion sort (what `sort_by` does below 20 elements) whose
every comparison reads two costs that other queries move meanwhile, so `Sort` is one comparison.
`LoopHead` is the code from the head of the loop to `select!`; each branch of `select!` is an action
(`DialSucceeds`, `DialFails`, `DelayEnds`) followed by it, `Resume`. When a race ends, `Resume`
also escalates. A dropped future is `Cancel`. `cost` is the attempt estimate, in levels of 50ms;
`Decay` moves it one level to the baseline, whenever. `failed`, `waits` and `calm` are history.

**NameserverQuery.** The variables are those of `udp_query`; timers are due instants in units of
`UDP_RETRANSMIT_MIN`. `LoopHead` is the loop's head (send, hurry TCP); each branch of the biased
`select!` is an action. The bias is left out: with ready branches in any order the model has every
run the code has and more. `Retry` is the second attempt without EDNS. The client and the nameserver
may do anything: lose, refuse, truncate or answer a datagram, fail or answer TCP.

**DnsCache** is the cache as a sequence in LRU order with operators for its methods; `Slot` is the
hash, and an entry in a slot is found by its index (`InSlot`). **Lookup** runs `lookup_record_impl` for several tasks. A query (`send_query_following_cnames`)
is two steps, so a reply can be applied late: a nameserver reads its zone (`Serve`) or the query
fails (`Fail`), then the task takes it (`Take...`), within `Flight` of asking. `ZoneChanges` moves
the truth and `lastHeld` remembers it for the properties. A name stands for a host and a record
kind; `Key` is `normalize`, `Candidates` is `search_names`. Since only the cache outlives a `reset`,
tasks of several resolver generations are tasks over one cache.

**Cname** is one call of `send_query_following_cnames` and of `parse_records` on its last response.
`Serve` is any nameserver: it may cut the alias chain anywhere, list it forwards or backwards, and
add records of another name or class. `Follow` is a pass of the loop that goes on; `TakeAnswer`,
`TakeNxDomain` and `Fails` are the ways it ends. The zone may change between two queries; `seen`
remembers it.

**Answers** has `cname_chain`, `unresolved_cname_target` and the rules of `parse_records` for names,
classes and TTLs, shared by `Cname` and `Exchange`. A chain is a function of the hop, and the records
that count are the places they are at, picked in order (`Picked` of **Places**). **Message** has the judgements of a message: a
message is a record of its fields, with a form for one that is too short for a header or does not
parse. **Records** has the extraction of each kind and the accessors of `HttpsRecordData`.
**Exchange** runs them: one query over UDP, a pooled stream or HTTPS to a nameserver that is healthy,
rejects EDNS, or is faulty. Datagrams are a set, so they arrive in any order, repeatedly or never;
strays come from other hosts and for other queries; a connection may be pooled, closed under the
query, or hold a frame that was left on it. `Receive` is one pass of the loop of `udp_query` in
`transport.rs` with what its caller does of it, `ReadFrame` is `framed_query` with the pool's retry,
`Retry` the query without EDNS, and `Conclude` what `race`, `send_query_following_cnames` and
`lookup_record_impl` make of the response. It has no clock: TCP may join, and the attempt end by its
timeout, at any moment, which covers every timing of `NameserverQuery`.

**SystemFiles** has the readers as functions of what the system holds: resolv.conf and the hosts file as
sequences of lines of words, adapters on Windows, strings on Apple, byte arrays on Android; what a word
means is given by constants. **SystemConfig** runs them: resolvers are made and reset, and their state
is built by the first of several tasks to need it while the others wait (`OnceLock`). Reading takes
steps, between which anything may be rewritten. A file is opened (`StartReading`, `OpenHosts`) and read
to its end (`FinishReading`, `ReadHosts`); if a write came between, `read_to_string` may return any
contents at all, those before and after, parts of both and broken ones (`Torn`, and for the hosts file
any of `HostsFiles`), or fail. Windows is asked for its adapters, its search list (`ReadSearchList`) and
its domain, each answered from the system of that moment or not at all. Android is asked for the active
network and then for its properties, when it may have gone; of what these were in between the model
returns the first or the last. Apple's configuration is one dictionary, and the adapters of Windows are
one call; those are atomic. A writer truncates resolv.conf and appends to it a line at a time, or
replaces the hosts file or another platform's configuration. `seen` is history, and `torn` and
`fileTorn` remember whether a file was written while it was read: for what came of it nothing is
promised, since nothing in the code could. `MeansResolvConf` is the grammar the reader follows, which at
one place is not its documentation's (below).

**ServerOrder** has the list algorithms: `interleave_nameservers`, `default_order` and the joining of
system, explicit and fallback nameservers in `ResolverState::build` (`Assembled`). The rounds of
`interleave_nameservers` are an order of the places in its lists: by round, and in a round by list. **Configuration** is
the life of a resolver around them: the builder's calls, in any order; the state built on first use and
kept; `reset`, whose resolver reads anew; the HTTPS client, made once, with one pinned address per TLS
server name; and `lookup_ipv4`/`lookup_ipv6`, with `localhost` and the hosts file ahead of DNS and
`search_names` for both (`Candidates`). `since` and `chosen` are history.

**ConnPool.** Queries are `tcp_query`/`tls_query`: take a pooled connection or dial, run
`framed_query`, return the connection on success, repeat once on a fresh one after a pooled one
failed; a call is made once, and ends answered, failed or dropped. Frames are named for the call they
answer, which the code cannot see: `answers_query` compares id and question, and any calls may share
those (`Accepts`), as a request and its retry without EDNS do. The server may reset a connection at any
time, answer what it was asked or not, and send frames nobody asked for; `stray` remembers on which
connections it did. `AnswerIsOwn` says that on all others each call still reads its own answer: nothing
that is dropped, fails or is retried leaves an answer behind. The pruning task wakes
every interval and ends when its weak reference is dead. Ages count in parts of `IDLE_TIMEOUT`. `Kept`,
what `retain` leaves, is written by ranks rather than as a `SelectSeq`, whose recursion the prover
cannot follow.

Every module has mutants beside the definitions they corrupt, marked `Mutant:`; they are the bugs
its properties are there to notice.

## Runs

| run | instance | shows |
|---|---|---|
| `race_queries` | 2 queries, 3 primary nameservers, one without its TLS config, and 1 fallback, cap 2, costs of 3 levels | the safety of races under interference, that `Race` implements `TieredQuery`, and that every started query returns |
| `nameserver_attempt` | all constants of the code (6, 3, 900ms, 6s), intervals of 300, 600 and 900ms | TCP joins once, on time and not early; datagrams are paced; an attempt ends, within two timeouts, and early only when it must |
| `exchange` | 3 transports, 3 nameservers, 11 zones, 2 sockets, 1 stray, 1 answer sent twice | a verdict is what the nameserver holds; a healthy one is heard; endpoints read back |
| `nxdomain_soa` | the same | violation: an NXDOMAIN is cached past its SOA |
| `cname_following` | every zone of three names, a depth of two, one change | answers stay on the chain, chains shorter than the depth reach their end however they are cut up and ordered, TTLs cover the aliases, loops end |
| `lookup_churn` | 2 tasks, a host with a suffix, one change of one record set, TTLs of zero and over their caps | staleness and absence are bounded under any interleaving |
| `lookup_static` | 2 tasks, a host in two spellings, two search domains, two colliding names, room for one entry | answers are the host's own and follow search order, from the cache too; every lookup returns |
| `lookup_serve_stale` | 1 task, a host with a suffix | violation: a stale answer under the candidate's name is not found |
| `pool_safety` | 3 queries, two of them under one id, 3 connections, 2 keys, cap 2, intervals of 2 units | custody, whose answer is read, dead connections, idle time, and the end of the pruning task |
| `system_config` | every resolv.conf of up to two lines of 9 kinds, other platforms' answers, a hosts file; 2 tasks, 2 resolvers, a write between any steps of reading | a resolver runs on what it read, of a version since it was made unless it was written meanwhile; its tasks run on the same |
| `configuration` | three networks, two builder calls that add nameservers, two resolvers, one change | tiers follow the fallback mode and the network, DoH is in the first wave, overrides precede DNS, names dial right |
| `pinned_names` | two DoH nameservers with one TLS server name | violation: one is connected to at the other's address |

Why the bounds are enough. A race's interference needs one other query; both tiers, the cap and a
nameserver that the cap holds back are met with three nameservers in a tier and a cap of two, and costs
have a low cap so that penalties reach it. An empty primary tier, other sizes and the code's cap of
three are left to the proofs, which hold for all. `NameserverQuery` is the code's own size. A lookup's
hazards need two tasks and a change between a reply and its insertion; the clock runs to 4 where the
longest bound is 3. In `lookup_static` a query takes no whole time unit (`Flight` is 0), since no record
changes while it runs. The pool evicts with three queries over a cap of two, and one unread frame is
enough to be a stale one. Three names give every loop of up to three and a chain as long as the depth of
two, so that the depth is reached both within a response and across queries. Two builder calls put each
kind of list before and after each other, two resolvers and one change put a reset before and after it.
The zones of `Exchange` have each kind of record that is read in its own way, owners in either case,
aliases before and behind their targets, and every kind of absence; a stray or a frame that is left over
is met with one, and a late duplicate with two sockets. In `SystemConfig` two lines put every directive
before and after every other, and a write adds a third or empties the file, before it is opened, while
it is read or after; one write is enough to change two answers of Windows between its questions, and to
tear what is read of a file, which then fails or yields contents of no version. The second of two tasks
asks before, during and after the first one's reading, and the second resolver is made at any moment of
it. Time, changes, writes, unread frames, strays, repeated answers, sockets, builder calls and resolvers
are bounded by `MaxTime`, `MaxChanges`, `MaxWrites`, `MaxFrames`, `MaxStrays`, `MaxRepeats`, `Sockets`,
`MaxCalls` and `MaxResolvers`.

Deadlock is checked in `Lookup` and `Race`, where a finished task may begin again or stutters
explicitly; `NameserverQuery`, `Cname` and `Exchange` end with their result, `ConnPool` with its pool
and `Configuration` and `SystemConfig` at their bounds, so there it is off.

Fairness. `race_queries`, `nameserver_attempt`, `lookup_static` and `cname_following` assume that a
ready future is polled, that timers fire, and that an attempt or query ends, which its timeout guarantees
(`UDP_NAMESERVER_TIMEOUT`, `STREAM_TIMEOUT`). Nothing is assumed of the network. The other runs assume
no fairness: `PrunerEnds`, for one, says what a wake of the pruning task does, not that it comes.

## Proofs

`RaceProofs` proves, for any number of queries and nameservers, any split into tiers and any cap,
that `Inv` is inductive and that it yields `TypeOK`, `WorkConserving`, `FirstWave`,
`TiersAreExhausted`, `FailFast` and `SortedWhenCalm`. The assumptions are `RaceAssumption` in `Race`: the sizes are
naturals, the cap is at least one, the baseline does not exceed the cost cap.

`Inv` is needed because none of them is inductive alone. That an error is exhaustive, say, rests on
an account: every nameserver started is in flight or in `failed` (`AccountOK`), the order lists each
nameserver of its tier exactly once (`OrderOK`), and `next` counts those started. The sort only swaps
(`SwappedOK`), so it keeps `OrderOK` whatever the costs do meanwhile. `LoopHeadOK` shows that the
head of the loop leaves the race with something to wait for, from any state that a branch of
`select!` can leave it in; each branch then has its lemma (`LoseOK`, `EnterReady`, `DelayReady`), and
`NextInv` puts them together, one step per action. The last part maps each action to a step of
`TieredQuery` or a stutter, using `Inv`.

`SortedWhenCalm` needs a second invariant, `CalmInv`, because the sort is many steps and other queries
move the costs between them. It says what a half-done sort looks like. Whatever the costs do, the entries
beyond `tail` are untouched and the entry at `hole` was configured after all those before it
(`SortOK`), which is what makes the sort stable; and as long as no cost has changed, the entries up to `tail` are
sorted but for the one at `hole` (`SortedSoFar`). `SwappedSorted` and `SettledSorted` are the two steps
of the sort, `ResumeSort` says that a query leaves its sort, or starts that of the fallback tier, and
`SortUntouched` that a query whose sort another one disturbs is no longer calm.

`NameserverQueryProofs` proves `TypeOK`, `GivesUpAfterTcp` and `TcpJoinsOnTime` for any number of
datagrams, delay, timeout and set of intervals, from `NameserverAssumption` (they are positive). That
an attempt cannot give up early rests on what the loop's head reads and on nothing that has happened
otherwise, so the invariant accounts for it: each datagram sent is outstanding or refused unless one
was truncated (`DatagramsOK`), a timer runs for whatever is still to come (`TcpOK`), and what failed is
in `last_err` (`ErrorsOK`). `Ready` is what a branch of `select!` must leave for the head of the loop
to restore `Inv`.

`ConnPoolProofs` proves every safety property of `ConnPool`, for any number of queries, connections and
keys, any cap and any intervals, from `PoolAssumption` (cap and intervals are positive). Custody is
restated without cardinalities (`InCustody`): no two places of the pool or hands of queries have one
connection, and what is open is somewhere. Five lemmas say what may be done to it, whatever action does
it: entries leave (`Thinned`), the last is handed to a query (`Handed`), a query lets go (`Released`),
returns its connection (`Returned`) or dials one (`Dialed`). `BoundedIdle` needs the sleep of the
pruning task: `AgesOK` bounds an entry's age and what is left of the sleep together, which a tick
keeps and a sweep, finding only fresh entries, starts again. `AnswerIsOwn` needs what a connection
carries between its users (`Turn`): one on which nothing unasked came owes or holds exactly the answer
of the query that has it, and nothing at all when it is pooled.

`SystemConfigProofs` proves every invariant of `SystemConfig`, for any tasks, resolvers, writes, lines,
words and sources, from `SystemConfigAssumption`: sources and files are of the types that the platforms'
calls return (`IsSource`), what a word means is an address or a number, and no remark is a directive. Its
first half is about the readers, each compared with a definition that does not follow its steps.
`Picked` and `Joined` are described once by a list of places (`Lists`): it names each place once and in
order, so that the k-th has k - 1 before it (`RankInList`), and it can be extended as a loop goes on
(`PickedGrows`, `SlotsGrow`). A fold over lines has a value at every line (`FoldsExist`), and an induction
over them gives that the last setter counts (`LastSetterCounts`) and that what is appended is what is
picked (`AppendingPicks`); so `ParseResolvConf` means what its directives say (`ResolvConfIsRead`). For
Windows, what is kept of the adapters' servers is each one's first occurrence (`FirstsAreKept`,
`AdaptersAreRead`); for the hosts file, a lookup finds an address once for each listing of its name, in
the order of the file (`HostsAreRead`). The second half is the protocol. `OneReading` rests on that what
is built never changes (`Stable`) and a task has the configuration of a state that was built (`TaskOK`);
`RunsOnAReading` on what a resolver has read at each stage of its building (`Stage`). What it opens is in
`seen`, where the present source always is, and only grows (`StageStays`); so an untorn reading is a
version (`ReadingsAreOfVersions`), and so is each answer of Windows, whatever of other versions stands
beside it (`WindowsAnswers`). The contents of a torn reading are no version, but a configuration is what
the reader makes of them all the same, and the hosts are joined to it later, from a file that may be newer.

`LookupProofs` proves every safety property of `Lookup`, for any number of tasks, hosts, search lists
and slots, any zones, TTLs, caps, query times and windows, from `LookupAssumption` and
`CacheAssumption`: counts and times are naturals, a host's list holds its key, and versions of records
are not absences. The bounds say something of what a lookup returns; it may have it from an entry that
another lookup made of a reply that a third party's change has overtaken, so `Inv` follows what is
known from where it is learnt. A reply was its name's since it was asked for (`ReplyOK`), an entry
holds what was true within one query of its insertion (`EntryOK`), and an outcome within the bound
(`OutcomeOK`). An absence is about a whole search list, so a lookup on its way accounts for each
candidate it is past: absent lately, or lost (`PassedOver`). Time passes only as far as the pending
queries allow (`Flight`), and what was held since an instant stays so when records change (`Moves`, with
a lemma for each part of `Inv`). The cache is treated once, for any set of entries: probes and
inserts keep one entry per slot and make up none (`TouchFacts`, `InsertFacts`).

`ConfigurationProofs` proves every invariant of `Configuration`, for any networks, lists, providers,
hosts and counts, from `ConfigurationAssumption`: lists are lists, and `Wave`, the cap of three dials,
is over two. Its first half is about the lists. `InOrderLists` shows that `InOrder` lists a finite set
without loss or repetition by any injective key; places in lists are so keyed, since a later round is
behind all of an earlier one (`SlotsAreKeyed`), hence the merge holds what its lists hold
(`InterleaveMerges`). `MergeBegins` finds the first two of it and `DefaultOrderBegins` those of
`default_order`, with DNS over HTTPS behind them. `TiersOfModes` is `ResolverState::build`,
`CandidatesAreNames`, `OverrideIsMapped` and `UnsharedIsPinned` are `search_names`, the hosts file
and the pins. The second half is a short induction: a resolver's state is what the builder, once
frozen, makes of a configuration it may have read, and its client's pins are of that state
(`ResolverOK`); a resolver's history is of networks there were, the present one included
(`HistoryOK`); and a fallback that only `default_order` added to is still that list (`BuilderOK`).

`PacedSends` in `NameserverQueryProofs` needs more than `Inv`: `PaceOK` says of the send timer and of
the current interval what the schedule says of the datagram to come. That a power of two is twice the
one before it, which the provers do not know, is shown by counting subsets (`PowerOfTwo`).

`ExchangeProofs` proves every invariant of `Exchange`, for any names, zones, depth,
TTLs and bounds. `ExchangeAssumption` says what it needs of them: the stranger's name is not the host's
in another case; a nameserver's own answers carry no failure and at most one SOA; the strings of a
TXT record are sequences; and the data of an HTTPS record is a service binding, its parameters a sequence
of keys with values (`IsBinding`). The first half is about what is read. The walk of `cname_chain` is a
recursive function, so that it has a value at every hop is shown by the least hop that would lack one
(`WalksExist`), and that it only goes where an alias leads in the same way (`ChainFollowsAliases`).
`PlacesAreRanked` and `PickedMembers` show that picking by rank keeps every record and its order,
`LeastTtlBounds` that no record is outlived, `TxtReadsBack` that splitting a string at its first
separator and joining it again changes nothing, and `BindingReadsBack`, by induction over a record's
parameters, that the accessors of a service binding give what its zone holds. With these `OwnVerdict` shows that the verdict on the
zone's own answer is what the zone holds, and `RefusalsAreErrors` that every other reply is an error.

The second half is which messages can become the response. Neither property is inductive: what is
in an inbox, on a connection or in `response` becomes a verdict many steps later, and the query may
change in between. `Inv` says that a datagram that would be taken is a reply to the query that is out
(`InboxInv`), and, where nothing was sent twice, that a frame that would be taken is the reply sent on
this connection, with none behind it (`ConnInv`); so nothing is left for a retry, which carries the same
id. `ResponseInv` adds that a response leaves no datagram and no connection in use, which is why
`Retry` starts clean. `OthersAreRefused` and `RetriesAskTheSame` are what `answers_query` contributes.

`CnameProofs` proves every invariant of `Cname`, for any finite set of names, zones, depth, TTLs and
changes, from `CnameAssumption` and `AnswersAssumption`: the host is a name, no name is one of the marks
for what a name holds, and a zone has one entry for a name however it is written. Its first half is
about walks. `After` follows a zone hop by hop and `cname_chain` follows a response; both are recursive
functions, and `AllNaturals`, induction over a set of naturals, shows that each has a value at every hop
(`WalksExist`), that a walk goes on from where an earlier one ended (`IteratedTwice`), and that the chain
read out of a response is the part of the zone's walk that the response holds, in either order and beside
whatever else (`ChainIsWalk`, `HopsAreRevealed`). `EndIsNear` is a pigeonhole: a walk that has passed as
many names as there are has passed one of them twice, so an end is within `Cardinality(Name)` hops or
nowhere (`LoopsNeverEnd`).

The second half is the query. None of the properties is inductive, since a result is of names that were
followed queries before. `HistoryOK` says that the name asked for is among those ever reached from the
host and that each record of the pending response was once the zone's, which keeps `AnswersOnChain`
through changes. `UnderwayOK` adds, while nothing has changed, that each query over has followed an
alias at least and that the response shows the zone's own hops; `EndOK` and `TtlOK` say what a result made
of them is, in terms of the walk from the host alone.

Model-checked only: liveness under fairness, which is beyond the prover. Every invariant and every
action property that a run finds to hold is proved for all values of the constants as well.

## Divergences found

Three statements of the repository's docs do not hold of the code; each has a run that shows it and an
entry under "findings": serve-stale with a search list (`lookup_serve_stale`), the address of a DoH
nameserver that shares its TLS server name (`pinned_names`), and the SOA of an NXDOMAIN
(`nxdomain_soa`): `check_response` has made an error of the response before `negative_ttl` is asked.

Related observations without a run, of the lookup and its queries:

- A race reports its last error alone. A missing TLS config that comes last ends the search list
  (`src/resolver.rs:1055`, "would fail every candidate identically") though UDP nameservers were asked
  too and may have only timed out.
- `a` and `a.` share a cache entry (`src/resolver/cache.rs:57`), but only the first has a search list:
  with `negative_max_ttl` set, the absence of `a.` is served for `a`. The comment makes them one name
  on purpose; `BoundedAbsence` and `AnswerFollowsSearch` bound the effect to the order of one of them.
- When an earlier candidate fails, a later one's answer may be cached under the bare host's own key
  and mask the earlier one until its TTL ends. `AnswerFollowsSearch` bounds it to that.
- A fresh answer that another task cached while this lookup failed is not returned either, since
  `get_stale` wants an expired one.
- A loop of aliases that closes on the queried name reads as an absence of records, any other as an
  invalid response.
- A FORMERR that is sent twice on a stream is left on the pooled connection, and answers the retry
  without EDNS, which has the same id and question; `answers_query` then cannot tell it from the
  retry's own. `HealthyIsHeard` excludes it (`repeats = 0`), and it is the one way left to another
  query's answer in `AnswerIsOwn` (`stray`).
- A TC bit over TCP or HTTPS is not looked at, and the body of an HTTPS response wins its race though
  it does not parse: the query then fails while other nameservers might have answered.
- `UDP_NAMESERVER_TIMEOUT` is called the total time one nameserver gets, but the retry without EDNS
  starts a second attempt with a timeout of its own. `Returns` states the bound that holds.
- The last datagram lands "around five seconds in" at the floor of the interval only: at 400ms the
  schedule is 6.4s long and the timeout comes first.

And of the configuration:

- The field of `Builder` for explicit nameservers is documented as "ahead of any from the system"
  (`src/builder.rs:42`); `ResolverState::build` puts the system's first.
- The hosts file's keys keep a trailing dot that `normalize` would strip, so such a name never matches.
- A `domain` is documented as "equivalent to a single-entry search list", and of it and `search` "the last
  one seen wins" (`src/system_config/unix.rs:22-26` and 76). But `search --` empties the list, and
  `domain --` leaves an earlier list in place. `MeansResolvConf` says what the code does.
- The readers of Windows and Apple do not check search domains at all.
- A resolv.conf that is read half written, or as parts of two, stays in use until a reset; so do a Windows
  network's nameservers joined with the next one's suffixes. A writer that renames a new file into place is
  the easy case: the opened file is never written.
- `src/system_config/android.rs:13-15` says that a panic propagates in release builds, while
  `catch_unwind` at line 43 is there in all of them. `Means` has the configuration fall back to the default,
  as the code does.

## Not modelled, and the plan

Not modelled: bytes on the wire and their parser, TLS handshakes, the platforms' own calls (their
results are), reqwest's pool, floating-point averaging of round trips (costs are levels, intervals
constants), fields of records that are only copied, and logging. Hash collisions are, as a constant
function. The retransmit interval of an attempt is drawn from the clamped range, since what it was
measured from is the network's.

Next, in this order:

1. A composition: `Lookup` over `TieredQuery` and the outcomes of `Cname` in the place of `Serve` and
   `Fail`.
2. The cache across resets whose search lists differ, by giving tasks their generation's candidates.
