# AynOps in TLA+

AynOps is an MCP server for domain reconnaissance. Each tool is a function that takes
a domain, asks the network some questions and returns a dictionary; `full_recon` runs
ten of them in three waves and condenses their results. This directory models the
parts of it whose correctness depends on order, concurrency, failure or arithmetic at
a limit, checks them with TLC and proves most of what it checks with TLAPS.

Every definition is translated from the code under `src/`; `PROJECT.json` maps each
one to its lines. All paths below are relative to `src/`.

## 1. The system

| Component | State | Operations | Interacts with |
|---|---|---|---|
| `full_recon` (`tools/fullrecon_tool.py`) | the `results` dictionary, shared by the main thread and the workers; the wave; the coverage table | `run`, `execute_wave`, `should_run`/`args` callbacks, coverage, `extract_signals` | calls every registered tool on a worker thread; hands the results to the extractors of `tools/signals/` |
| registry (`tools/signals/registry.py`, `extractor.py`) | none: a constant list of (name, function, wave, gate) and one extractor per tool | `extract_ip`, `extract_signals` | read by `full_recon` |
| `dns_enumeration` (`tools/dns_tool.py`) | a pool of ten worker threads, about eighty futures | `_lookup_dns`, `_lookup_subdomain`, `_resolve_cname_chain`, `_lookup_ptr`, the collecting loops, cancellation | the resolver; called by `full_recon` and by `subdomain_takeover` |
| `trace_redirects` (`tools/redirect_tracer.py`) | the chain, the set of URLs seen, the issues | one loop over hops, then judgements on the chain | HTTP servers |
| `subdomain_takeover` (`tools/subdomain_takeover_tool.py`) | three lists of verdicts; per probe: the scheme, the current URL, the redirect chain, the errors | CNAME loop, address checks, `_probe`, `_confirms_takeover` | `dns_enumeration`, the resolver, HTTP servers |
| `headers_analyzer` (`tools/headers_tool.py`, `tools/signals/headers.py`) | the redirect hops | a redirect walk, detection of block pages, judgement of the headers, the signal made from it | HTTP servers |
| `email_security_check` (`tools/email_security_tool.py`, `tools/signals/email_security.py`) | the SPF, DMARC and DKIM results, the recommendations, a score; a pool with one thread per DKIM selector | TXT lookups with a retry, tag parsing, inheritance from the organisational domain, score, warnings | the resolver |
| `robots_txt_inspect` (`tools/robots_txt_tool.py`) | the current group, a flag, the rules | scheme fallback, one step per line | HTTP servers |
| `tech_stack_detect` (`tools/techstack_tool.py`, `tools/fingerprint/`) | the response, the body read so far, the detections | scheme fallback, capped reading, matching of signatures, merge | HTTP servers |
| `cloud_exposure_check` (`tools/cloud_exposure_tool.py`) | a pool of ten threads, some eighty futures, the findings | bucket names, requests, collection as completed, totals | cloud storage providers |
| `port_scan` (`tools/portscan_tool.py`) | the nmap process and its time limit | validation, default timeout, report, hosts that timed out | nmap |
| `asn_lookup` (`tools/asn_tool.py`) | the chunks received | socket reading, choice of the data line | Team Cymru whois |
| `cve_lookup` (`tools/cve_tool.py`) | the filtered CVEs | two searches, version filter | NVD |
| `cert_transparency` (`tools/crt_sh_tool.py`) | subdomains, wildcards, certificates, keys seen | one loop over names, cut, totals | crt.sh |
| `ssl_inspect` (`tools/ssl_tool.py`), `ip_reputation`, `hibp_check`, `whois_lookup` | local variables of one call | one or two network questions, classification of the answers | TLS, AbuseIPDB, HIBP, whois servers |
| signal extractors (`tools/signals/*.py`) | none | pure functions of one tool's result | `full_recon` |
| server and prompts (`server.py`, `tools/prompts/`) | none | registration | the MCP client |

### Hard behaviours, and what is correct

* **The recon scheduler.** Workers and the main thread write one dictionary without a
  lock, and the gate of a tool is evaluated on it twice, once to decide and once for
  the argument. Correct means: waves are barriers, an entry is written once, both
  evaluations agree with the final results, every tool appears in the coverage, no
  thread outlives the call, and nothing but a tool that does not return keeps the call.
* **The DNS pool.** Futures complete in any order and are read in a configured order; an
  NXDOMAIN abandons the call while workers still take from the queue; PTR lookups are
  submitted to the pool from inside it. Correct means: the result is a function of the
  answers and not of their timing, the concurrency bound holds, no future stays
  pending, no new query goes out after the return.
* **Redirects.** A server decides where the next request goes. Correct means: no private
  host is requested, no URL twice, the report says why the trace stopped, and what it
  praises is true of the whole chain.
* **CNAME chains.** Two loops, written differently, meet cycles and a depth limit. Correct
  means: each computes what the aliases say, and they agree.
* **Takeover verdicts.** Two schemes, redirects within each, failures at every step.
  Correct means: the probe stays in scope, gives up only after both schemes failed, and
  every subdomain ends in one list, once.
* **Header scan.** The last response of a walk may be a redirect, an error or a block page.
  Correct means: only a page of the site is judged, and what reaches the report is evidence.
* **Email records.** Lookups fail, records are missing, doubled or invalid, and DKIM
  selectors answer in any order. Correct means: a record is called missing only when its
  name has answered so, the organisational domain speaks last, a selector's status does
  not depend on the order of its records, and score and warnings do not contradict.
* **robots.txt.** The meaning of a line depends on the lines above it. Correct means: the
  rules say what the file says, wherever empty and foreign lines stand; the parser does not
  take an empty rule for one (finding `robots_groups`).
* **Page fingerprint.** https may fail in ways that lead on to http and in ways that do not;
  the body is cut wherever a chunk ends. Correct means: http is the last resort, the
  response is closed, what is searched is a prefix of what was sent, and the merged report
  is the union of what each layer sees.
* **Cloud buckets.** Threads answer in any order. Correct means: every bucket keeps its own
  provider's answer, and a request that failed is not a bucket that is absent.
* **Port scan.** The scan is killed at a limit derived from nmap's limit per host. Correct
  means: the default never loses a scan that nmap can do at a time, and where there is a
  timeout status it marks the hosts that were given up.
* **The whois socket.** A timeout is for each read. Correct means: a reply is used only as a
  whole, and the call ends once the service stops.
* **Filters and cuts.** Version bounds are inclusive, exclusive, absent or unreadable;
  certificate records are cut at fifty. Correct means: the CVEs are those whose bounds span
  the version, and totals are of what there was before the cut.
* **Verdicts.** Ratings, classes and warnings are decision tables over thresholds. Correct
  means: worse evidence never makes a verdict milder, no rule hides a graver one, and a
  failed lookup is not evidence of safety.

`PROJECT.json` lists these hazards at their lines, with the properties that cover them.

## 2. The modules

### FullRecon, ReconPromise, FullReconProofs

`FullRecon` is one call of `full_recon`. `pc` is the main thread, `task[t]` what the loop of
`execute_wave` and the pool have done with tool `t`, `results` the shared dictionary and
`coverage` the table `tool_coverage`.

| Code | Definition |
|---|---|
| `is_valid_domain` | `Reject`, `Accept` |
| the loop of `execute_wave`, `should_run` | `AtTool`, `Skip`, `Admit`, `GateRaises` |
| evaluation of `args`, `executor.submit` | `Submit` |
| `run` on a worker | `Finish` |
| leaving the `with` block, the next wave | `EndWave`; with an exception, `Unwind` |
| coverage, signals | `BuildCoverage`, `ExtractSignals` |
| `extract_ip` | `ExtractIp` |

A tool's result is a success, an error or a skip; only `asn` and `dns` also carry the
address `extract_ip` reads. A pool has as many workers as the wave has tools, so a
submitted tool never queues. That the gate and the argument are separate actions is the
point: another thread may write between them.

`ReconPromise` is what the caller may rely on: each tool is decided once, after all tools
of the earlier waves, the report shows what was decided, and once all are decided it is
delivered. `FullRecon` implements it
under the mapping at its end: an entry of the dictionary is a decision.

### DnsEnumeration

One call of `dns_enumeration`. `pc` is the calling thread, `job[t]` the future of lookup `t`,
`answer[t]` what the lookup came back with, `line[t]` the line of the result made from it.
`Place` and `Precedes` are the submission order of `zip_longest`. `Submit`/`Submitted`,
`Read`/`NextColumn`, `SubmitPtr`/`PtrSubmitted` and `Close` are the calling thread;
`ReadMissing`, `Cancel` and `Abandon` are the early end with `cancel_futures=True`, in which
the queue is drained while workers still take from it; `Take` and `Finish` are a worker.
The formatting of a record is reduced to whether it can raise.

### CnameChain

`_resolve_cname_chain` of the DNS tool and `_resolve_cname` of the takeover tool run side by
side on the same aliases, chosen in the initial state. `Path`, `StopAt` and `Expected` say
what the aliases mean without a loop; both loops are held against that.

### RedirectTrace

`trace_redirects`: one action per way an iteration of the loop can go (`Loops`, `Fails`,
`Arrives`, `NoLocation`, `Redirects`, `HopLimit`), then `Conclude` for the judgements on the
chain. A URL is its scheme (http, https or any other), whether the scheme is spelled in capitals,
and its host, if it has one: `StartsWith` looks at the spelling as `str.startswith` does,
`UrlJoin` normalises it when `urljoin` does, and only what is `Fetchable` can be answered.

### SubdomainTakeover

The main loop (`NoCname`, `CnameUnclear`, `Suspect`, `Confirm`, `NoIndicator`, `Unable`,
`Answer`) and `_probe` for one subdomain at a time: `Visit`, `CheckPasses`, `SchemeFails` and
the ways a response can go. `trail` is the redirect chain of the current scheme, `rejected`
the out-of-scope URL kept as evidence. The CNAME chain's result is chosen freely here and
is `CnameChain`'s subject.

### HeaderWalk

`headers_analyzer` from the call to the signal. `hops` are the responses; `Stop`, `Fails`,
`Arrives`, `NoLocation` and `Redirects` are the ways an iteration of `_walk_redirect_chain`
goes, `Judge` what `headers_analyzer` makes of the last hop, `Extract` the extractor,
`BlockLine` the line of the signals block. `Reject` ends the call: within `full_recon`, where
alone the extractor runs, the domain has been found valid before. A response is its class of status, its target,
the marks of a block page and how many security headers it lacks.

### EmailSecurity

`email_security_check` and its extractor. `CheckSpf`, `CheckDmarc` and `CheckOrganisation`
are the lookups on the calling thread, `LookUpKey` a thread of the DKIM pool, `Rate` the
collection of its results with score and rating, `Extract` the warnings. `Tries` and
`Failed` are `_query_txt` with its second attempt. A record is what its parser makes of it:
mechanisms for SPF, tags for DMARC, a status for DKIM. `asked` remembers how each lookup
ended, which the code forgets; the properties need it.

### ToolCalls and its tools

`ToolCalls` is one call of the server by a client: `tool` is the registered tool that was
named, `pc` the control state of its call. Twelve tools are each a module with `Init`, `Next`
and properties of its own; `ToolCalls` instantiates them on disjoint variables and a shared
`pc`, one action per registration of `server.py`. `SiteCalls` does the same for the tools of
`RedirectTrace`, `HeaderWalk`, `EmailSecurity` and `SubdomainTakeover`, whose modules are also
specifications by themselves. Of `headers_analyzer`, `ToolCalls` has the judgement and
`HeaderWalk` the walk before it. `full_recon` and `dns_enumeration` are checked each by itself.

| Module | Code | Notable actions |
|---|---|---|
| `RobotsParser` | `robots_txt_inspect` | see below |
| `TechStack` | `tech_stack_detect`, `fingerprint`, its extractor | `Fetched`, `NotFetched` per scheme and kind of failure; `ReadChunk`, `BodyEnds`, `BodyBreaks`; `Fingerprint`; `Layers` are the four layer functions |
| `CloudExposure` | `cloud_exposure_check` | `Submit`; `Take` and `Answer` of a worker; `Collect` as completed; `Return` with the totals |
| `AsnLookup` | `asn_lookup` | `Recv`, `GivesUp`, `EndOfReply`, `Parse`; the service is `PeerStops` and what is received |
| `CveLookup` | `cve_lookup` | `SearchNarrow`, `SearchBroad` with one filter, `InRange` |
| `CertTransparency` | `cert_transparency`, its extractor | `TakeSubdomain`, `TakeOther` per name of the log, `Answer` with the cut |
| `PortScan` | `port_scan`, its extractor | `Start` with the limit; nmap (`TakeUp`, `HostEnds`, `Tick`); `Kill` or `Report` |
| `SslInspect` | `ssl_inspect`, its extractor | `Verified`, `Judge` some time later, `Rating` |
| `IpReputation`, `HibpCheck` | the tools of these names, and the extractor of the first | `Classify`; `AskDomain`, `AskEmail`, `AskPastes` |
| `WhoisLookup` | `whois_lookup`, its extractor, `safe_parse_datetime` | `Answered`, `Extract` |
| `HeaderAnalysis` | `_analyze_raw_headers` and the extractor | `Analyze`, with one operator per header |

Values that code only compares are numbers or members of small sets: a version is a
number, a certificate's name its kind, a header what the rules tell apart of it. Days are
counted in halves where the code rounds them down.

### RobotsParser

`robots_txt_inspect`: one action per kind of line (`Agent`, `Path`, `Delay`, `Ignore`), the
file being chosen line by line. `AgentLines` and `Meant` say what a file means by RFC 9309,
without the parser's flag: there an `Allow` or `Disallow` without a value is a rule too,
which for the parser is no line at all. `RulesRight` holds the rules against that as far as
they agree (nothing is ever missing; nothing is added unless a group has only empty rules),
`GroupsStandard` altogether. The standard does not know `Crawl-delay`; it is taken as the
code takes it.

### Mutants

Some modules carry definitions commented "Mutant": plausible mistakes in the definition
that follows them. No specification uses them; each shows that a property listed beside
it in `PROJECT.json` fails when the code is wrong in that way.

## 3. The runs

| Run | Instance | What it shows |
|---|---|---|
| `recon_shipped` | the shipped registry, one tool for each group that behaves alike, two addresses | waves are barriers, the address gate is never stale, the report is complete, nothing raises, no entry is overwritten, `ReconPromise` is implemented (its liveness: once all tools are decided the report comes) |
| `recon_loose` | the `my_ip_tool` of CONTRIBUTING.md, which is gated, in the wave of `asn` and `dns` | the code accepts such a registry; the call may raise, but it waits for its threads, and it ends if no tool runs for ever |
| `dns_pool` | six lookups of all kinds, the first of them before there is a pool, and up to two PTR lookups on two workers | the result follows from the answers alone, the bound holds, no lookup is started after the return, and the call returns with every future settled |
| `cname_chains` | every alias map over four names, depth limit 2 | both loops give what the aliases say and end |
| `site_calls`, `trace_redirects` | every chain over three public hosts, a private one and none, three kinds of scheme in both spellings, three hops | no private request, no URL twice, the stop is explained, the notes are true as far as `NotesTruthful` goes |
| `site_calls`, `headers_analyzer` | four URLs, three hops, five kinds of page | the chain is the walk a browser makes, the signal is evidence |
| `site_calls`, `email_security_check` | two selectors, seven SPF records, sixty DMARC records, five lists of DKIM records, every outcome of the lookups | absence is evidence, inheritance is the last resort, keys are judged whatever their order, rating and warnings agree |
| `site_calls`, `subdomain_takeover` | two subdomains, two redirects per scheme | scope, scheme fallback, one verdict per subdomain |
| `tool_calls` | twelve tools with small sets of replies; robots.txt files of up to five lines, bodies of up to four units in chunks of two with a limit of three, five or six buckets of two providers on two threads, replies of up to four whois lines, three hosts of which nmap scans two at a time | each tool's answer is what its replies say, cuts and thresholds fall where they should, verdicts follow the evidence, and a call ends unless one of its own requests lasts for ever |
| `takeover_malformed`, `headers_no_data`, `email_warnings`, `https_note` | as `site_calls` | violated: see Findings |
| `robots_groups`, `pastes` | as `tool_calls` | violated: see Findings |

**Bounds.** The registry instances keep every distinction the scheduler makes: a wave with
both sources of the address, a wave of ungated tools, a gated tool alone, a gated tool
beside others. Two addresses let `asn` and `dns` disagree. Two workers and six lookups make
the queue longer than the pool, in both phases, and let an NXDOMAIN be read with lookups
in every state; one address per answer gives zero, one or two PTR lookups. Four names
and depth 2 contain every shape of chain: complete, broken, cut at the limit, a cycle into
the first, a middle and the last name, and a cycle at the very step of the limit. Three
hops with a long-chain threshold of two reach the loop, limit, private-address and
long-chain judgements together; schemes change in every direction, to a third one included. Two redirects
per scheme and two paths allow a loop, a cut and a change of host in one probe; two
subdomains show that a verdict survives the next probe. For the header scan a fourth URL
makes a chain that exceeds three hops without a loop possible, and 0, 2 and 4 absent
headers are the classes the extractor tells apart. Two selectors let a found key and a
revoked or malformed one stand beside each other; the SPF and DMARC records contain every
branch of the scores. Five lines are enough for a group, its directive, a second agent,
an ignored line and the directive after it. A port scan lists any subset of two
ports of a host, and its timeout status is there or not. A bucket's provider answers 200,
403, 404, any other status or nothing. In `tool_calls` a body may exceed its limit,
meet it exactly at the end of a chunk or stay below; a company called like a configured
word makes one Azure name twice; versions 0 to 2 put a version below, at and above a bound of
each kind, and a match takes every combination of absent, unreadable and present bounds; three lines of a log with a cut of one repeat a name under one certificate
or two; three hosts on two slots make a default timeout that suffices for some and not
for all, and a host timeout of ten ticks makes the margin exact; scores, days and counts
are those on either side of every threshold; each response header takes all its values
beside good ones, and all combinations of present and absent headers occur.

**Fairness.** Nothing outside a tool is assumed to answer in the end unless the code sees to
it.

* `DnsEnumeration` and `CnameChain`: every DNS query has a lifetime for the whole query, so a
  running lookup ends (weak fairness of `Finish`), and an idle worker takes the head of the
  queue.
* `FullRecon`: only the main thread is fair. Its tools are not: `execute_wave` waits without
  a timeout, and the tools' own timeouts are for one read each. `CallEnds` says that the call
  ends if no tool runs for ever, and `ReconPromise` promises the report once the tools are
  decided.
* `ToolCalls`: what the tool does between its requests is fair, and nmap, which is killed at
  its limit. A request is not (`Requesting`, and `Answering` for the threads of the bucket
  pool): `requests`' timeouts are per read (for instance `tools/robots_txt_tool.py:44`, `48`,
  where the body has no cap either), the whois library reads in a loop
  (`tools/whois_tool.py:15`), and so does `asn_lookup` (`tools/asn_tool.py:42`). `CallEnds`
  says that a call ends unless one of its own requests lasts for ever.

No strong fairness is assumed anywhere. `SiteCalls` and its modules state safety only; that
their loops cannot go on without end is proved (`TracesRunOut`, `WalksRunOut`,
`ScansRunOut`), and e-mail checks are straight-line.

**Deadlock** is checked in every run. A call that has returned stutters through
`Terminated`, so anything else that stops is an error.

## 4. Findings

Each of these has a run in which TLC finds the quoted statement violated.

* `takeover_malformed`. CONTRIBUTING.md:33 asks that malformed upstream responses be
  returned as structured errors. A `Location` that `urljoin` rejects raises through
  `_probe`, and the verdicts on all other subdomains are lost with it.
* `headers_no_data`. The docstring of `headers_extractor` (`tools/signals/headers.py:14-15`)
  leaves the signal at its default "so the prompt's "Insufficient data" rule applies
  instead". The default is an empty list, and after a walk that failed the signals block prints
  it as "0 — none", as it does for a page that lacks nothing.
* `email_warnings`. "A DNS failure on the exact name must not look like a missing record."
  (`tests/test_email_security.py:615`). The tool's recommendations keep the two apart; its
  `found` flag does not, and the extractor warns of a missing record.
* `https_note`. "Chain stayed on HTTPS throughout" (`tools/redirect_tracer.py:294`) is said of
  a chain from https to, say, `ftp://10.0.0.5/`: only a next scheme of exactly `http` counts
  as leaving https (169).
* `robots_groups`. README.md:148 claims "standards-compliant `robots.txt` directive parsing".
  An empty `Disallow:` is no line for the parser (`tools/robots_txt_tool.py:102`), so the next
  agent joins the group and its rules are reported of both.
* `pastes`. "Paste lookup is supplemental; breach data remains useful alone."
  (`tools/hibp_tool.py:108`). A paste reply whose JSON has no length raises a `TypeError` at
  104, which only the outer handler catches, and the breaches are lost.

Seen while modelling, without a run of their own:

* CONTRIBUTING.md:446 says that in `should_run` "`results` contains the raw results of tools
  executed in previous waves". `tools/fullrecon_tool.py:112` evaluates it on the live
  dictionary, which tools of the same wave also write. The shipped registry has one gated
  tool, alone in its wave, and is not affected.
* The comment at `tools/redirect_tracer.py:267-269` says that only a chain "that never
  reaches https anywhere" is flagged. The code compares spellings: a redirect to
  `HTTPS://host` reaches https and is still flagged.
* A redirect without `Location` ends the header walk and is reported as "a redirect loop or
  exceeding the 8-hop limit" (`tools/headers_tool.py:247-251`).
* docs/tools/cert_transparency.md:154-155 says that names are kept by "a string-suffix check
  without a dot-boundary check". The code has the boundary (`tools/crt_sh_tool.py:9-16`), and
  a name like `notexample.com` is a foreign one in `CertTransparency`.
* Any status of a bucket request but 200 and 403 ends as "NOT_FOUND", a 429 or 503 included
  (`tools/cloud_exposure_tool.py:111-117`; a test expects it of a 500). `FindingsAreReplies`
  says so too: "not found" is not evidence that there is no bucket.
* When nmap's XML is missing or unreadable, `host_timeout_status` is null and the scan is a
  success (`tools/portscan_tool.py:84-87`, `198-204`), so a host that was given up looks like
  one with nothing to list. docs/tools/port_scan.md:149 documents the null.
* `ssl_inspect` verifies the certificate and sets a minimum protocol, so "Expired" is
  reached only by a certificate that ends during the call, and `weak_tls_version` is never
  true (`tools/ssl_tool.py:176-181`, `216`); the extractor's warning of an expired certificate
  is as rare. A certificate with a day left can still be rated Excellent (score 9).
* A whitelisted address with a score above 20 is "trusted" and warned of as "elevated risk"
  (`tools/signals/ip_reputation.py:19`); a score that is null fails the call unless the
  address is whitelisted (`tools/iprep_tool.py:58`).
* Of several expiry dates the first that can be parsed decides, not the earliest
  (`utils/helpers.py:89-94`).
* A whois line is accepted once its seventh field has begun, so a reply cut there and then
  closed by the service is used (`tools/asn_tool.py:66`).
* `dns_extractor` reads a failed A or MX lookup as "missing" (`tools/signals/dns.py:7-14`),
  like the e-mail extractor of the finding above.
* The findings of failed bucket requests are in no total
  (`tools/cloud_exposure_tool.py:165-171`).
* No registered tool of `full_recon` looks up CVEs, and the signals block says "CVEs found :
  none" in every report (`tools/fullrecon_tool.py:58-66`).

## 5. The proofs

Every proof is for all values of the constants that satisfy the named assumptions of the
module, and for whatever the network answers. `TypeCorrect` is in each proof module. Four of
the modules (`RedirectTraceProofs`, `HeaderWalkProofs`, `EmailSecurityProofs`,
`SubdomainTakeoverProofs`) prove the properties of `SiteCalls`, each those of one instance:
the tool's own steps keep its invariant, and a step of a call of the tool is one of these
(`StepsAreOwn`), since the other tools' actions are not enabled and share only `pc`.

| Module | Theorems | Argument |
|---|---|---|
| `FullReconProofs` | `BarrierHolds`, `ThreadsEnd`, `ReportsAreComplete`, `EntriesWrittenOnce`, `NeverStuck`, `CallsRunOut`; with a sound registry `NoCrash`, `GateIsFresh`, `ImplementsPromise` | below |
| `DnsEnumerationProofs` | `ResultsFollow`, `NoneAfterReturn`, `PoolHolds`, `NeverWaitsInVain`, `CallsRunOut` | a future has an answer exactly when it is done, and a line is written only from a done future, so no worker can change what a line rests on; the addresses are fixed before the PTR batch; the bound is an invariant of the number of running futures; what the caller blocks on was submitted and not cancelled (`SubmittedFirst`), and the order of the queue has a first element in every non-empty set (`FirstExists`) |
| `RedirectTraceProofs` | `PrivateNeverFetched`, `ChainsAreWalks`, `StopsAreExplained`, `NotesAreTrue`, `TracesRunOut` | while the loop runs, the chain is a walk whose last hop points to the current URL, without private hosts or stop issues; the step that leaves the loop reports the one that applies; the issues only grow, so what a hop has noted stays reported |
| `HeaderWalkProofs` | `HopsAreWalks`, `SignalsAreEvidence`, `WalksRunOut` | all hops before the last are redirects; a hop is analysed only if it is neither a redirect nor a block page |
| `SubdomainTakeoverProofs` | `ProbesStayInScope`, `UnableIsLastResort`, `EverySubdomainJudged`, `VerdictsStand`, `ScansRunOut` | three parts of the invariant, on scope, schemes and verdicts: the next URL is fresh and in scope; the errors say which scheme is tried; exactly the subdomains before the loop variable are judged |
| `CnameChainProofs` | `ChainsFollowAliases`, `ChainsAreRight`, `ChainsRunOut` | each chain follows the aliases and each verdict has its reason at the chain's end; so a collected chain is, link by link, the recursive reference `Path`, the first repeated or missing name is where the reference stops, and both loops agree with it |
| `EmailSecurityProofs` | `AbsenceRestsOnEvidence`, `InheritanceComesLast`, `RatingsMatchWarnings`, `KeysAreJudged` | lemmas about the parsers (scores, the first `all` mechanism, the fold over a selector's records), then an invariant that follows the order of the lookups |
| `ToolCallsProofs` | `FetchesAreRight`, `AnswersAreWhole`, `CvesAreRight`, `VerdictsFollow`, `FindingsAreRight`, `CountsAreRight`, `RulesAreRight`, `ReportsAreMerged`, `CallsRunOut`; if nmap's setup fits into the margin, `ScansAreKept` | a call is of one tool and changes no other tool's variables (`StepsAreOwn`), so the invariant of each tool has to be kept by its own steps only; the verdicts rest on lemmas about the decision tables; each bucket that has answered has one finding, so that counting findings counts buckets (`AsManyAsValues`; the word lists are finite, by `CloudAssumption`); the certificates kept are the first occurrences of the names read so far; the saved rules say what the groups that are closed for the parser say, the current rule is the open group's (`Said`, `Group`), a new line only closes a group or extends it, and without a group of empty rules the parser's groups are the standard's; a host waits after the setup only while nmap has started as many as it handles at a time (`Margin`), so what runs at the limit was started in time; after any number of markers the loop of the fingerprint engine holds the strongest of those that matched, each layer of the page sees only the markers of its own types, and so the merge of the layers is what one pass over everything would give |

`FullReconProofs` proves its theorems for every registry satisfying `RegistryAssumption` (finitely many
tools with distinct positions, `asn` and `dns` among them), every set of addresses and every
outcome of the tools. `RegistrySound` says that every wave is executed and that a gated tool
is in a later wave than `asn` and `dns`; only `NoCrash`, `GateIsFresh` and
`ImplementsPromise` (initial states map to initial states of `ReconPromise` and every step
to a step or a stutter) need it.

None of the properties is inductive. `ScheduleInv` strengthens them with what the code
relies on but never states: the dictionary holds an entry for exactly the decided tools
(`DictionaryMatches`); the tools of earlier waves are all decided and those of later waves
all idle (`WavesInOrder`); the main thread holds at most one admitted tool (`OneAdmitted`);
and the coverage table is the dictionary's from when it is built (`TableBuilt`). From this,
nothing `extract_ip` reads can change once a gated tool is looked at, provided its
sources are in earlier waves; `GateInv` records the decision and the argument in terms of
the dictionary, and needs `RegistrySound`. `recon_loose` shows that without it the call may
raise, so the assumption cannot be dropped.

`ScansAreKept` needs `SetupFits`: nmap's work before the first host takes less than the margin
that `_default_timeout` adds to `--host-timeout`. The code hopes for it and cannot enforce it;
in the instance of `MCToolCalls` it holds.

`TechAssumption` says what the signature tables are: finite lists of markers of the five
known types with a confidence above zero. The shipped ones have 75 and more; the comment
of the tables would allow a zero (`tools/fingerprint/signatures.py:10`), which the engine
could not tell from a marker that did not match.

**That calls end.** Liveness is out of the prover's reach, since it needs ENABLED, but the
two facts it rests on are not. The theorems that end in `RunOut` bound the number of steps:
`StepsLeft` is a natural number, never above a limit that depends on the constants only, and
each step that changes anything makes it smaller (`ScansRunOut`: or goes on to the next
subdomain). For the two modules with threads, `NeverStuck` and `NeverWaitsInVain` say that
until the call has ended the guard of some action holds; there is no deadlock for any
registry, list or size of the pool. What fairness adds, that a step which can be taken is
taken, stays with TLC. The counting in `FullRecon` and `DnsEnumeration` is over pairs of a
tool or lookup and a stage it has yet to reach, so that steps of different threads count
alike. `CallsRunOut` of `ToolCalls` counts twice: `Rank` says how many stages the caller has
left and `Work` what is left of the loop it is in (lines, units of the body, requests of the
pool, nmap's hosts and time), and each step of a tool makes the first smaller, or keeps it
and makes the second smaller. The lengths of a robots file and of a certificate log are the
model's bounds, the limit of the body and nmap's time limit the code's. The steps of the
whois service change neither number: nothing in the code bounds what it sends, and the
caller's wait is one of the requests that `CallEnds` excepts.

**Recursive functions.** Induction over data is stated in the library with operator
parameters, which the provers cannot instantiate. What is used instead is that < is
well-founded on the naturals, a fact without parameters: a non-empty set of naturals has a
least element (`LeastElement`, or the same argument in place), and a set of naturals that
holds 0 and with each number the next holds all (`Induction`). With these the alias path,
the loop over markers, the fold over a selector's records, and the first of a set in
registry or queue order are reasoned about.

Only model-checked: liveness (`CallEnds` of both specifications, `CallReturns`, `ChainsEnd`,
and the fairness part of `PromiseKept`). Every other property of the passing runs is the
statement of a theorem.

## 6. Not modelled

The text of the report and of the signal block, logging, record formats, the contents of
the fingerprint and signature tables, the prompts, the validation of domain names. The
address checked before a takeover probe and the address the request then connects to may
differ; the source states this window itself
(`tools/subdomain_takeover_tool.py:324-326`) and it is listed as a hazard without a
property: the models have names, not addresses, in requests. The extractors of `dns`, `asn`
and `cve` copy fields. That several clients call tools at the same time adds nothing: no
tool keeps state beyond its call.

## 7. Plan

All modules of the plan are written, and every safety property the passing runs check is
proved. What could follow: that no call of the modules without threads and of the bucket pool
is ever stuck, as `NeverStuck` says for `FullRecon`; and the extractors of `dns`, `asn` and
`cve`, should they come to do more than copy fields.
