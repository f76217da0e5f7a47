---------------------------- MODULE SourceEvidence --------------------------
(***************************************************************************)
(* What a research report is worth: the provider's JSON report is reduced  *)
(* to the sources it may use, and, for the local Codex, every quoted page  *)
(* is fetched again over the public transport, a few at a time under one   *)
(* deadline, and a claim stays "supported" only if every page it rests on  *)
(* contains its quote.                                                     *)
(*                                                                         *)
(* The web is chosen in the initial state: which addresses are public,     *)
(* where a URL redirects to, and which pages contain the quote.            *)
(***************************************************************************)
EXTENDS Naturals, Sequences

CONSTANTS
    Urls,          \* URLs a report may name or a redirect lead to
    Reports,       \* the reports a provider may return
    Fan,           \* pages fetched at the same time
    MaxRedirects,  \* redirects followed by one fetch
    SourceLimit,   \* sources asked for
    NoUrl          \* no redirect

VARIABLES
    web,           \* the web: [public, redirect, quotes]
    evidence,      \* the research call: its step, report, batch and result
    fetch,         \* per source index: the fetch in flight
    visited        \* history: URLs a request was sent to

evidenceVars == <<web, evidence, fetch, visited>>

RetrievalStatus == {"none", "matched", "mismatch", "unavailable"}
ClaimStatus == {"supported", "disputed", "unverified", "rejected"}

\* A report as the schema admits it: one to some sources with a quote or
\* none, and claims that name URLs.
SourcingResult ==
    [sources : Seq([url : Urls, quoted : BOOLEAN]),
     claims : SUBSET [status : ClaimStatus, urls : SUBSET Urls], searched : BOOLEAN]

NoFetch == [pc |-> "none", url |-> NoUrl, hops |-> 0, status |-> "none"]

Indices == 1..SourceLimit

Web == [public : SUBSET Urls, redirect : [Urls -> Urls \cup {NoUrl}], quotes : SUBSET Urls]

FetchSteps == {"none", "request", "done"}
CallSteps  == {"ask", "verify", "done", "failed"}
Hops       == 0..(MaxRedirects + 1)
Offsets    == 0..SourceLimit

Fetch == [pc : FetchSteps, url : Urls \cup {NoUrl}, hops : Hops, status : RetrievalStatus]
Call  == [pc : CallSteps, report : SourcingResult, offset : Offsets, verified : SUBSET Urls]

EvidenceTypeOK ==
    /\ web \in Web /\ evidence \in Call
    /\ fetch \in [Indices -> Fetch] /\ visited \subseteq Urls

NoReport == [sources |-> <<>>, claims |-> {}, searched |-> FALSE]

EvidenceInit ==
    /\ web \in Web
    /\ evidence = [pc |-> "ask", report |-> NoReport, offset |-> 0, verified |-> {}]
    /\ fetch = [i \in Indices |-> NoFetch]
    /\ visited = {}

-----------------------------------------------------------------------------
(* The provider's report.                                                  *)

urlsOf(sources) == {sources[i].url : i \in DOMAIN sources}

\* The sources up to the limit; claims keep the URLs that are among them.
selected(report) ==
    LET kept == SubSeq(report.sources, 1,
                       IF Len(report.sources) < SourceLimit THEN Len(report.sources)
                                                            ELSE SourceLimit)
    IN  [report EXCEPT !.sources = kept,
                       !.claims = {[c EXCEPT !.urls = @ \cap urlsOf(kept)] : c \in report.claims}]

\* The request fails, the answer is no report, or it is taken; a local run
\* without a recorded web action is refused.
research ==
    /\ evidence.pc = "ask"
    /\ \/ evidence' = [evidence EXCEPT !.pc = "failed"]
       \/ \E report \in Reports :
            evidence' = IF report.searched
                        THEN [evidence EXCEPT !.pc = "verify", !.report = selected(report)]
                        ELSE [evidence EXCEPT !.pc = "failed"]
    /\ UNCHANGED <<web, fetch, visited>>

-----------------------------------------------------------------------------
(* The public transport.                                                   *)

\* The name must resolve to public addresses only, at the socket's lookup.
isPublicFeedAddress(url) == url \in web.public

\* Mutant: only the first URL of a chain is checked.
publicFirst(f) == f.hops > 0 \/ isPublicFeedAddress(f.url)

publicUrl(f) == isPublicFeedAddress(f.url)

sources == evidence.report.sources

\* The batch in flight: the Fan sources from the offset on.
Batch == {i \in Indices : evidence.offset < i /\ i <= evidence.offset + Fan
                          /\ i <= Len(sources)}

\* Promise.all: every source of the batch is asked for at once.
StartBatch ==
    /\ evidence.pc = "verify"
    /\ Batch # {} /\ \A i \in Batch : fetch[i].pc = "none"
    /\ fetch' = [i \in Indices |->
                    IF i \in Batch THEN [NoFetch EXCEPT !.pc = "request", !.url = sources[i].url]
                                   ELSE fetch[i]]
    /\ UNCHANGED <<web, evidence, visited>>

\* What a page that was retrieved says about the source's quote.
matches(i, url) == sources[i].quoted /\ url \in web.quotes

ends(i, status) ==
    /\ fetch' = [fetch EXCEPT ![i].pc = "done", ![i].status = status]
    /\ evidence' = [evidence EXCEPT !.verified =
                       IF status = "matched" THEN @ \cup {sources[i].url} ELSE @]

\* One hop of a fetch: refused, failed, followed, or the page itself.
fetchPublicResource(i) ==
    LET f == fetch[i] IN
    /\ evidence.pc = "verify" /\ f.pc = "request"
    /\ IF ~publicUrl(f) \/ f.hops > MaxRedirects
       THEN ends(i, "unavailable") /\ UNCHANGED visited
       ELSE /\ visited' = visited \cup {f.url}
            /\ \/ ends(i, "unavailable")           \* an error, a status, a limit
               \/ /\ web.redirect[f.url] # NoUrl
                  /\ fetch' = [fetch EXCEPT ![i].url = web.redirect[f.url], ![i].hops = @ + 1]
                  /\ UNCHANGED evidence
               \/ /\ web.redirect[f.url] = NoUrl
                  /\ ends(i, IF matches(i, f.url) THEN "matched" ELSE "mismatch")
    /\ UNCHANGED web

\* The deadline of the whole check: every fetch in flight ends unavailable,
\* and so does each one started later.
deadline ==
    /\ evidence.pc = "verify"
    /\ \E i \in Batch : fetch[i].pc = "request"
    /\ fetch' = [i \in Indices |->
                    IF i <= Len(sources) /\ fetch[i].pc # "done"
                    THEN [NoFetch EXCEPT !.pc = "done", !.status = "unavailable"]
                    ELSE fetch[i]]
    /\ evidence' = [evidence EXCEPT !.offset = Len(sources)]
    /\ UNCHANGED <<web, visited>>

nextBatch ==
    /\ evidence.pc = "verify"
    /\ Batch # {} /\ \A i \in Batch : fetch[i].pc = "done"
    /\ evidence' = [evidence EXCEPT !.offset =
                       IF @ + Fan < Len(sources) THEN @ + Fan ELSE Len(sources)]
    /\ UNCHANGED <<web, fetch, visited>>

\* Mutant: one verified page is enough for a claim.
someVerified(c) == c.urls \cap evidence.verified # {}

allVerified(c) == c.urls # {} /\ c.urls \subseteq evidence.verified

\* A supported claim without verified sources becomes unverified.
verifySourceExcerpts ==
    /\ evidence.pc = "verify" /\ evidence.offset = Len(sources)
    /\ evidence' = [evidence EXCEPT !.pc = "done", !.report.claims =
          {[c EXCEPT !.status = IF @ = "supported" /\ ~allVerified(c) THEN "unverified" ELSE @] :
              c \in evidence.report.claims}]
    /\ UNCHANGED <<web, fetch, visited>>

EvidenceNext ==
    \/ research \/ StartBatch \/ deadline \/ nextBatch \/ verifySourceExcerpts
    \/ \E i \in Indices : fetchPublicResource(i)

EvidenceSpec == EvidenceInit /\ [][EvidenceNext]_evidenceVars

EvidenceFairSpec == EvidenceSpec /\ WF_evidenceVars(EvidenceNext)

-----------------------------------------------------------------------------
(* Properties.                                                             *)

\* A claim that leaves as supported names at least one source, and each of
\* its URLs led, over public addresses only, to a page that contains the
\* quote of a source with that URL.
SupportedIsQuoted ==
    evidence.pc = "done" =>
        \A c \in evidence.report.claims : c.status = "supported" =>
            /\ c.urls # {}
            /\ \A u \in c.urls : \E i \in DOMAIN sources :
                /\ sources[i].url = u /\ fetch[i].status = "matched"
                /\ fetch[i].url \in web.quotes \cap web.public

\* No request leaves for a private address, directly or by redirect.
OnlyPublicIsRead == visited \subseteq web.public

\* The check ends whatever the pages do: redirect loops, refusals, timeouts.
EvidenceEnds == <>(evidence.pc \in {"done", "failed"})

-----------------------------------------------------------------------------
(* The inductive invariant.                                                *)

\* A fetch is of a source the report has; one that matched found the quote at
\* a public address.
FetchesAreOfSources ==
    \A i \in Indices :
        /\ fetch[i].pc # "none" => i \in DOMAIN sources
        /\ fetch[i].status # "none" => fetch[i].pc = "done"
        /\ fetch[i].status = "matched" => fetch[i].url \in web.quotes \cap web.public

\* A URL counts as verified because a source with that URL matched.
VerifiedMatched ==
    \A u \in evidence.verified : \E i \in Indices :
        i \in DOMAIN sources /\ sources[i].url = u /\ fetch[i].status = "matched"

EvidenceInv ==
    /\ EvidenceTypeOK /\ FetchesAreOfSources /\ VerifiedMatched /\ OnlyPublicIsRead
    /\ Len(sources) <= SourceLimit
    /\ evidence.pc = "ask" => sources = <<>>
    /\ evidence.pc = "done" =>
         \A c \in evidence.report.claims : c.status = "supported" => allVerified(c)
=============================================================================
