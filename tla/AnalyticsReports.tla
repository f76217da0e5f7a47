--------------------------- MODULE AnalyticsReports -------------------------
(***************************************************************************)
(* Post analytics and client reports.  A capture job reads one published   *)
(* post's metrics from its provider and saves a snapshot, whatever the     *)
(* outcome; a report collects the newest snapshot of every published post, *)
(* groups them by account and adds up what is comparable; a client link    *)
(* opens one immutable report snapshot until it is revoked or expires.     *)
(*                                                                         *)
(* A metric is abstracted to its contract (unit, provider metric, source,  *)
(* coverage, version and aggregation, which the code hashes): two numbers  *)
(* of one contract may be added, others may not.  One account, one metric. *)
(***************************************************************************)
EXTENDS Naturals, FiniteSets, FiniteSetsExt

CONSTANTS
    Posts,         \* proofs of publication
    Mode,          \* [Posts -> evidence mode]
    Platform,      \* [Posts -> platform]
    Captures,      \* capture jobs
    Contracts,     \* metric contracts a provider may answer with
    NonAdditive,   \* those marked "non_additive"
    Links,         \* client links
    NoPost,        \* an idle job
    MaxTime,       \* bound on the clock
    StaleAfter,    \* age after which a ready snapshot is stale
    MaxTries       \* attempts of a capture job

VARIABLES
    now,           \* the clock
    capture,       \* the jobs
    snapshots,     \* post_analytics_snapshots
    definition,    \* the report definition
    generation,    \* the report being generated
    report,        \* analytics_report_snapshots: the one saved, immutable
    link           \* analytics_report_shares

analyticsVars == <<now, capture, snapshots, definition, generation, report, link>>

PublishEvidenceMode == {"official", "manual_attestation", "provider_reconciliation",
                        "simulation", "legacy_unknown"}
isClientReportEligibleEvidenceMode(m) == m \notin {"simulation", "legacy_unknown"}

AnalyticsSnapshotStatus ==
    {"ready", "pending", "unavailable", "permission_missing", "unsupported", "failed"}
AnalyticsReportDataStatus == AnalyticsSnapshotStatus \cup {"not_fetched", "stale"}

\* A saved capture; the job is kept as history.
PostAnalyticsSnapshot ==
    [post : Posts, at : 0..MaxTime, status : AnalyticsSnapshotStatus,
     contract : Contracts \cup {0}, job : Captures]

AnalyticsReportProofRow ==
    [status : AnalyticsReportDataStatus, contract : Contracts \cup {0}]

NoReport == [rows |-> <<>>, total |-> "none"]

\* A job before its first attempt, or after its last.
jobAt(pc, p) == [pc |-> pc, post |-> p, started |-> 0, tries |-> 0, answer |-> "none", contract |-> 0, at |-> 0]

CaptureJob ==
    [pc : {"idle", "start", "ask", "save", "fail", "done"}, post : Posts \cup {NoPost},
     started : 0..MaxTime, tries : Nat, at : 0..MaxTime, contract : Contracts \cup {0},
     answer : {"none", "ready", "pending", "unavailable", "unsupported", "permission_missing",
               "transient", "provider_failed"}]

AnalyticsTypeOK ==
    /\ now \in 0..MaxTime
    /\ capture \in [Captures -> CaptureJob]
    /\ snapshots \subseteq PostAnalyticsSnapshot
    /\ definition \in [status : {"active", "archived"}, scope : SUBSET Posts]
    /\ generation \in [pc : {"idle", "collect"}, at : 0..MaxTime]
    /\ report.total \in {"none", "ready", "unavailable", "not_comparable"}
    /\ DOMAIN report.rows \subseteq Posts
    /\ \A p \in DOMAIN report.rows : report.rows[p] \in AnalyticsReportProofRow
    /\ link \in [Links -> {"none", "open", "revoked"}]

AnalyticsInit ==
    /\ now = 0
    /\ capture = [c \in Captures |-> jobAt("idle", NoPost)]
    /\ snapshots = {}
    /\ definition \in [status : {"active"}, scope : (SUBSET Posts) \ {{}}]
    /\ generation = [pc |-> "idle", at |-> 0]
    /\ report = NoReport
    /\ link = [l \in Links |-> "none"]

-----------------------------------------------------------------------------
(* The connectors: what a platform may answer about one post.              *)

\* Metrics, none, missing access, a rate limit or an outage ("transient"), or
\* an error that will not pass.
instagramAnalytics == {"ready", "unavailable", "permission_missing", "transient",
                       "provider_failed"}
youtubeAnalytics   == {"ready", "unavailable", "permission_missing", "transient",
                       "provider_failed"}

\* Facebook needs its reviewed contract, asks metric by metric after the
\* first refusal, keeps what it got, and calls an empty answer of a young
\* post pending.
facebookAnalytics == {"ready", "pending", "unavailable", "unsupported", "permission_missing",
                      "transient", "provider_failed"}

readPostAnalytics(p) ==
    CASE Platform[p] = "instagram" -> instagramAnalytics
      [] Platform[p] = "facebook"  -> facebookAnalytics
      [] OTHER                     -> youtubeAnalytics

\* The worker's verdict on a failed request: the errors that pass are tried
\* again while attempts remain.
retries(c) == /\ capture[c].answer = "transient"
              /\ capture[c].tries < MaxTries

failureStatus(c) ==
    IF capture[c].answer \in {"permission_missing", "unsupported"} THEN capture[c].answer
    ELSE IF retries(c) THEN "pending" ELSE "failed"

-----------------------------------------------------------------------------
(* Capture jobs.                                                           *)

others == <<definition, generation, report, link>>

\* A refresh, or the first capture after publishing, is queued and taken up.
refresh(c, p) ==
    /\ capture[c].pc = "idle"
    /\ capture' = [capture EXCEPT ![c] = jobAt("start", p)]
    /\ UNCHANGED <<now, snapshots, others>>

\* The job reads the proof and its account and stamps its start.
StartCapture(c) ==
    /\ capture[c].pc = "start"
    /\ \E account \in BOOLEAN :
        capture' = [capture EXCEPT ![c] =
            [@ EXCEPT !.pc = IF account THEN "ask" ELSE "fail",
                      !.answer = IF account THEN "none" ELSE "permission_missing",
                      !.started = now, !.tries = capture[c].tries + 1]]
    /\ UNCHANGED <<now, snapshots, others>>

Ask(c) ==
    /\ capture[c].pc = "ask"
    /\ \E answer \in readPostAnalytics(capture[c].post), k \in Contracts :
        capture' = [capture EXCEPT ![c] =
            [@ EXCEPT !.answer = answer,
                      !.at = IF answer \in {"ready", "pending", "unavailable"} THEN now ELSE 0,
                      !.contract = IF answer = "ready" THEN k ELSE 0,
                      !.pc = IF answer \in {"ready", "pending", "unavailable"}
                             THEN "save" ELSE "fail"]]
    /\ UNCHANGED <<now, snapshots, others>>

saved(c, at, status, contract) ==
    snapshots \cup {[post |-> capture[c].post, at |-> at, status |-> status,
                     contract |-> contract, job |-> c]}

caught(c) ==
    capture' = [capture EXCEPT ![c] = [@ EXCEPT !.pc = "fail", !.answer = "provider_failed", !.contract = 0, !.at = 0]]

\* The answer is saved, stamped with the time it was captured.  The write may
\* fail, or succeed with its acknowledgement lost: the catch block follows.
saveSnapshot(c) ==
    LET j == capture[c] IN
    /\ j.pc = "save"
    /\ \/ /\ snapshots' = saved(c, j.at, j.answer, j.contract)
          /\ \/ capture' = [capture EXCEPT ![c] = jobAt("done", NoPost)]
             \/ caught(c)
       \/ caught(c) /\ UNCHANGED snapshots
    /\ UNCHANGED <<now, others>>

\* Mutant: a failure is stamped when it is saved.
stampOfSave(c) == now

\* A failure carries the start of its attempt.
stampOfFailure(c) == capture[c].started

SaveFailure(c) ==
    /\ capture[c].pc = "fail"
    /\ snapshots' = saved(c, stampOfFailure(c), failureStatus(c), 0)
    /\ capture' = [capture EXCEPT ![c] =
                      IF retries(c) THEN [@ EXCEPT !.pc = "start"]
                      ELSE jobAt("done", NoPost)]
    /\ UNCHANGED <<now, others>>

-----------------------------------------------------------------------------
(* Reports.                                                                *)

ofPost(p) == {s \in snapshots : s.post = p}

\* The newest snapshots of a post by capture time (equal times are ordered
\* arbitrarily by the database).
latestOf(p) == {s \in ofPost(p) : \A t \in ofPost(p) : t.at <= s.at}

rowOf(s, at) ==
    [contract |-> s.contract,
     status |-> IF s.status = "ready" /\ at > s.at + StaleAfter THEN "stale" ELSE s.status]

NotFetched == [contract |-> 0, status |-> "not_fetched"]

\* Every published post of the definition's brands, platforms, accounts and
\* period, with its newest snapshot.
proofRows(at) ==
    {r \in [definition.scope -> AnalyticsReportProofRow] :
        \A p \in definition.scope :
            \/ ofPost(p) = {} /\ r[p] = NotFetched
            \/ \E s \in latestOf(p) : r[p] = rowOf(s, at)}

measured(rows) == {p \in DOMAIN rows : rows[p].status \in {"ready", "stale"}}
contractsOf(rows) == {rows[p].contract : p \in measured(rows)}

\* Mutant: the first contract found stands for all.
firstContract(rows) == 1

contractCount(rows) == Cardinality(contractsOf(rows))

\* The account's total: a sum, when there is something to add, of one
\* contract, that adds up.
total(rows) ==
    IF measured(rows) = {} THEN "unavailable"
    ELSE IF contractCount(rows) # 1 \/ contractsOf(rows) \subseteq NonAdditive THEN "not_comparable"
    ELSE "ready"

\* The definition is read; the rows are collected afterwards and the
\* immutable snapshot is saved with them.
generate ==
    /\ generation.pc = "idle" /\ definition.status = "active"
    /\ report = NoReport                    \* bound: one snapshot of the report
    /\ generation' = [pc |-> "collect", at |-> now]
    /\ UNCHANGED <<now, capture, snapshots, definition, report, link>>

createAnalyticsReportSnapshot ==
    /\ generation.pc = "collect"
    /\ \E rows \in proofRows(generation.at) :
        report' = [rows |-> rows, total |-> total(rows)]
    /\ generation' = [pc |-> "idle", at |-> 0]
    /\ UNCHANGED <<now, capture, snapshots, definition, link>>

archiveAnalyticsReportDefinition ==
    /\ definition.status = "active"
    /\ definition' = [definition EXCEPT !.status = "archived"]
    /\ UNCHANGED <<now, capture, snapshots, generation, report, link>>

\* Mutant: only posts with metrics are looked at.
provenIfMeasured(rows) ==
    \A p \in measured(rows) : isClientReportEligibleEvidenceMode(Mode[p])

mayShare(rows) == \A p \in DOMAIN rows : isClientReportEligibleEvidenceMode(Mode[p])

\* A link to the saved snapshot, for a while.
share(l) ==
    /\ link[l] = "none" /\ report # NoReport
    /\ mayShare(report.rows)
    /\ link' = [link EXCEPT ![l] = "open"]
    /\ UNCHANGED <<now, capture, snapshots, definition, generation, report>>

revokeShare(l) ==
    /\ link[l] = "open"
    /\ link' = [link EXCEPT ![l] = "revoked"]
    /\ UNCHANGED <<now, capture, snapshots, definition, generation, report>>

Tick == /\ now < MaxTime
        /\ now' = now + 1
        /\ UNCHANGED <<capture, snapshots, others>>

AnalyticsNext ==
    \/ \E c \in Captures :
        \/ \E p \in Posts : refresh(c, p)
        \/ StartCapture(c) \/ Ask(c) \/ saveSnapshot(c) \/ SaveFailure(c)
    \/ generate \/ createAnalyticsReportSnapshot
    \/ archiveAnalyticsReportDefinition
    \/ \E l \in Links : share(l) \/ revokeShare(l)
    \/ Tick

AnalyticsSpec == AnalyticsInit /\ [][AnalyticsNext]_analyticsVars

-----------------------------------------------------------------------------
(* Properties.                                                             *)

\* A capture that saved its metrics is not hidden by its own failure record:
\* when the acknowledgement of the save is lost, the failure that the catch
\* block then saves is older than the metrics it follows.
ReadyOutlivesItsFailure ==
    \A s, f \in snapshots :
        /\ s.post = f.post /\ s.job = f.job /\ s.status = "ready" /\ f.status = "failed"
        => f.at <= s.at

\* A total shown to a client adds numbers of one contract that add up, each
\* of a post that was measured.
TotalsAreComparable ==
    report.total = "ready" =>
        /\ measured(report.rows) # {}
        /\ \A p, q \in measured(report.rows) : report.rows[p].contract = report.rows[q].contract
        /\ \A p \in measured(report.rows) : report.rows[p].contract \notin NonAdditive \cup {0}

\* A client link shows posts whose publication is established: no simulated
\* and no unexplained proof, measured or not, is behind an open link.
SharedIsProven ==
    \A l \in Links : link[l] = "open" =>
        \A p \in DOMAIN report.rows : Mode[p] \notin {"simulation", "legacy_unknown"}

-----------------------------------------------------------------------------
(* The inductive invariant.                                                *)

\* An answer is captured after its attempt began, and metrics come with their contract.
AnswersFollowTheirStart ==
    \A c \in Captures :
        /\ capture[c].pc \notin {"idle", "done"} => capture[c].post \in Posts
        /\ capture[c].started <= now
        /\ capture[c].pc = "save" =>
            /\ capture[c].answer \in {"ready", "pending", "unavailable"}
            /\ capture[c].started <= capture[c].at
            /\ capture[c].answer = "ready" => capture[c].contract \in Contracts

\* A job that saved its metrics can only fail in the catch block of that attempt, which is not tried again.
ReadyIsTheLastAttempt ==
    \A s \in snapshots : s.status = "ready" =>
        /\ s.contract \in Contracts
        /\ capture[s.job].pc \in {"fail", "done"}
        /\ capture[s.job].pc = "fail" =>
            capture[s.job].answer = "provider_failed" /\ capture[s.job].started <= s.at

FailedIsOver == \A s \in snapshots : s.status = "failed" => capture[s.job].pc = "done"

\* The saved report is not replaced, so what was looked at before it was shared is what the link opens.
ReportIsKept ==
    /\ generation.pc = "collect" => report = NoReport
    /\ \A l \in Links : link[l] = "open" => report # NoReport

AnalyticsInv ==
    /\ AnalyticsTypeOK
    /\ ReadyOutlivesItsFailure
    /\ TotalsAreComparable
    /\ SharedIsProven
    /\ AnswersFollowTheirStart
    /\ ReadyIsTheLastAttempt
    /\ FailedIsOver
    /\ ReportIsKept
=============================================================================
