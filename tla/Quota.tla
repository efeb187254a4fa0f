------------------------------- MODULE Quota -------------------------------
(***************************************************************************)
(* How an account's quota reaches the scheduler and the panel.  FetchQuota *)
(* (qodercontrol/quota.go) makes three independent reads of which any may  *)
(* fail; the host's quota.fetch calls (quota_dispatch.go) and GET          *)
(* /qoder/accounts (management_accounts.go, management_quota.go) note what *)
(* they got, each when it is ready.  Management requests exclude each      *)
(* other, so that one is enough here; the host's calls overlap it and each *)
(* other.  The host may list one account under several records: they make  *)
(* one row, but each record has a snapshot of its own.                     *)
(***************************************************************************)
EXTENDS Naturals, SequencesExt

CONSTANTS
    Records,      \* record IDs, under which the scheduler keeps snapshots
    NoRecord,     \* an empty ID
    Lists,        \* what host.auth.list may answer: sequences of
                  \* [id, key, indexed, label]
    Truths,       \* the account's quota upstream: [limit, remaining, exceeded]
    HostCalls,    \* quota.fetch calls
    Panel         \* the management request

Listed == UNION {Range(list) : list \in Lists}

\* The host names each record it lists, and no name is empty.
ASSUME QuotaAssumption ==
    /\ NoRecord \notin Records
    /\ Panel \notin HostCalls
    /\ \A list \in Lists : list \in Seq(Listed)
    /\ \A file \in Listed : file.id \in Records
    /\ Truths \subseteq [limit : Nat, remaining : Nat, exceeded : BOOLEAN]

VARIABLES
    truth,        \* the quota upstream
    fetch,        \* each fetch: where it is, the quota so far; and history:
                  \* what it was told, and what held all the time
    snapshot,     \* schedulerState.quota, by record, with the fetch it is from
    pc,           \* the request: idle, record, fetch, replied
    files,        \* records it has still to visit
    rows,         \* the rows so far
    done          \* history: what was listed, the records noted and the records
                  \* whose credential or quota could not be had

quotaVars == <<truth, fetch, snapshot, pc, files, rows, done>>

Fetchers == HostCalls \cup {Panel}

NoQuota == [limit |-> 0, remaining |-> 0, exhausted |-> FALSE, ok |-> FALSE,
            nickname |-> FALSE]
Idle == [at |-> "idle", record |-> NoRecord, quota |-> NoQuota,
         usage |-> FALSE, status |-> FALSE, told |-> FALSE,
         outAll |-> FALSE, exceededAll |-> FALSE]
NoSnapshot == [known |-> FALSE, remaining |-> 0, exhausted |-> FALSE, from |-> Idle]

\* What the history of a snapshot keeps of its fetch.
Source(f) == [Idle EXCEPT !.usage = f.usage, !.status = f.status, !.told = f.told,
                          !.outAll = f.outAll, !.exceededAll = f.exceededAll,
                          !.quota.limit = f.quota.limit]

IsOut(t) == t.exceeded \/ (t.limit > 0 /\ t.remaining = 0)

QuotaInit ==
    /\ truth \in Truths
    /\ fetch = [p \in Fetchers |-> Idle]
    /\ snapshot = [r \in Records |-> NoSnapshot]
    /\ pc = "idle" /\ files = <<>> /\ rows = <<>>
    /\ done = [list |-> <<>>, noted |-> {}, failed |-> {}]

\* The account is used, topped up, or a new period begins.
TruthChanges ==
    /\ truth' \in Truths \ {truth}
    /\ fetch' = [p \in Fetchers |->
                   [fetch[p] EXCEPT !.outAll = @ /\ IsOut(truth'),
                                    !.exceededAll = @ /\ truth'.exceeded]]
    /\ UNCHANGED <<snapshot, pc, files, rows, done>>

----------------------------------------------------------------------------
(* FetchQuota.                                                             *)

Fetching(p, step) == fetch' = [fetch EXCEPT ![p] = step]

Begun(record) == [Idle EXCEPT !.at = "usage", !.record = record,
                              !.outAll = IsOut(truth), !.exceededAll = truth.exceeded]

ReadUsage(p) ==
    /\ fetch[p].at = "usage"
    /\ \/ Fetching(p, [fetch[p] EXCEPT
             !.at = "plan", !.usage = TRUE, !.told = IsOut(truth),
             !.quota.limit = truth.limit, !.quota.remaining = truth.remaining,
             !.quota.exhausted = IsOut(truth), !.quota.ok = TRUE])
       \/ Fetching(p, [fetch[p] EXCEPT !.at = "plan"])
    /\ UNCHANGED <<truth, snapshot, pc, files, rows, done>>

\* The plan has the tier and the period, and counts as an answer.
ReadPlan(p) ==
    /\ fetch[p].at = "plan"
    /\ \E ok \in BOOLEAN :
          Fetching(p, [fetch[p] EXCEPT !.at = "status", !.quota.ok = @ \/ ok])
    /\ UNCHANGED <<truth, snapshot, pc, files, rows, done>>

\* A slip: the status decides alone.
ReadStatus_decides(p) ==
    /\ fetch[p].at = "status"
    /\ Fetching(p, [fetch[p] EXCEPT
             !.at = "read", !.status = TRUE, !.told = @ \/ truth.exceeded,
             !.quota.exhausted = truth.exceeded, !.quota.ok = TRUE])
    /\ UNCHANGED <<truth, snapshot, pc, files, rows, done>>

\* The status can only add to what usage said of exhaustion.  It may name the
\* user.
ReadStatus(p) ==
    /\ fetch[p].at = "status"
    /\ \/ \E nickname \in BOOLEAN :
             Fetching(p, [fetch[p] EXCEPT
                 !.at = "read", !.status = TRUE, !.told = @ \/ truth.exceeded,
                 !.quota.exhausted = @ \/ truth.exceeded, !.quota.ok = TRUE,
                 !.quota.nickname = nickname])
       \/ Fetching(p, [fetch[p] EXCEPT !.at = "read"])
    /\ UNCHANGED <<truth, snapshot, pc, files, rows, done>>

\* noteQuotaSnapshot: an empty ID is ignored.
Noted(record, p) ==
    IF record = NoRecord THEN snapshot
    ELSE [snapshot EXCEPT ![record] =
            [known |-> TRUE, remaining |-> fetch[p].quota.remaining,
             exhausted |-> fetch[p].quota.exhausted, from |-> Source(fetch[p])]]

----------------------------------------------------------------------------
(* The host's quota.fetch.                                                 *)

CallFetch(p) ==
    /\ fetch[p].at = "idle"
    /\ \E record \in Records \cup {NoRecord} : Fetching(p, Begun(record))
    /\ UNCHANGED <<truth, snapshot, pc, files, rows, done>>

\* ErrQuotaUnknown is answered without a note.
handleQuotaFetch(p) ==
    /\ fetch[p].at = "read"
    /\ snapshot' = IF fetch[p].quota.ok THEN Noted(fetch[p].record, p) ELSE snapshot
    /\ Fetching(p, [Idle EXCEPT !.at = "answered"])
    /\ UNCHANGED <<truth, pc, files, rows, done>>

----------------------------------------------------------------------------
(* GET /qoder/accounts.                                                    *)

Asks ==
    /\ pc = "idle"
    /\ pc' = "record"
    /\ files' \in Lists
    /\ done' = [done EXCEPT !.list = files']
    /\ UNCHANGED <<truth, fetch, snapshot, rows>>

\* "none" is empty or the provider's name, "file" the name of the auth file.
fallbackQoderLabel(label) == label = "none"
isFallbackIdentity(label) == label \in {"none", "file"}

RowOf(key) == CHOOSE i \in DOMAIN rows : rows[i].key = key
HasRow(key) == \E i \in DOMAIN rows : rows[i].key = key

NewRow(file) == [key |-> file.key, label |-> file.label, quota |-> NoQuota]

\* A slip: a record whose row exists is passed over.
VisitRecord_skipping ==
    /\ pc = "record" /\ files # <<>>
    /\ LET file == Head(files)
       IN  /\ rows' = IF HasRow(file.key) THEN rows ELSE Append(rows, NewRow(file))
           /\ IF file.indexed /\ ~HasRow(file.key)
                THEN pc' = "fetch" /\ Fetching(Panel, Begun(file.id)) /\ UNCHANGED <<files, done>>
                ELSE UNCHANGED <<pc, fetch, done>> /\ files' = Tail(files)
    /\ UNCHANGED <<truth, snapshot>>

\* A slip: the first record's label stays.
VisitRecord_firstLabel ==
    /\ pc = "record" /\ files # <<>>
    /\ LET file == Head(files)
       IN  /\ rows' = IF HasRow(file.key) THEN rows ELSE Append(rows, NewRow(file))
           /\ \/ /\ file.indexed
                 /\ pc' = "fetch" /\ Fetching(Panel, Begun(file.id)) /\ UNCHANGED <<files, done>>
              \/ /\ files' = Tail(files)
                 /\ done' = IF file.indexed THEN [done EXCEPT !.failed = @ \cup {file.id}] ELSE done
                 /\ UNCHANGED <<pc, fetch>>
    /\ UNCHANGED <<truth, snapshot>>

\* A record of an account that has a row only improves its label (and, left out,
\* its e-mail address); then its credential is asked for, which may fail, and the
\* quota.
VisitRecord ==
    /\ pc = "record" /\ files # <<>>
    /\ LET file == Head(files)
           i    == RowOf(file.key)
       IN  /\ rows' = IF ~HasRow(file.key) THEN Append(rows, NewRow(file))
                      ELSE [rows EXCEPT ![i].label = IF fallbackQoderLabel(@) THEN file.label ELSE @]
           /\ \/ /\ file.indexed
                 /\ pc' = "fetch" /\ Fetching(Panel, Begun(file.id)) /\ UNCHANGED <<files, done>>
              \/ /\ files' = Tail(files)
                 /\ done' = IF file.indexed THEN [done EXCEPT !.failed = @ \cup {file.id}] ELSE done
                 /\ UNCHANGED <<pc, fetch>>
    /\ UNCHANGED <<truth, snapshot>>

\* applyManagementQuota, applyUpstreamIdentity and, without an error, the note.
ApplyQuota ==
    /\ pc = "fetch" /\ fetch[Panel].at = "read"
    /\ LET file == Head(files)
           q    == fetch[Panel].quota
           i    == RowOf(file.key)
       IN  /\ rows' = [rows EXCEPT ![i].quota = q,
                         ![i].label = IF q.nickname /\ isFallbackIdentity(@) THEN "nickname" ELSE @]
           /\ snapshot' = IF q.ok THEN Noted(file.id, Panel) ELSE snapshot
           /\ done' = IF q.ok THEN [done EXCEPT !.noted = @ \cup {file.id}]
                              ELSE [done EXCEPT !.failed = @ \cup {file.id}]
    /\ files' = Tail(files) /\ pc' = "record"
    /\ Fetching(Panel, Idle)
    /\ UNCHANGED truth

Replies ==
    /\ pc = "record" /\ files = <<>>
    /\ pc' = "replied"
    /\ UNCHANGED <<truth, fetch, snapshot, files, rows, done>>

QuotaNext ==
    \/ TruthChanges
    \/ \E p \in Fetchers : ReadUsage(p) \/ ReadPlan(p) \/ ReadStatus(p)
    \/ \E p \in HostCalls : CallFetch(p) \/ handleQuotaFetch(p)
    \/ Asks \/ VisitRecord \/ ApplyQuota \/ Replies

QuotaSpec == QuotaInit /\ [][QuotaNext]_quotaVars

----------------------------------------------------------------------------
(* Correctness.                                                            *)

\* What the scheduler is told of exhaustion.  An account that was out of quota
\* all through a fetch is noted as exhausted, unless no read that could tell
\* succeeded (usage tells of both kinds, status of the flag only); it is not
\* noted so without a read that said so; and an account noted with nothing left
\* but not exhausted is one whose usage was not read, or is not limited.
SnapshotTellsExhaustion ==
    \A r \in Records : snapshot[r].known =>
        LET f == snapshot[r].from
        IN  /\ f.outAll /\ f.usage => snapshot[r].exhausted
            /\ f.exceededAll /\ f.status => snapshot[r].exhausted
            /\ snapshot[r].exhausted => f.told
            /\ snapshot[r].remaining = 0 /\ ~snapshot[r].exhausted =>
                   ~f.usage \/ f.quota.limit = 0

\* The scheduler excludes accounts record by record: when the panel has its
\* rows, each record with an index was noted, the second one of an account as
\* well, unless its own credential or quota could not be had, whatever failed
\* for the records before it.
EveryRecordNoted ==
    pc = "replied" =>
        \A file \in Range(done.list) : file.indexed =>
            \/ file.id \in done.noted /\ snapshot[file.id].known
            \/ file.id \in done.failed

\* The panel has one row per account.  A label that the user gave the first
\* record of an account is never lost to a later record or to the nickname the
\* upstream knows; and a row is nameless only if no record of the account has
\* a label and the upstream told no nickname.
RowsKeepIdentity ==
    /\ \A i, j \in DOMAIN rows : rows[i].key = rows[j].key => i = j
    /\ pc = "replied" => \A k \in DOMAIN done.list : HasRow(done.list[k].key)
    /\ pc = "replied" => \A i \in DOMAIN rows :
          LET own == {k \in DOMAIN done.list : done.list[k].key = rows[i].key}
          IN  /\ \A k \in own : done.list[k].label = "custom" /\ (\A l \in own : k <= l) =>
                     rows[i].label = "custom"
              /\ rows[i].label = "none" =>
                     /\ ~rows[i].quota.nickname
                     /\ \A k \in own : done.list[k].label = "none"
============================================================================
