------------------------------ MODULE AuditLog ------------------------------
(***************************************************************************)
(* The hash-chained audit log, its append-only archive and the jobs that   *)
(* copy and compare them (backend/src/audit/*.py,                          *)
(* observability/audit_middleware.py, orchestration/audit_scheduler.py,    *)
(* api/routes/audit.py).                                                   *)
(*                                                                         *)
(* A hash is taken to be injective: it is the sequence of what it was      *)
(* computed over, the previous hash included.  A backup restored over the  *)
(* database (orchestration/backup.py) shortens the log and not the archive *)
(* file, which is outside it.                                              *)
(***************************************************************************)
EXTENDS Naturals, Sequences, FiniteSets, SequencesExt

CONSTANTS
    Entity,       \* the entity_ids entries are about
    Writer,       \* transactions that may be writing an entry at once (bound)
    MaxEntries,   \* bound on the log
    MaxRestores   \* bound on restores of a backup

ASSUME AuditAssumption == MaxEntries \in Nat /\ MaxRestores \in Nat

VARIABLES
    audit_log,    \* the committed rows, in the order of sequence
    writing,      \* writer -> its row, flushed and not yet committed (<<>>: none)
    archive,      \* the whole lines of audit_log.ndjson
    torn,         \* its last line was cut by a crash: it no longer parses
    sweep,        \* the rows an archival sweep has selected (<<>>: none running)
    restores      \* how many times a backup was restored

auditVars == <<audit_log, writing, archive, torn, sweep, restores>>

GENESIS_HASH == <<>>
compute_entry_hash(previous_hash, sequence, entity) == Append(previous_hash, <<sequence, entity>>)

HashOf(n) == Seq((1 .. n) \X Entity)
AuditRow == [sequence: 1 .. MaxEntries, previous_hash: HashOf(MaxEntries),
             hash: HashOf(MaxEntries), entity: Entity]

AuditInit ==
    /\ audit_log = <<>> /\ writing = [w \in Writer |-> <<>>]
    /\ archive = <<>> /\ torn = FALSE /\ sweep = <<>> /\ restores = 0
-----------------------------------------------------------------------------
(* Writing.  The advisory lock is held from the read of the last row to    *)
(* the end of the transaction.                                             *)

LockFree_Always == TRUE
LockFree == \A w \in Writer : writing[w] = <<>>

NextRow(entity) ==
    LET previous_hash == IF audit_log = <<>> THEN GENESIS_HASH ELSE Last(audit_log).hash
        sequence == IF audit_log = <<>> THEN 1 ELSE Last(audit_log).sequence + 1
    IN  [sequence |-> sequence, previous_hash |-> previous_hash, entity |-> entity,
         hash |-> compute_entry_hash(previous_hash, sequence, entity)]

write_audit_entry(w, entity) ==
    /\ LockFree /\ writing[w] = <<>> /\ Len(audit_log) < MaxEntries
    /\ writing' = [writing EXCEPT ![w] = <<NextRow(entity)>>]
    /\ UNCHANGED <<audit_log, archive, torn, sweep, restores>>

Commit(w) ==
    /\ writing[w] # <<>>
    /\ audit_log' = audit_log \o writing[w]
    /\ writing' = [writing EXCEPT ![w] = <<>>]
    /\ UNCHANGED <<archive, torn, sweep, restores>>

\* The caller's transaction fails; the middleware swallows a failed write.
Rollback(w) ==
    /\ writing[w] # <<>>
    /\ writing' = [writing EXCEPT ![w] = <<>>]
    /\ UNCHANGED <<audit_log, archive, torn, sweep, restores>>
-----------------------------------------------------------------------------
(* Verification, as a function of a list of entries.                       *)

verify_chain(entries) ==
    \A i \in DOMAIN entries :
        /\ entries[i].previous_hash = (IF i = 1 THEN GENESIS_HASH ELSE entries[i - 1].hash)
        /\ entries[i].hash = compute_entry_hash(entries[i].previous_hash, entries[i].sequence,
                                                entries[i].entity)

verify_db_chain == verify_chain(audit_log)

\* An unbroken archive diverges at an entry the live log lacks or hashes differently.
verify_archive_chain_divergence_LastOnly ==
    archive # <<>> /\ \/ ~verify_chain(archive)
                      \/ ~\E row \in ToSet(audit_log) : row.sequence = Last(archive).sequence

verify_archive_chain_divergence ==
    archive # <<>> /\ \/ ~verify_chain(archive)
                      \/ \E entry \in ToSet(archive) :
                           ~\E row \in ToSet(audit_log) :
                              row.sequence = entry.sequence /\ row.hash = entry.hash

\* ORDER BY sequence.
order_by_sequence(found) ==
    [i \in 1 .. Cardinality(found) |->
        CHOOSE row \in found : /\ Cardinality({r \in found : r.sequence < row.sequence}) < i
                               /\ Cardinality({r \in found : r.sequence <= row.sequence}) >= i]

\* What the read endpoints return: the rows that match the filter, in sequence order.
apply_filters(entities) ==
    order_by_sequence({row \in ToSet(audit_log) : row.entity \in entities})
get_trade_audit_trace(entity) == apply_filters({entity})
export_audit_entries == apply_filters(Entity)
-----------------------------------------------------------------------------
(* The archival sweep and the divergence check.  read_all_archived_entries *)
(* parses every line, so both fail on a torn one.                          *)

last_archived_sequence_Resent == IF archive = <<>> THEN 0 ELSE Last(archive).sequence - 1
last_archived_sequence == IF archive = <<>> THEN 0 ELSE Last(archive).sequence

run_archival_sweep ==
    /\ ~torn /\ sweep = <<>>
    /\ sweep' = order_by_sequence({row \in ToSet(audit_log) : row.sequence > last_archived_sequence})
    /\ sweep' # <<>>
    /\ UNCHANGED <<audit_log, writing, archive, torn, restores>>

append_entries_to_archive ==
    /\ sweep # <<>>
    /\ archive' = archive \o sweep /\ sweep' = <<>>
    /\ UNCHANGED <<audit_log, writing, torn, restores>>

\* The process dies: what reached the file is some of the lines, the last of them
\* perhaps in part, and every open transaction is rolled back.
CrashAndRestart ==
    /\ \E n \in 0 .. Len(sweep) :
         /\ archive' = archive \o SubSeq(sweep, 1, n)
         /\ torn' \in {torn, n < Len(sweep)}
    /\ sweep' = <<>> /\ writing' = [w \in Writer |-> <<>>]
    /\ UNCHANGED <<audit_log, restores>>

\* A divergence is itself recorded in the log (Writer w is the job's session).
run_divergence_check_job(w) ==
    /\ ~torn /\ verify_archive_chain_divergence
    /\ \E entity \in Entity : write_audit_entry(w, entity)

\* The endpoint also checks the log's own chain.
verify_audit_chain(w) ==
    /\ ~torn /\ (verify_archive_chain_divergence \/ ~verify_db_chain)
    /\ \E entity \in Entity : write_audit_entry(w, entity)

RestoreBackup ==
    /\ restores < MaxRestores /\ LockFree
    /\ \E n \in 0 .. Len(audit_log) : audit_log' = SubSeq(audit_log, 1, n)
    /\ restores' = restores + 1
    /\ UNCHANGED <<writing, archive, torn, sweep>>

AuditNext ==
    \/ \E w \in Writer :
         \/ Commit(w) \/ Rollback(w) \/ run_divergence_check_job(w) \/ verify_audit_chain(w)
         \/ \E entity \in Entity : write_audit_entry(w, entity)
    \/ run_archival_sweep \/ append_entries_to_archive \/ CrashAndRestart \/ RestoreBackup
-----------------------------------------------------------------------------
AuditTypeOK ==
    /\ audit_log \in Seq(AuditRow) /\ archive \in Seq(AuditRow) /\ sweep \in Seq(AuditRow)
    /\ \A w \in Writer : writing[w] \in Seq(AuditRow) /\ Len(writing[w]) <= 1
    /\ torn \in BOOLEAN /\ restores \in 0 .. MaxRestores

\* The log is one unbroken chain however writers, rollbacks, crashes and restores
\* interleave, so an export of it verifies on its own (write_audit_entry's lock).
ChainUnbroken == verify_chain(export_audit_entries)

\* Until a backup is restored the archive is a copy of the head of the log: no entry
\* is skipped, repeated or reordered, though the sweep runs beside the writers and
\* may die half way through its lines.
ArchiveIsPrefix == restores = 0 => IsPrefix(archive, audit_log)

\* The divergence check is exact: it reports exactly when the archive holds an entry
\* the log does not have, in particular after a restore has rewound the log and new
\* entries have taken the lost ones' sequence numbers.
DivergenceIsExact ==
    verify_archive_chain_divergence <=> ~(ToSet(archive) \subseteq ToSet(audit_log))

(* The trail can be relied on: the log is one chain, its archive is a copy of its    *)
(* head, and the check that compares the two is neither silent nor a false alarm.    *)
AuditTrail == ChainUnbroken /\ ArchiveIsPrefix /\ DivergenceIsExact
=============================================================================
