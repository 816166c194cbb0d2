---------------------------- MODULE ConfigHistory ----------------------------
(* The version history of a site's configuration: the recorder behind every  *)
(* change (grpc/mod.rs, config_history.rs), the rollback to a recorded       *)
(* version (config_history.rs, config_restore.rs) and the restore of a       *)
(* backup (api/config_backups.rs), with the site index of the agents that    *)
(* come to serve the result.                                                 *)
(*                                                                           *)
(* A site is its row in sites (its names, updated_at) and its rows in other  *)
(* tables, all of them called rules: those that the agents are sent are      *)
(* positive numbers; those that a version holds and no fingerprint shows,    *)
(* the grants of visitors and the state of certificates, negative ones.      *)
(* PostgreSQL is modelled from the isolation level that each transaction     *)
(* asks for: read committed for a rollback, whose statements each see what   *)
(* is committed; repeatable read for the recorder; serializable for a        *)
(* restore, which fails if a row that it writes was written since it began.  *)
EXTENDS SiteIndex, Integers

CONSTANTS First,     \* the site there is to begin with
          Ops,       \* requests of operators that overlap
          Keep,      \* MAX_VERSIONS_PER_SCOPE
          Bound      \* bound: how many of each kind, and of any, there are

Kinds == {"edit", "silent", "rollback", "backup", "restore", "prune", "failure", "any"}

ASSUME HistoryAssumption ==
  First \in Sites /\ Keep \in Nat \ {0} /\ Bound \in [Kinds -> Nat]

VARIABLES
  rules,      \* the rows of each site
  stamp,      \* sites.updated_at; 0 if there is no such site
  rev,        \* how often the row in sites was written
  versions,   \* config_versions
  nextId,     \* its sequence
  backups,    \* config_backups
  op,         \* where each request is
  task,       \* the recorders
  count,      \* operations begun and failures, by kind
  \* history
  missed,     \* sites with a change that no recorder, or not the last of two of
              \* one request, has looked at
  disturbed,  \* sites that two requests were busy with, or that a recorder
              \* failed for, or ran into prune_expired
  raced       \* sites that were edited, or restored, under a rollback, or rolled
              \* back again before the recorder of a rollback looked

db == <<listed, deleted, rules, stamp, rev>>
edge == <<sites, index, moved>>
allVars == <<db, edge, versions, nextId, backups, op, task, count, missed, disturbed, raced>>

Content(s) == [names |-> listed[s], rules |-> rules[s], stamp |-> stamp[s]]
Empty == [names |-> {}, rules |-> {}, stamp |-> 0]
Same(c, d) == c.names = d.names /\ c.rules = d.rules
Hidden(c) == {r \in c.rules : r < 0}
Shown(c) == [c EXCEPT !.rules = @ \ Hidden(c)]

\* fingerprint: of a configuration with the site alone, of its bundle, or none.
Hash(kind, s) == [kind |-> kind, content |-> Shown(Content(s))]
NoHash == [kind |-> "none", content |-> Empty]
ConfigHash(s) == Hash("config", s)
ConfigHashAfter(s) == IF listed[s] = {} THEN NoHash ELSE Hash("bundle", s)

Idle == [at |-> "idle", kind |-> "edit", site |-> NoSite,
         snap |-> Empty,      \* what is restored
         hash |-> NoHash,     \* before_hash
         before |-> Empty,    \* the archived state
         seen |-> 0,          \* rev, as a serializable transaction saw it
         id |-> 0,            \* of the archived version, 0 if it was there
         gone |-> {},         \* versions that the transaction prunes
         del |-> {}]          \* rows that the transaction has deleted
NoTask == [at |-> "none", site |-> NoSite, hash |-> NoHash, snap |-> Empty, seen |-> {}]

\* A request may have its own recorder and one that it left behind.
Tasks == Ops \X {"own", "detached"}

\* The first site has been created, recorded and pushed to the agent.
HistoryInit ==
  \E h \in Hosts :
    /\ listed = [s \in Sites |-> IF s = First THEN {h} ELSE {}] /\ deleted = {}
    /\ sites = listed /\ index = [n \in Names |-> IF n = h THEN First ELSE NoSite]
    /\ moved = {} /\ rules = [s \in Sites |-> {}]
    /\ rev = [s \in Sites |-> IF s = First THEN 1 ELSE 0] /\ stamp = rev
    /\ versions = {[id |-> 1, site |-> First, hash |-> ConfigHash(First), snap |-> Content(First)]}
    /\ nextId = 2 /\ backups = {}
    /\ op = [o \in Ops |-> Idle] /\ task = [t \in Tasks |-> NoTask]
    /\ count = [k \in Kinds |-> 0] /\ missed = {} /\ disturbed = {}
    /\ raced = {}

-----------------------------------------------------------------------------
(* Requests *)

Go(o, r) == op' = [op EXCEPT ![o] = r]
At(o, l) == op[o].at = l
MoveTo(o, l) == Go(o, [op[o] EXCEPT !.at = l])

Busy(s) == (\E o \in Ops : op[o].site = s) \/ \E t \in Tasks : task[t].site = s

Counts(kind) ==
  /\ count[kind] < Bound[kind] /\ count["any"] < Bound["any"]
  /\ count' = [count EXCEPT ![kind] = @ + 1, !["any"] = @ + 1]

\* Request o begins an operation on s.
Begins(o, s, kind) ==
  /\ At(o, "idle") /\ task[<<o, "own">>] = NoTask /\ Counts(kind)
  /\ disturbed' = IF Busy(s) THEN disturbed \cup {s} ELSE disturbed

\* s is changed, by something other than a rollback.
Changes(s) ==
  raced' = IF \E q \in Ops : op[q].kind = "rollback" /\ op[q].site = s
           THEN raced \cup {s} ELSE raced

\* ...which changes s at once.
Edits(o, s, l) ==
  /\ Begins(o, s, "edit") /\ Changes(s)
  /\ Go(o, [Idle EXCEPT !.at = l, !.site = s])
  /\ UNCHANGED <<sites, index, moved, versions, nextId, backups, task, missed>>

\* Rows that an open transaction has deleted are locked.
Locked(s) == UNION {op[q].del : q \in {p \in Ops : op[p].site = s}}

\* create, update and remove of sites.rs.
EditSite(o, s, names) ==
  /\ Edits(o, s, "notify") /\ Edit(s, names)
  /\ names = {} => Locked(s) = {}
  /\ rules' = [rules EXCEPT ![s] = IF names = {} THEN {} ELSE @]
  /\ rev' = [rev EXCEPT ![s] = @ + 1]
  /\ stamp' = [stamp EXCEPT ![s] = IF names = {} THEN 0 ELSE rev'[s]]

\* A handler that inserts a row, changes one (which counts as another row) or
\* deletes it; touch_site is next.
AddRule(o, s) ==
  /\ listed[s] # {} /\ Edits(o, s, "touch")
  /\ rules' = [rules EXCEPT ![s] = @ \cup {count'["edit"]}]
  /\ UNCHANGED <<listed, deleted, stamp, rev>>
UpdateRule(o, s, r) ==
  /\ r \in rules[s] \ Locked(s) /\ Edits(o, s, "touch")
  /\ rules' = [rules EXCEPT ![s] = (@ \ {r}) \cup {count'["edit"]}]
  /\ UNCHANGED <<listed, deleted, stamp, rev>>
DeleteRule(o, s, r) ==
  /\ r \in rules[s] \ Locked(s) /\ Edits(o, s, "touch")
  /\ rules' = [rules EXCEPT ![s] = @ \ {r}]
  /\ UNCHANGED <<listed, deleted, stamp, rev>>

\* touch_site, after the request's own recorder.
Touch(o) ==
  LET s == op[o].site IN
  /\ At(o, "touch") /\ task[<<o, "own">>] = NoTask /\ MoveTo(o, "notify")
  /\ IF listed[s] = {} THEN UNCHANGED <<stamp, rev>>
     ELSE /\ rev' = [rev EXCEPT ![s] = @ + 1]
          /\ stamp' = [stamp EXCEPT ![s] = rev'[s]]
  /\ UNCHANGED <<listed, deleted, rules, edge, versions, nextId, backups, task,
                 count, missed, disturbed, raced>>

\* Writers that neither touch the site nor notify anyone: replace_grants and
\* visitor_set_visible of a visitor's grants; the reports, the events and the
\* sweep of the state of certificates.
SilentWrite(s) ==
  /\ listed[s] # {} /\ Counts("silent") /\ Changes(s) /\ missed' = missed \cup {s}
  /\ \E old \in SUBSET (Hidden(Content(s)) \ Locked(s)), new \in SUBSET {-count'["silent"]} :
       /\ old \cup new # {}
       /\ rules' = [rules EXCEPT ![s] = (@ \ old) \cup new]
  /\ UNCHANGED <<listed, deleted, stamp, rev, edge, versions, nextId, backups, op, task,
                 disturbed>>

\* The handler ends after its change is committed: touch_site or the building
\* of the configuration fails, or its client is gone.
EndsEarly(o) ==
  /\ op[o].at \in {"touch", "notify", "record", "recordRollback"}
  /\ task[<<o, "own">>] = NoTask /\ Counts("failure") /\ Go(o, Idle)
  /\ missed' = IF At(o, "record") THEN missed ELSE missed \cup {op[o].site}
  /\ UNCHANGED <<db, edge, versions, nextId, backups, task, disturbed, raced>>

\* restore_backup goes on after either failure.
RestoreGoesOn(o) ==
  /\ op[o].kind = "restore" /\ op[o].at \in {"touch", "notify"}
  /\ task[<<o, "own">>] = NoTask /\ Counts("failure")
  /\ MoveTo(o, IF At(o, "touch") THEN "notify" ELSE "record")
  /\ missed' = IF At(o, "touch") THEN missed ELSE missed \cup {op[o].site}
  /\ UNCHANGED <<db, edge, versions, nextId, backups, task, disturbed, raced>>

\* record_version is called, in this request or in a task of its own.
Spawn(o, slot, hash) ==
  /\ task[<<o, slot>>] = NoTask
  /\ task' = [task EXCEPT ![<<o, slot>>] =
                [NoTask EXCEPT !.at = "begin", !.site = op[o].site, !.hash = hash]]
  /\ UNCHANGED <<rules, stamp, rev, versions, nextId, backups, count, missed, disturbed, raced>>

\* notify_config_changed: the configuration is built, its recorder spawned, and
\* the agent of all sites is pushed what they are, unless the site is deleted or
\* the push fails (ConfigPush has what may happen on the way).  Bound: one such
\* task per request.
Notify(o) ==
  /\ At(o, "notify") /\ Spawn(o, "detached", ConfigHash(op[o].site))
  /\ \/ listed[op[o].site] # {} /\ UpdateFromSiteConfig
     \/ UNCHANGED <<listed, deleted, edge>>
  /\ Go(o, IF op[o].kind = "restore" THEN [op[o] EXCEPT !.at = "record"] ELSE Idle)

-----------------------------------------------------------------------------
(* record_version *)

Of(s) == {v \in versions : v.site = s}
Ids(S) == {v.id : v \in S}
Latest(s) == LET mine == Of(s) IN CHOOSE v \in mine : \A w \in mine : w.id <= v.id
IsLatest(s, hash) == hash # NoHash /\ Of(s) # {} /\ Latest(s).hash = hash

\* Mutant: the oldest versions are kept.
PrunedNewest(ids) == {i \in ids : Cardinality({j \in ids : j < i}) >= Keep}

\* prune_scope: all but the newest Keep of the versions that it sees.  (Its age
\* limit is that of PruneExpired, and is left to it.)
Pruned(ids) == {i \in ids : Cardinality({j \in ids : j > i}) >= Keep}

\* The rollback whose recorder t is was overtaken: the hash is of other rows.
Overtaken(t) ==
  task[t].hash.kind = "bundle" /\ ~Same(task[t].hash.content, Shown(Content(task[t].site)))

\* The recorders that have their view of s.
Inserting(s) == {t \in Tasks : task[t].site = s /\ task[t].at = "insert"}

\* The transaction's view: the latest version, and the rows.  A latest version
\* with this hash will do, whatever its hidden rows are.
RecordBegin(t) ==
  LET s == task[t].site IN
  /\ task[t].at = "begin"
  /\ IF IsLatest(s, task[t].hash)
     THEN /\ task' = [task EXCEPT ![t] = NoTask]
          /\ missed' = IF Hidden(Latest(s).snap) = Hidden(Content(s)) THEN missed
                       ELSE missed \cup {s}
     ELSE /\ task' = [task EXCEPT ![t] = [@ EXCEPT !.at = "insert", !.snap = Content(s),
                                                  !.seen = Ids(Of(s))]]
          /\ missed' = IF Inserting(s) = {} THEN missed \ {s} ELSE missed
  /\ raced' = IF Overtaken(t) THEN raced \cup {s} ELSE raced
  /\ UNCHANGED <<db, edge, versions, nextId, backups, op, count, disturbed>>

\* insert, prune_scope and commit.  If another transaction has pruned the same
\* rows, prune_scope fails; the error is logged, but the transaction is lost.
RecordCommit(t) ==
  LET r == task[t]
      gone == Pruned(r.seen \cup {nextId}) IN
  /\ r.at = "insert" /\ task' = [task EXCEPT ![t] = NoTask]
  /\ nextId' = nextId + 1
  /\ versions' =
       IF gone \subseteq Ids(versions)
       THEN {v \in versions : v.id \notin gone}
              \cup {[id |-> nextId, site |-> r.site, hash |-> r.hash, snap |-> r.snap]}
       ELSE versions
  /\ UNCHANGED <<db, edge, backups, op, count, missed, disturbed, raced>>

\* An error: nothing is written.
RecordFails(t) ==
  /\ task[t].at = "begin" /\ task' = [task EXCEPT ![t] = NoTask]
  /\ Counts("failure") /\ disturbed' = disturbed \cup {task[t].site}
  /\ UNCHANGED <<db, edge, versions, nextId, backups, op, missed, raced>>

\* prune_expired: versions that are too old, and all but the newest Keep.  What
\* it takes may be what a recorder is about to prune.
PruneExpired ==
  \E age \in Ids(versions) :
    /\ versions' = {v \in versions : v.id > age /\ v.id \notin Pruned(Ids(Of(v.site)))}
    /\ disturbed' = disturbed \cup {task[t].site : t \in {u \in Tasks : task[u].at = "insert"}}
    /\ Counts("prune") /\ UNCHANGED <<db, edge, nextId, backups, op, task, missed, raced>>

-----------------------------------------------------------------------------
(* rollback *)

\* The version is loaded, and a transaction begun.
RollbackBegins(o, v) ==
  /\ Begins(o, v.site, "rollback")
  /\ Go(o, [Idle EXCEPT !.at = "lock", !.kind = "rollback", !.site = v.site, !.snap = v.snap])
  /\ UNCHANGED <<db, edge, versions, nextId, backups, task, missed, raced>>

Holds(q, s) == op[q].site = s /\ op[q].at \in {"archive", "delete", "commit"}

\* Mutant: without the advisory lock.
RollbackLocksNothing(o) ==
  /\ At(o, "lock")
  /\ Go(o, [op[o] EXCEPT !.at = "archive", !.hash = ConfigHashAfter(op[o].site)])
  /\ UNCHANGED <<db, edge, versions, nextId, backups, task, count, missed, disturbed, raced>>

\* pg_advisory_xact_lock, and before_hash outside of the transaction.
RollbackLocks(o) ==
  /\ At(o, "lock") /\ ~\E q \in Ops : Holds(q, op[o].site)
  /\ Go(o, [op[o] EXCEPT !.at = "archive", !.hash = ConfigHashAfter(op[o].site)])
  /\ UNCHANGED <<db, edge, versions, nextId, backups, task, count, missed, disturbed, raced>>

\* record_version_in: nothing is archived if the latest version has this hash.
RollbackArchives(o) ==
  LET s == op[o].site
      known == IsLatest(s, op[o].hash) IN
  /\ At(o, "archive")
  /\ Go(o, [op[o] EXCEPT !.at = "delete",
              !.before = IF known THEN Latest(s).snap ELSE Content(s),
              !.id = IF known THEN 0 ELSE nextId,
              !.gone = IF known THEN {} ELSE Pruned(Ids(Of(s)) \cup {nextId})])
  /\ nextId' = IF known THEN nextId ELSE nextId + 1
  /\ UNCHANGED <<db, edge, versions, backups, task, count, missed, disturbed, raced>>

\* prepare_restore, and delete_rows of apply_restore.
RollbackDeletes(o) ==
  /\ At(o, "delete")
  /\ Go(o, [op[o] EXCEPT !.at = "commit", !.del = rules[op[o].site]])
  /\ UNCHANGED <<db, edge, versions, nextId, backups, task, count, missed, disturbed, raced>>

\* upsert_rows and insert_rows, after the rows del of s were deleted: they
\* collide with no row that is left, and no name with another site's.
Restores(s, snap, del) ==
  /\ snap.rules \cap (rules[s] \ del) = {}
  /\ \A r \in Sites \ {s} : listed[r] \cap snap.names = {}
  /\ rules' = [rules EXCEPT ![s] = (@ \ del) \cup snap.rules]
  /\ IF snap.names = {} THEN UNCHANGED <<listed, deleted, stamp, rev>>
     ELSE /\ listed' = [listed EXCEPT ![s] = snap.names]
          /\ deleted' = deleted \ {s}
          /\ stamp' = [stamp EXCEPT ![s] = snap.stamp]
          /\ rev' = [rev EXCEPT ![s] = @ + 1]

RollbackCommits(o) ==
  LET r == op[o] IN
  /\ At(o, "commit") /\ Restores(r.site, r.snap, r.del)
  /\ versions' = {v \in versions : v.id \notin r.gone}
                   \cup (IF r.id = 0 THEN {}
                         ELSE {[id |-> r.id, site |-> r.site, hash |-> r.hash, snap |-> r.before]})
  /\ Go(o, [Idle EXCEPT !.at = "recordRollback", !.kind = "rollback", !.site = r.site])
  /\ UNCHANGED <<edge, nextId, backups, task, count, missed, disturbed, raced>>

\* The new state is recorded, then touch_site and notify_config_changed.
RollbackRecords(o) ==
  /\ At(o, "recordRollback") /\ MoveTo(o, "touch")
  /\ Spawn(o, "own", ConfigHashAfter(op[o].site)) /\ UNCHANGED <<listed, deleted, edge>>

-----------------------------------------------------------------------------
(* Backups *)

\* create_backup
BackUp(o, s) ==
  /\ At(o, "idle") /\ Counts("backup")
  /\ backups' = backups \cup {[site |-> s, snap |-> Content(s)]}
  /\ UNCHANGED <<db, edge, versions, nextId, op, task, missed, disturbed, raced>>

\* restore_backup: the serializable transaction, and its pre-restore record.
RestoreBegins(o, b) ==
  /\ Begins(o, b.site, "restore")
  /\ Go(o, [Idle EXCEPT !.at = "restore", !.kind = "restore", !.site = b.site,
              !.snap = b.snap, !.before = Content(b.site), !.seen = rev[b.site]])
  /\ UNCHANGED <<db, edge, versions, nextId, backups, task, missed, raced>>

Restored(o) ==
  /\ Go(o, [Idle EXCEPT !.at = "touch", !.kind = "restore", !.site = op[o].site])
  /\ Changes(op[o].site)
  /\ backups' = backups \cup {[site |-> op[o].site, snap |-> op[o].before]}
  /\ UNCHANGED <<edge, versions, nextId, task, count, missed, disturbed>>

\* Mutant: read committed.
RestoreReadCommitted(o) ==
  LET r == op[o] IN
  /\ At(o, "restore") /\ rules[r.site] \cap Locked(r.site) = {}
  /\ Restores(r.site, r.snap, rules[r.site]) /\ Restored(o)

\* apply_restore and commit: the rows of its view are replaced, unless one of
\* them was written meanwhile.
RestoreCommits(o) ==
  LET r == op[o] IN
  /\ At(o, "restore") /\ r.before.rules \cap Locked(r.site) = {}
  /\ rev[r.site] = r.seen /\ r.before.rules \subseteq rules[r.site]
  /\ Restores(r.site, r.snap, r.before.rules) /\ Restored(o)

\* After notify_config_changed: record_version without a hash.
RestoreRecords(o) ==
  /\ At(o, "record") /\ Go(o, Idle) /\ Spawn(o, "own", NoHash)
  /\ UNCHANGED <<listed, deleted, edge>>

\* An error, at the latest point: nothing is changed.
Aborts(o) ==
  /\ op[o].at \in {"commit", "restore"} /\ Go(o, Idle)
  /\ UNCHANGED <<db, edge, versions, nextId, backups, task, count, missed, disturbed, raced>>

-----------------------------------------------------------------------------
HistoryNext ==
  \/ \E o \in Ops :
       \/ \E s \in Sites :
            \/ \E names \in SUBSET Names : EditSite(o, s, names)
            \/ AddRule(o, s) \/ BackUp(o, s)
            \/ \E r \in rules[s] : UpdateRule(o, s, r) \/ DeleteRule(o, s, r)
       \/ Touch(o) \/ Notify(o) \/ EndsEarly(o) \/ RestoreGoesOn(o)
       \/ (\E v \in versions : RollbackBegins(o, v))
       \/ RollbackLocks(o) \/ RollbackArchives(o) \/ RollbackDeletes(o)
       \/ RollbackCommits(o) \/ RollbackRecords(o)
       \/ (\E b \in backups : RestoreBegins(o, b))
       \/ RestoreCommits(o) \/ RestoreRecords(o) \/ Aborts(o)
  \/ \E t \in Tasks : RecordBegin(t) \/ RecordCommit(t) \/ RecordFails(t)
  \/ PruneExpired
  \/ \E s \in Sites : SilentWrite(s)

HistorySpec == HistoryInit /\ [][HistoryNext]_allVars

-----------------------------------------------------------------------------
Committed(o) == At(o, "commit") /\ op'[o].at = "recordRollback"

\* After operations on a site that did not overlap, and whose recorders did not
\* fail, its latest version is its configuration, whether an edit, a rollback
\* or a restore made it, unless there has been a change since that is not
\* recorded (see HistoryCurrent); the retention may have left none.  Once a
\* recorder has looked at the site, earlier changes of that kind are in.
SerialHistoryCurrent ==
  \A s \in Sites \ (disturbed \cup missed) :
    ~Busy(s) /\ Of(s) # {} => Same(Latest(s).snap, Content(s))

\* What a rollback replaces is what it archived, or as much of it as the hash of
\* the latest version shows, if it takes that for its archive; and it leaves the
\* rows of the version, no more and no fewer; if no edit ran into it or a
\* rollback before it, and none of them overtook the recorder of another (a
\* version would then have the wrong hash): "a second rollback waits here instead
\* of recording and applying against a state the first one is about to replace".
RollbackFaithful ==
  [][\A o \in Ops :
       Committed(o) /\ op[o].site \notin raced =>
         LET s == op[o].site IN
         /\ Same(Shown(op[o].before), Shown(Content(s)))
         /\ op[o].id # 0 => Same(op[o].before, Content(s))
         /\ rules'[s] = op[o].snap.rules]_allVars

\* restore_backup: "a concurrent edit causes a serialization failure and a
\* clean rollback instead of silently disappearing from the pre-restore backup":
\* what a restore removes is in its pre-restore record.
RestoreLosesNothing ==
  [][\A o \in Ops :
       At(o, "restore") /\ op'[o].at = "touch" =>
         LET s == op[o].site IN
         /\ rules[s] \ rules'[s] \subseteq op[o].before.rules
         /\ listed'[s] # listed[s] => op[o].before.names = listed[s]]_allVars

\* rollback: "the archived 'before' snapshot and the restore then see the same
\* state".  (Violated: read committed, and an edit takes no advisory lock; what
\* it wrote between the two is in no version.)
RollbackLosesNothing ==
  [][\A o \in Ops :
       Committed(o) =>
         rules[op[o].site] \ rules'[op[o].site] \subseteq op[o].before.rules]_allVars

\* notify_config_changed: the version it records "is what makes the console
\* able to list and roll back changes".  (Violated, without any failure: of two
\* recorders the one that saw less may insert last, and what one of them prunes,
\* or prune_expired, may cost the other its version; and by one change alone, of
\* a grant or of the state of a certificate, which nobody records.)
HistoryCurrent ==
  \A s \in Sites :
    ~Busy(s) /\ Of(s) # {} /\ count["failure"] = 0 => Same(Latest(s).snap, Content(s))
=============================================================================
