--------------------------- MODULE RuleCachePersist ---------------------------
(* Disk persistence of the agent's rule cache                               *)
(* (pingwaf-agent/src/cache/mod.rs and persist.rs).                         *)
(*                                                                          *)
(* Rule syncs, the shutdown hook and the debounced blocked-IP flush all     *)
(* write files of one cache directory under `persist_lock`.  Every file     *)
(* lands atomically, but a persist touches five of them, and the process    *)
(* may die, or a write may fail, between any two.  The next start reads     *)
(* whatever is there.                                                       *)
(*                                                                          *)
(* A snapshot of the rules is a natural number, its sync's position in the  *)
(* order of syncs; 0 is `CachedRules::default()`.  The CRC32 stamp of       *)
(* metadata.json is the snapshot it was computed from.                      *)
EXTENDS Integers, FiniteSets

CONSTANTS Persisters,  \* tasks that call persist_to_disk (rule sync, shutdown)
          Flushers,    \* tasks that call flush_blocked_ips
          Blockers,    \* request threads that block and unblock addresses
          Blocks,      \* the addresses they block
          Nobody,      \* persist_lock is free
          MaxVersion,  \* bound: rule syncs
          MaxCrash,    \* bound: crashes
          MaxDamage    \* bound: damages to sites.json while the agent is down

ASSUME ThreadsDisjoint ==
  /\ Persisters \cap Flushers = {}
  /\ Persisters \cap Blockers = {}
  /\ Flushers \cap Blockers = {}
ASSUME BoundsAssumption ==
  MaxVersion \in Nat /\ MaxCrash \in Nat /\ MaxDamage \in Nat

Threads == Persisters \cup Flushers \cup Blockers
ASSUME NobodyAssumption == Nobody \notin Threads

Absent   == -1   \* the file does not exist
Torn     == -2   \* truncated: does not parse
Tampered == -3   \* parses, but is not the payload the metadata stamps
None     == -1   \* no persist has completed yet
Versions == 0..MaxVersion
NoFile   == [exists |-> FALSE, blocks |-> {}]
BlockedFile(S) == [exists |-> TRUE, blocks |-> S]

VARIABLES
  \* the process
  up,        \* is the agent running
  dir,       \* create_dir_all succeeded: cache_dir exists
  inner,     \* the rules in memory (ArcSwap<CachedRules>)
  blocked,   \* the blocked_ips map
  dirty,     \* blocked_dirty
  healthy, source,  \* CacheHealth
  lock,      \* persist_lock
  pc,        \* where each thread is
  rules,     \* `rules` of persist_to_disk_inner, per thread
  entries,   \* `entries` of persist_blocked_ips_inner, per thread
  outcome,   \* `outcome` of persist_to_disk, per thread
  status,    \* `status.healthy` read before the outcome is recorded
  \* the disk
  sites, meta, bakSites, bakMeta, blockedFile,
  \* history
  issued,    \* syncs received so far, over all lives of the agent
  crashes, damages,
  committed, \* snapshot of the last persist that stamped its metadata
  commits,   \* completed persists that the backup can rest on, up to 2
  damaged,   \* sites.json was damaged since the agent went down
  loadFailed,   \* this life of the agent found no usable snapshot
  lastPersist,  \* result of the last finished persist_to_disk of this life
  blocksBased   \* this life loaded, or has written, blocked_ips.json

process == <<up, dir, inner, blocked, dirty, healthy, source>>
locals  == <<lock, pc, rules, entries, outcome, status>>
disk    == <<sites, meta, bakSites, bakMeta, blockedFile>>
bounds  == <<issued, crashes, damages>>
history == <<committed, commits, damaged, loadFailed, lastPersist, blocksBased>>
vars    == <<process, locals, disk, bounds, history>>

-----------------------------------------------------------------------------
(* Reading the cache directory *)

\* content_matches: the stamp was computed from exactly this payload.
Matches(s, m) == m = s

\* serde_json::from_slice on the payload of a sites file.
Parses(s) == s # Absent /\ s # Torn

\* read_snapshot: with no metadata the payload only has to parse.
ReadSnapshotOk(s, m) == Parses(s) /\ (m = Absent \/ Matches(s, m))

\* load_from_disk: which file the rules come from...
LoadSource ==
  IF ReadSnapshotOk(sites, meta) THEN "disk"
  ELSE IF sites # Absent /\ Parses(bakSites) THEN "backup"
  ELSE "fresh"

\* ...and the rules themselves; a failed load leaves CachedRules::default().
LoadVersion ==
  IF LoadSource = "disk" THEN sites
  ELSE IF LoadSource = "backup" THEN bakSites
  ELSE 0

Init ==
  /\ up = FALSE /\ dir = TRUE
  /\ inner = 0 /\ blocked = {} /\ dirty = FALSE
  /\ healthy = TRUE /\ source = "fresh"
  /\ lock = Nobody
  /\ pc = [t \in Threads |-> "idle"]
  /\ rules = [t \in Threads |-> 0]
  /\ entries = [t \in Threads |-> {}]
  /\ outcome = [t \in Threads |-> TRUE]
  /\ status = [t \in Threads |-> TRUE]
  /\ sites = Absent /\ meta = Absent /\ bakSites = Absent /\ bakMeta = Absent
  /\ blockedFile = NoFile
  /\ issued = 0 /\ crashes = 0 /\ damages = 0
  /\ committed = None /\ commits = 0 /\ damaged = FALSE
  /\ loadFailed = FALSE /\ lastPersist = "none" /\ blocksBased = FALSE

\* RuleCache::new.  When the directory cannot be created nothing is loaded
\* and CacheHealth keeps its default, healthy and fresh.
NewCache(made) ==
  /\ ~up
  /\ up' = TRUE /\ dir' = made
  /\ inner' = IF made THEN LoadVersion ELSE 0
  /\ source' = IF made THEN LoadSource ELSE "fresh"
  /\ healthy' = (~made \/ LoadSource # "fresh" \/ sites = Absent)
  /\ blocked' = IF made /\ LoadSource # "fresh" /\ blockedFile.exists
                THEN blockedFile.blocks ELSE {}
  /\ dirty' = FALSE
  /\ loadFailed' = (made /\ LoadSource = "fresh" /\ sites # Absent)
  /\ blocksBased' = (made /\ LoadSource # "fresh")
  /\ committed' = IF made /\ damaged
                  THEN IF LoadSource = "fresh" THEN None ELSE LoadVersion
                  ELSE committed
  /\ damaged' = (damaged /\ ~made)
  /\ lastPersist' = "none"
  /\ UNCHANGED <<locals, disk, bounds, commits>>

-----------------------------------------------------------------------------
(* persist_to_disk *)

\* The tail of update_from_bundle and update_from_site_config: the new rules
\* are already swapped in when the persist starts.
Update(t) ==
  /\ up /\ pc[t] = "idle" /\ issued < MaxVersion
  /\ issued' = issued + 1
  /\ inner' = issued'
  /\ pc' = [pc EXCEPT ![t] = "lock"]
  /\ UNCHANGED <<up, dir, blocked, dirty, healthy, source, lock, rules, entries,
                 outcome, status, disk, crashes, damages, history>>

\* PingWafAgent::shutdown persists whatever is in memory.
Shutdown(t) ==
  /\ up /\ pc[t] = "idle"
  /\ pc' = [pc EXCEPT ![t] = "lock"]
  /\ UNCHANGED <<process, lock, rules, entries, outcome, status, disk, bounds,
                 history>>

\* persist_to_disk_inner up to the roll: the early return without a
\* directory, the lock, and the snapshot read under it.
PersistNoDir(t) ==
  /\ up /\ pc[t] = "lock" /\ ~dir
  /\ pc' = [pc EXCEPT ![t] = "status"]
  /\ lastPersist' = "skipped"
  /\ UNCHANGED <<process, lock, rules, entries, outcome, status, disk, bounds,
                 committed, commits, damaged, loadFailed, blocksBased>>

\* Mutant: the persist lock is not taken.
PersistLockFree(t) ==
  /\ up /\ pc[t] = "lock" /\ dir
  /\ lock' = t
  /\ rules' = [rules EXCEPT ![t] = inner]
  /\ pc' = [pc EXCEPT ![t] = "roll"]
  /\ UNCHANGED <<process, entries, outcome, status, disk, bounds, history>>

PersistLock(t) ==
  /\ up /\ pc[t] = "lock" /\ dir /\ lock = Nobody
  /\ lock' = t
  /\ rules' = [rules EXCEPT ![t] = inner]
  /\ pc' = [pc EXCEPT ![t] = "roll"]
  /\ UNCHANGED <<process, entries, outcome, status, disk, bounds, history>>

\* Mutant: the roll-over is best effort, its failure swallowed.
RollSkipAlways(t) ==
  /\ up /\ pc[t] = "roll"
  /\ pc' = [pc EXCEPT ![t] = "sites"]
  /\ UNCHANGED <<process, lock, rules, entries, outcome, status, disk, bounds,
                 history>>

\* roll_backup_if_valid: a primary that fails full validation is not rolled.
RollSkip(t) ==
  /\ up /\ pc[t] = "roll" /\ ~ReadSnapshotOk(sites, meta)
  /\ pc' = [pc EXCEPT ![t] = "sites"]
  /\ UNCHANGED <<process, lock, rules, entries, outcome, status, disk, bounds,
                 history>>

\* Mutant: whatever exists is rolled, valid or not.
RollSitesUnvalidated(t) ==
  /\ up /\ pc[t] = "roll" /\ sites # Absent
  /\ bakSites' = sites
  /\ pc' = [pc EXCEPT ![t] = IF meta = Absent THEN "sites" ELSE "rollmeta"]
  /\ UNCHANGED <<process, lock, rules, entries, outcome, status, sites, meta,
                 bakMeta, blockedFile, bounds, history>>

RollSites(t) ==
  /\ up /\ pc[t] = "roll" /\ ReadSnapshotOk(sites, meta)
  /\ bakSites' = sites
  /\ pc' = [pc EXCEPT ![t] = IF meta = Absent THEN "sites" ELSE "rollmeta"]
  /\ UNCHANGED <<process, lock, rules, entries, outcome, status, sites, meta,
                 bakMeta, blockedFile, bounds, history>>

RollMeta(t) ==
  /\ up /\ pc[t] = "rollmeta"
  /\ bakMeta' = meta
  /\ pc' = [pc EXCEPT ![t] = "sites"]
  /\ UNCHANGED <<process, lock, rules, entries, outcome, status, sites, meta,
                 bakSites, blockedFile, bounds, history>>

WriteSites(t) ==
  /\ up /\ pc[t] = "sites"
  /\ sites' = rules[t]
  /\ pc' = [pc EXCEPT ![t] = "meta"]
  /\ UNCHANGED <<process, lock, rules, entries, outcome, status, meta, bakSites,
                 bakMeta, blockedFile, bounds, history>>

\* The stamp is the CRC32 of the payload this thread wrote just before.
WriteMeta(t) ==
  /\ up /\ pc[t] = "meta"
  /\ meta' = rules[t]
  /\ committed' = rules[t]
  /\ commits' = IF commits < 2 THEN commits + 1 ELSE 2
  /\ pc' = [pc EXCEPT ![t] = "entries"]
  /\ UNCHANGED <<process, lock, rules, entries, outcome, status, sites, bakSites,
                 bakMeta, blockedFile, bounds, damaged, loadFailed, lastPersist,
                 blocksBased>>

\* `rules` and `entries` go out of scope with the lock guard.
DropLocals(t) ==
  /\ rules' = [rules EXCEPT ![t] = 0]
  /\ entries' = [entries EXCEPT ![t] = {}]

\* persist_blocked_ips_inner: the map is copied, then written.
CollectBlocked(t) ==
  /\ up /\ pc[t] = "entries"
  /\ entries' = [entries EXCEPT ![t] = blocked]
  /\ pc' = [pc EXCEPT ![t] = "blocked"]
  /\ UNCHANGED <<process, lock, rules, outcome, status, disk, bounds, history>>

WriteBlocked(t) ==
  /\ up /\ pc[t] = "blocked"
  /\ blockedFile' = BlockedFile(entries[t])
  /\ blocksBased' = TRUE
  /\ lock' = Nobody
  /\ pc' = [pc EXCEPT ![t] = IF t \in Persisters THEN "status" ELSE "idle"]
  /\ lastPersist' = IF t \in Persisters THEN "ok" ELSE lastPersist
  /\ DropLocals(t)
  /\ UNCHANGED <<process, outcome, status, sites, meta, bakSites, bakMeta,
                 bounds, committed, commits, damaged, loadFailed>>

\* write_atomic fails: its temporary file is removed, the target keeps its
\* old content, and `?` leaves persist_to_disk_inner or
\* persist_blocked_ips_inner with the lock released.
WriteFails(t) ==
  /\ up
  /\ \/ pc[t] \in {"rollmeta", "sites", "meta", "blocked"}
     \/ pc[t] = "roll" /\ ReadSnapshotOk(sites, meta)
  /\ lock' = Nobody
  /\ pc' = [pc EXCEPT ![t] = IF t \in Persisters THEN "status" ELSE "redirty"]
  /\ outcome' = [outcome EXCEPT ![t] = t \notin Persisters]
  /\ lastPersist' = IF t \in Persisters THEN "err" ELSE lastPersist
  /\ DropLocals(t)
  /\ UNCHANGED <<process, status, disk, bounds, committed,
                 commits, damaged, loadFailed, blocksBased>>

\* The tail of persist_to_disk: read the health, then record the outcome.
ReadStatus(t) ==
  /\ up /\ pc[t] = "status"
  /\ status' = [status EXCEPT ![t] = healthy]
  /\ pc' = [pc EXCEPT ![t] = "record"]
  /\ UNCHANGED <<process, lock, rules, entries, outcome, disk, bounds, history>>

\* Mutant: a successful persist clears any failure.
RecordOutcomeClears(t) ==
  /\ up /\ pc[t] = "record"
  /\ healthy' = outcome[t]
  /\ pc' = [pc EXCEPT ![t] = "idle"]
  /\ outcome' = [outcome EXCEPT ![t] = TRUE]
  /\ status' = [status EXCEPT ![t] = TRUE]
  /\ UNCHANGED <<up, dir, inner, blocked, dirty, source, lock, rules, entries,
                 disk, bounds, history>>

RecordOutcome(t) ==
  /\ up /\ pc[t] = "record"
  /\ healthy' = IF outcome[t] THEN (healthy \/ status[t]) ELSE FALSE
  /\ pc' = [pc EXCEPT ![t] = "idle"]
  /\ outcome' = [outcome EXCEPT ![t] = TRUE]
  /\ status' = [status EXCEPT ![t] = TRUE]
  /\ UNCHANGED <<up, dir, inner, blocked, dirty, source, lock, rules, entries,
                 disk, bounds, history>>

-----------------------------------------------------------------------------
(* blocked-IP mutations and their debounced flush *)

\* flush_blocked_ips: the flag is taken down before the map is read.
FlushSwap(t) ==
  /\ up /\ pc[t] = "idle" /\ dirty
  /\ dirty' = FALSE
  /\ pc' = [pc EXCEPT ![t] = IF dir THEN "lock" ELSE "idle"]
  /\ UNCHANGED <<up, dir, inner, blocked, healthy, source, lock, rules, entries,
                 outcome, status, disk, bounds, history>>

FlushLock(t) ==
  /\ up /\ pc[t] = "lock" /\ lock = Nobody
  /\ lock' = t
  /\ pc' = [pc EXCEPT ![t] = "entries"]
  /\ UNCHANGED <<process, rules, entries, outcome, status, disk, bounds, history>>

\* Mutant: a failed flush is not retried.
FlushGiveUp(t) ==
  /\ up /\ pc[t] = "redirty"
  /\ pc' = [pc EXCEPT ![t] = "idle"]
  /\ UNCHANGED <<process, lock, rules, entries, outcome, status, disk, bounds,
                 history>>

\* A failed flush raises the flag again for the next pass.
FlushRedirty(t) ==
  /\ up /\ pc[t] = "redirty"
  /\ dirty' = TRUE
  /\ pc' = [pc EXCEPT ![t] = "idle"]
  /\ UNCHANGED <<up, dir, inner, blocked, healthy, source, lock, rules, entries,
                 outcome, status, disk, bounds, history>>

\* block_ip and unblock_ip: the map first, then the flag.
BlockIp(t, b) ==
  /\ up /\ pc[t] = "idle"
  /\ blocked' = blocked \cup {b}
  /\ pc' = [pc EXCEPT ![t] = "mark"]
  /\ UNCHANGED <<up, dir, inner, dirty, healthy, source, lock, rules, entries,
                 outcome, status, disk, bounds, history>>

UnblockIp(t, b) ==
  /\ up /\ pc[t] = "idle" /\ b \in blocked
  /\ blocked' = blocked \ {b}
  /\ pc' = [pc EXCEPT ![t] = "mark"]
  /\ UNCHANGED <<up, dir, inner, dirty, healthy, source, lock, rules, entries,
                 outcome, status, disk, bounds, history>>

MarkBlockedDirty(t) ==
  /\ up /\ pc[t] = "mark"
  /\ dirty' = TRUE
  /\ pc' = [pc EXCEPT ![t] = "idle"]
  /\ UNCHANGED <<up, dir, inner, blocked, healthy, source, lock, rules, entries,
                 outcome, status, disk, bounds, history>>

-----------------------------------------------------------------------------
(* The environment *)

\* The process ends, at any point: memory and the lock are gone.
Crash ==
  /\ up /\ crashes < MaxCrash
  /\ crashes' = crashes + 1
  /\ up' = FALSE
  /\ lock' = Nobody
  /\ pc' = [t \in Threads |-> "idle"]
  /\ rules' = [t \in Threads |-> 0]
  /\ entries' = [t \in Threads |-> {}]
  /\ outcome' = [t \in Threads |-> TRUE]
  /\ status' = [t \in Threads |-> TRUE]
  /\ inner' = 0 /\ blocked' = {} /\ dirty' = FALSE
  /\ UNCHANGED <<dir, healthy, source, disk, issued, damages, history>>

\* The damage the tests inject: a torn primary, or one whose stamp is wrong.
Damage ==
  /\ ~up /\ damages < MaxDamage /\ sites # Absent
  /\ damages' = damages + 1
  /\ \/ sites' = Torn
     \/ meta # Absent /\ sites' = Tampered
  /\ damaged' = TRUE
  /\ commits' = IF commits = 2 THEN 2 ELSE 0
  /\ UNCHANGED <<process, locals, meta, bakSites, bakMeta, blockedFile, issued,
                 crashes, committed, loadFailed, lastPersist, blocksBased>>

PersistStep(t) ==
  \/ Update(t) \/ Shutdown(t)
  \/ PersistNoDir(t) \/ PersistLock(t)
  \/ RollSkip(t) \/ RollSites(t) \/ RollMeta(t)
  \/ WriteSites(t) \/ WriteMeta(t)
  \/ ReadStatus(t) \/ RecordOutcome(t)

FlushStep(t) == FlushSwap(t) \/ FlushLock(t) \/ FlushRedirty(t)

BlockedWriteStep(t) == CollectBlocked(t) \/ WriteBlocked(t) \/ WriteFails(t)

BlockStep(t) ==
  \/ \E b \in Blocks : BlockIp(t, b) \/ UnblockIp(t, b)
  \/ MarkBlockedDirty(t)

Next ==
  \/ \E made \in BOOLEAN : NewCache(made)
  \/ \E t \in Persisters : PersistStep(t)
  \/ \E t \in Flushers : FlushStep(t)
  \/ \E t \in Persisters \cup Flushers : BlockedWriteStep(t)
  \/ \E t \in Blockers : BlockStep(t)
  \/ Crash
  \/ Damage

Spec == Init /\ [][Next]_vars

-----------------------------------------------------------------------------
(* Properties *)

Labels == {"idle", "lock", "roll", "rollmeta", "sites", "meta", "entries",
           "blocked", "status", "record", "redirty", "mark"}
PcOf(t) ==
  IF t \in Persisters
  THEN Labels \ {"redirty", "mark"}
  ELSE IF t \in Flushers THEN {"idle", "lock", "entries", "blocked", "redirty"}
  ELSE {"idle", "mark"}

\* Type correctness of the process, the locals, the files and the history.
TypeOK ==
  /\ up \in BOOLEAN /\ dir \in BOOLEAN
  /\ inner \in Versions /\ blocked \in SUBSET Blocks /\ dirty \in BOOLEAN
  /\ healthy \in BOOLEAN /\ source \in {"fresh", "disk", "backup"}
  /\ lock \in Threads \cup {Nobody}
  /\ pc \in [Threads -> Labels] /\ \A t \in Threads : pc[t] \in PcOf(t)
  /\ rules \in [Threads -> Versions]
  /\ entries \in [Threads -> SUBSET Blocks]
  /\ outcome \in [Threads -> BOOLEAN] /\ status \in [Threads -> BOOLEAN]
  /\ sites \in Versions \cup {Absent, Torn, Tampered}
  /\ meta \in Versions \cup {Absent}
  /\ bakSites \in Versions \cup {Absent} /\ bakMeta \in Versions \cup {Absent}
  /\ blockedFile \in [exists : BOOLEAN, blocks : SUBSET Blocks]
  /\ issued \in Versions /\ crashes \in Nat /\ damages \in Nat
  /\ committed \in Versions \cup {None} /\ commits \in 0..2
  /\ damaged \in BOOLEAN /\ loadFailed \in BOOLEAN /\ blocksBased \in BOOLEAN
  /\ lastPersist \in {"none", "ok", "err", "skipped"}

\* load_from_disk after persist_to_disk: once a persist has stamped its
\* metadata, a start at any later moment (mid-persist, after failed writes,
\* after any number of crashes) finds a usable snapshot, and never one older
\* than that persist's.
Recoverable ==
  ~damaged /\ committed # None =>
    LoadSource # "fresh" /\ LoadVersion >= committed

\* roll_backup_if_valid: after two undamaged persists the agent no longer
\* depends on sites.json.  Whatever happens to it, the backup parses.
BackupStands == commits = 2 => Parses(bakSites)

NoPersistInFlight == \A t \in Persisters : pc[t] \in {"idle", "status", "record"}

\* persist_to_disk reads the rules under the lock: when no persist is in
\* flight and the last one succeeded, a restart would load the rules in
\* memory, however many syncs and shutdowns raced for the lock.
RestartKeepsRules ==
  up /\ NoPersistInFlight /\ lastPersist = "ok" =>
    LoadSource = "disk" /\ LoadVersion = inner

BlocksSettled ==
  /\ \A t \in Blockers : pc[t] = "idle"
  /\ \A t \in Flushers : pc[t] = "idle"
  /\ \A t \in Persisters : pc[t] \notin {"entries", "blocked"}

\* flush_blocked_ips: with the dirty flag down and nothing in flight, the
\* blocks in force are exactly the blocks on disk.
CleanMeansFlushed ==
  up /\ dir /\ blocksBased /\ ~dirty /\ BlocksSettled =>
    blockedFile.blocks = blocked

\* persist_to_disk and CacheHealth: an agent that came up on empty rules
\* because its snapshots were unusable says so until its next start.
LoadFailureSticky == up /\ loadFailed => ~healthy

\* mark_blocked_dirty's comment: only blocks not yet flushed are lost by a
\* restart.  (Violated: load_from_disk returns before load_blocked_ips when
\* there is no sites.json.)
FlushedBlocksKept ==
  up /\ dir /\ damages = 0 /\ ~dirty /\ BlocksSettled =>
    blockedFile.blocks \subseteq blocked

\* RuleCache.health's comment: a cache that does not persist is visible in
\* the heartbeat.  (Violated: without a cache directory persist_to_disk_inner
\* returns Ok, and the health stays at its default.)
DegradedVisible ==
  up /\ lastPersist = "skipped" /\ (\A t \in Threads : pc[t] = "idle") =>
    ~healthy

=============================================================================
