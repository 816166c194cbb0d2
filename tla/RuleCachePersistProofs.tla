------------------------ MODULE RuleCachePersistProofs ------------------------
(* Proofs about RuleCachePersist, for any number of syncs, flush tasks,      *)
(* request threads, crashes and damages.                                    *)
EXTENDS RuleCachePersist, TLAPS

-----------------------------------------------------------------------------
(* Type correctness *)

\* A tampered primary is one whose stamp is wrong, so it has a stamp.
TypeInv == TypeOK /\ (sites = Tampered => meta # Absent)

\* What a load returns: rules that some sync produced.
LEMMA LoadTypes ==
  ASSUME TypeInv
  PROVE  /\ LoadSource \in {"fresh", "disk", "backup"}
         /\ LoadVersion \in Versions
         /\ ReadSnapshotOk(sites, meta) => sites \in Versions
BY BoundsAssumption
   DEF TypeInv, TypeOK, LoadSource, LoadVersion, ReadSnapshotOk, Parses, Matches,
       Versions, Absent, Torn, Tampered

\* The initial state is well typed.
LEMMA InitType == Init => TypeInv
<1> SUFFICES ASSUME Init PROVE TypeInv
  OBVIOUS
<1>1. pc \in [Threads -> Labels] /\ \A t \in Threads : pc[t] \in PcOf(t)
  BY DEF Init, PcOf, Labels
<1>2. rules \in [Threads -> Versions] /\ entries \in [Threads -> SUBSET Blocks]
  BY BoundsAssumption DEF Init, Versions
<1>3. outcome \in [Threads -> BOOLEAN] /\ status \in [Threads -> BOOLEAN]
  BY DEF Init
<1>4. blockedFile \in [exists : BOOLEAN, blocks : SUBSET Blocks]
  BY DEF Init, NoFile
<1>5. /\ up \in BOOLEAN /\ dir \in BOOLEAN /\ dirty \in BOOLEAN
      /\ healthy \in BOOLEAN /\ damaged \in BOOLEAN
      /\ loadFailed \in BOOLEAN /\ blocksBased \in BOOLEAN
  BY DEF Init
<1>6. /\ inner \in Versions /\ blocked \in SUBSET Blocks
      /\ issued \in Versions /\ crashes \in Nat /\ damages \in Nat
      /\ commits \in 0..2 /\ committed = None
  BY BoundsAssumption DEF Init, Versions
<1>7. /\ sites = Absent /\ meta = Absent /\ bakSites = Absent /\ bakMeta = Absent
      /\ lock = Nobody /\ source = "fresh" /\ lastPersist = "none"
  BY DEF Init
<1>8. QED
  BY <1>1, <1>2, <1>3, <1>4, <1>5, <1>6, <1>7
     DEF TypeInv, TypeOK, Absent, Torn, Tampered

\* Every step of the agent keeps the types.
LEMMA NextType == TypeInv /\ [Next]_vars => TypeInv'
<1> SUFFICES ASSUME TypeInv, [Next]_vars PROVE TypeInv'
  OBVIOUS
<1> USE ThreadsDisjoint, BoundsAssumption
<1> USE DEF TypeInv, TypeOK, process, locals, disk, bounds, history
<1>1. ASSUME NEW made \in BOOLEAN, NewCache(made) PROVE TypeInv'
  <2>1. /\ healthy' \in BOOLEAN /\ loadFailed' \in BOOLEAN
        /\ blocksBased' \in BOOLEAN /\ damaged' \in BOOLEAN
    BY <1>1, Zenon DEF NewCache
  <2>2. inner' \in Versions /\ source' \in {"fresh", "disk", "backup"}
    BY <1>1, LoadTypes DEF NewCache, Versions
  <2>3. committed' \in Versions \cup {None}
    BY <1>1, LoadTypes DEF NewCache
  <2>4. blocked' \in SUBSET Blocks
    BY <1>1 DEF NewCache
  <2>5. QED
    BY <1>1, <2>1, <2>2, <2>3, <2>4 DEF NewCache
<1>2. ASSUME NEW t \in Persisters, PersistStep(t) PROVE TypeInv'
  <2> t \in Threads
    BY DEF Threads
  <2>1. CASE Update(t)
    BY <2>1 DEF Update, PcOf, Labels, Versions
  <2>2. CASE Shutdown(t)
    BY <2>2 DEF Shutdown, PcOf, Labels
  <2>3. CASE PersistNoDir(t)
    BY <2>3 DEF PersistNoDir, PcOf, Labels
  <2>4. CASE PersistLock(t)
    BY <2>4 DEF PersistLock, PcOf, Labels
  <2>5. CASE RollSkip(t)
    BY <2>5 DEF RollSkip, PcOf, Labels
  <2>6. CASE RollSites(t)
    BY <2>6, LoadTypes DEF RollSites, PcOf, Labels
  <2>7. CASE RollMeta(t)
    BY <2>7 DEF RollMeta, PcOf, Labels
  <2>8. CASE WriteSites(t)
    BY <2>8 DEF WriteSites, PcOf, Labels, Versions, Tampered
  <2>9. CASE WriteMeta(t)
    BY <2>9 DEF WriteMeta, PcOf, Labels, Versions, Absent
  <2>10. CASE ReadStatus(t)
    BY <2>10 DEF ReadStatus, PcOf, Labels
  <2>11. CASE RecordOutcome(t)
    <3>1. healthy' \in BOOLEAN
      BY <2>11, Zenon DEF RecordOutcome
    <3>2. /\ pc' = [pc EXCEPT ![t] = "idle"]
          /\ outcome' = [outcome EXCEPT ![t] = TRUE]
          /\ status' = [status EXCEPT ![t] = TRUE]
          /\ UNCHANGED <<up, dir, inner, blocked, dirty, source, lock, rules,
                         entries, disk, bounds, history>>
      BY <2>11 DEF RecordOutcome
    <3>3. QED
      BY <3>1, <3>2 DEF PcOf, Labels
  <2>12. QED
    BY <1>2, <2>1, <2>2, <2>3, <2>4, <2>5, <2>6, <2>7, <2>8, <2>9, <2>10, <2>11
       DEF PersistStep
<1>3. ASSUME NEW t \in Flushers, FlushStep(t) PROVE TypeInv'
  <2> t \in Threads /\ t \notin Persisters
    BY DEF Threads
  <2>1. CASE FlushSwap(t)
    <3>1. pc' = [pc EXCEPT ![t] = "lock"] \/ pc' = [pc EXCEPT ![t] = "idle"]
      BY <2>1, Zenon DEF FlushSwap
    <3>2. /\ dirty' \in BOOLEAN
          /\ UNCHANGED <<up, dir, inner, blocked, healthy, source, lock, rules,
                         entries, outcome, status, disk, bounds, history>>
      BY <2>1 DEF FlushSwap
    <3>3. QED
      BY <3>1, <3>2 DEF PcOf, Labels
  <2>2. CASE FlushLock(t)
    BY <2>2 DEF FlushLock, PcOf, Labels
  <2>3. CASE FlushRedirty(t)
    BY <2>3 DEF FlushRedirty, PcOf, Labels
  <2>4. QED
    BY <1>3, <2>1, <2>2, <2>3 DEF FlushStep
<1>4. ASSUME NEW t \in Persisters \cup Flushers, BlockedWriteStep(t)
      PROVE TypeInv'
  <2> t \in Threads
    BY DEF Threads
  <2>1. CASE CollectBlocked(t)
    BY <2>1 DEF CollectBlocked, PcOf, Labels
  <2>2. CASE WriteBlocked(t)
    BY <2>2 DEF WriteBlocked, DropLocals, BlockedFile, PcOf, Labels, Versions
  <2>3. CASE WriteFails(t)
    BY <2>3 DEF WriteFails, DropLocals, PcOf, Labels, Versions
  <2>4. QED
    BY <1>4, <2>1, <2>2, <2>3 DEF BlockedWriteStep
<1>5. ASSUME NEW t \in Blockers, BlockStep(t) PROVE TypeInv'
  <2> t \in Threads /\ t \notin Persisters /\ t \notin Flushers
    BY DEF Threads
  <2>1. ASSUME NEW b \in Blocks, BlockIp(t, b) PROVE TypeInv'
    BY <2>1 DEF BlockIp, PcOf, Labels
  <2>2. ASSUME NEW b \in Blocks, UnblockIp(t, b) PROVE TypeInv'
    BY <2>2 DEF UnblockIp, PcOf, Labels
  <2>3. CASE MarkBlockedDirty(t)
    BY <2>3 DEF MarkBlockedDirty, PcOf, Labels
  <2>4. QED
    BY <1>5, <2>1, <2>2, <2>3 DEF BlockStep
<1>6. CASE Crash
  <2>1. /\ pc' \in [Threads -> Labels] /\ \A t \in Threads : pc'[t] \in PcOf(t)
    BY <1>6 DEF Crash, PcOf, Labels
  <2>2. /\ rules' \in [Threads -> Versions] /\ entries' \in [Threads -> SUBSET Blocks]
        /\ inner' \in Versions /\ blocked' \in SUBSET Blocks
    BY <1>6 DEF Crash, Versions
  <2>3. outcome' \in [Threads -> BOOLEAN] /\ status' \in [Threads -> BOOLEAN]
    BY <1>6 DEF Crash
  <2>4. up' \in BOOLEAN /\ dirty' \in BOOLEAN
    BY <1>6 DEF Crash
  <2>5. /\ lock' = Nobody /\ crashes' = crashes + 1
        /\ UNCHANGED <<dir, healthy, source, disk, issued, damages, history>>
    BY <1>6 DEF Crash
  <2>6. QED
    BY <2>1, <2>2, <2>3, <2>4, <2>5
<1>7. CASE Damage
  BY <1>7 DEF Damage, Absent, Torn, Tampered
<1>8. CASE UNCHANGED vars
  BY <1>8 DEF vars
<1>9. QED
  BY <1>1, <1>2, <1>3, <1>4, <1>5, <1>6, <1>7, <1>8 DEF Next

\* Every reachable state of the agent, its threads and its cache directory is
\* well typed; in particular the backup is never a torn file.
THEOREM TypeCorrect == Spec => []TypeOK
<1>1. TypeInv => TypeOK
  BY DEF TypeInv
<1>2. QED
  BY InitType, NextType, <1>1, PTL DEF Spec

-----------------------------------------------------------------------------
(* Mutual exclusion of the persist paths *)

Critical == {"roll", "rollmeta", "sites", "meta", "entries", "blocked"}

\* A thread that writes files holds persist_lock, in a running agent with a
\* cache directory; a damage not yet seen by a load means that no load ran.
LockInv ==
  /\ \A t \in Threads : pc[t] \in Critical => lock = t /\ up /\ dir
  /\ \A t \in Threads : pc[t] # "idle" => up
  /\ \A t \in Flushers : pc[t] = "lock" => dir
  /\ \A t \in Persisters : pc[t] = "meta" => sites = rules[t]
  /\ damaged => (~up \/ ~dir) /\ sites \in {Torn, Tampered}

\* What a crash changes of the state the invariants look at.
LEMMA CrashEffect ==
  ASSUME TypeInv, Crash
  PROVE  /\ ~up' /\ lock' = Nobody
         /\ \A t \in Threads : pc'[t] = "idle" /\ rules'[t] = 0
         /\ inner' = 0
         /\ UNCHANGED <<disk, issued, committed, commits, damaged>>
BY DEF Crash, disk, history

\* What RuleCache::new changes of it.
LEMMA NewCacheEffect ==
  ASSUME TypeInv, NEW made \in BOOLEAN, NewCache(made)
  PROVE  /\ ~up /\ up' /\ (dir' <=> made)
         /\ damaged' <=> damaged /\ ~made
         /\ made => inner' = LoadVersion
         /\ ~made => inner' = 0
         /\ made /\ damaged =>
              committed' = IF LoadSource = "fresh" THEN None ELSE LoadVersion
         /\ ~(made /\ damaged) => committed' = committed
         /\ UNCHANGED <<locals, disk, bounds, commits>>
BY DEF NewCache, TypeInv, TypeOK

\* What a damage of sites.json changes of it.
LEMMA DamageEffect ==
  ASSUME TypeInv, Damage
  PROVE  /\ ~up /\ sites # Absent /\ damaged'
         /\ sites' = Torn \/ (meta # Absent /\ sites' = Tampered)
         /\ commits = 2 => commits' = 2
         /\ commits # 2 => commits' = 0
         /\ UNCHANGED <<process, locals, meta, bakSites, bakMeta, blockedFile,
                        issued, committed>>
BY DEF Damage

\* Nobody holds persist_lock initially.
LEMMA InitLock == Init => LockInv
BY DEF Init, LockInv, Critical, Threads

\* persist_lock excludes: one case per action.
LEMMA NextLock == TypeInv /\ LockInv /\ [Next]_vars => LockInv'
<1> SUFFICES ASSUME TypeInv, LockInv, [Next]_vars PROVE LockInv'
  OBVIOUS
<1> USE ThreadsDisjoint, NobodyAssumption, BoundsAssumption
<1> USE DEF TypeInv, TypeOK, Threads, LockInv, Critical, process, locals, disk, bounds, history
<1>1. ASSUME NEW made \in BOOLEAN, NewCache(made) PROVE LockInv'
  BY <1>1, NewCacheEffect
<1>2. ASSUME NEW t \in Persisters, PersistStep(t) PROVE LockInv'
  <2> t \in Threads
    BY DEF Threads
  <2>1. CASE Update(t)
    BY <2>1 DEF Update
  <2>2. CASE Shutdown(t)
    BY <2>2 DEF Shutdown
  <2>3. CASE PersistNoDir(t)
    BY <2>3 DEF PersistNoDir
  <2>4. CASE PersistLock(t)
    BY <2>4 DEF PersistLock
  <2>5. CASE RollSkip(t)
    BY <2>5 DEF RollSkip
  <2>6. CASE RollSites(t)
    BY <2>6 DEF RollSites
  <2>7. CASE RollMeta(t)
    BY <2>7 DEF RollMeta
  <2>8. CASE WriteSites(t)
    BY <2>8 DEF WriteSites
  <2>9. CASE WriteMeta(t)
    BY <2>9 DEF WriteMeta
  <2>10. CASE ReadStatus(t)
    BY <2>10 DEF ReadStatus
  <2>11. CASE RecordOutcome(t)
    BY <2>11 DEF RecordOutcome
  <2>12. QED
    BY <1>2, <2>1, <2>2, <2>3, <2>4, <2>5, <2>6, <2>7, <2>8, <2>9, <2>10, <2>11
       DEF PersistStep
<1>3. ASSUME NEW t \in Flushers, FlushStep(t) PROVE LockInv'
  <2> t \in Threads /\ t \notin Persisters
    BY DEF Threads
  <2>1. CASE FlushSwap(t)
    BY <2>1 DEF FlushSwap
  <2>2. CASE FlushLock(t)
    BY <2>2 DEF FlushLock
  <2>3. CASE FlushRedirty(t)
    BY <2>3 DEF FlushRedirty
  <2>4. QED
    BY <1>3, <2>1, <2>2, <2>3 DEF FlushStep
<1>4. ASSUME NEW t \in Persisters \cup Flushers, BlockedWriteStep(t)
      PROVE LockInv'
  <2> t \in Threads
    BY DEF Threads
  <2>1. CASE CollectBlocked(t)
    BY <2>1 DEF CollectBlocked
  <2>2. CASE WriteBlocked(t)
    BY <2>2 DEF WriteBlocked, DropLocals
  <2>3. CASE WriteFails(t)
    BY <2>3 DEF WriteFails, DropLocals
  <2>4. QED
    BY <1>4, <2>1, <2>2, <2>3 DEF BlockedWriteStep
<1>5. ASSUME NEW t \in Blockers, BlockStep(t) PROVE LockInv'
  <2> t \in Threads /\ t \notin Persisters /\ t \notin Flushers
    BY DEF Threads
  <2>1. ASSUME NEW b \in Blocks, BlockIp(t, b) PROVE LockInv'
    BY <2>1 DEF BlockIp
  <2>2. ASSUME NEW b \in Blocks, UnblockIp(t, b) PROVE LockInv'
    BY <2>2 DEF UnblockIp
  <2>3. CASE MarkBlockedDirty(t)
    BY <2>3 DEF MarkBlockedDirty
  <2>4. QED
    BY <1>5, <2>1, <2>2, <2>3 DEF BlockStep
<1>6. CASE Crash
  BY <1>6, CrashEffect
<1>7. CASE Damage
  BY <1>7, DamageEffect
<1>8. CASE UNCHANGED vars
  BY <1>8 DEF vars
<1>9. QED
  BY <1>1, <1>2, <1>3, <1>4, <1>5, <1>6, <1>7, <1>8 DEF Next

-----------------------------------------------------------------------------
(* Snapshots come from syncs *)

\* No copy of the rules, in memory or on disk, is newer than the last sync.
IssuedInv ==
  /\ inner <= issued /\ committed <= issued
  /\ sites <= issued /\ bakSites <= issued
  /\ \A t \in Threads : rules[t] <= issued

\* Nothing is newer than the last sync initially.
LEMMA InitIssued == Init => IssuedInv
BY DEF Init, IssuedInv, Absent, None

\* Rules only ever come from a sync or from the disk.
LEMMA NextIssued == TypeInv /\ IssuedInv /\ [Next]_vars => IssuedInv'
<1> SUFFICES ASSUME TypeInv, IssuedInv, [Next]_vars PROVE IssuedInv'
  OBVIOUS
<1> USE ThreadsDisjoint, NobodyAssumption, BoundsAssumption
<1> USE DEF TypeInv, TypeOK, Threads, IssuedInv, Versions, Absent, Torn, Tampered, None, process, locals, disk, bounds, history
<1>1. ASSUME NEW made \in BOOLEAN, NewCache(made) PROVE IssuedInv'
  BY <1>1, NewCacheEffect DEF LoadVersion
<1>2. ASSUME NEW t \in Persisters, PersistStep(t) PROVE IssuedInv'
  <2> t \in Threads
    BY DEF Threads
  <2>1. CASE Update(t)
    BY <2>1 DEF Update
  <2>2. CASE Shutdown(t)
    BY <2>2 DEF Shutdown
  <2>3. CASE PersistNoDir(t)
    BY <2>3 DEF PersistNoDir
  <2>4. CASE PersistLock(t)
    BY <2>4 DEF PersistLock
  <2>5. CASE RollSkip(t)
    BY <2>5 DEF RollSkip
  <2>6. CASE RollSites(t)
    BY <2>6 DEF RollSites
  <2>7. CASE RollMeta(t)
    BY <2>7 DEF RollMeta
  <2>8. CASE WriteSites(t)
    BY <2>8 DEF WriteSites
  <2>9. CASE WriteMeta(t)
    BY <2>9 DEF WriteMeta
  <2>10. CASE ReadStatus(t)
    BY <2>10 DEF ReadStatus
  <2>11. CASE RecordOutcome(t)
    BY <2>11 DEF RecordOutcome
  <2>12. QED
    BY <1>2, <2>1, <2>2, <2>3, <2>4, <2>5, <2>6, <2>7, <2>8, <2>9, <2>10, <2>11
       DEF PersistStep
<1>3. ASSUME NEW t \in Flushers, FlushStep(t) PROVE IssuedInv'
  <2> t \in Threads /\ t \notin Persisters
    BY DEF Threads
  <2>1. CASE FlushSwap(t)
    BY <2>1 DEF FlushSwap
  <2>2. CASE FlushLock(t)
    BY <2>2 DEF FlushLock
  <2>3. CASE FlushRedirty(t)
    BY <2>3 DEF FlushRedirty
  <2>4. QED
    BY <1>3, <2>1, <2>2, <2>3 DEF FlushStep
<1>4. ASSUME NEW t \in Persisters \cup Flushers, BlockedWriteStep(t)
      PROVE IssuedInv'
  <2> t \in Threads
    BY DEF Threads
  <2>1. CASE CollectBlocked(t)
    BY <2>1 DEF CollectBlocked
  <2>2. CASE WriteBlocked(t)
    BY <2>2 DEF WriteBlocked, DropLocals
  <2>3. CASE WriteFails(t)
    BY <2>3 DEF WriteFails, DropLocals
  <2>4. QED
    BY <1>4, <2>1, <2>2, <2>3 DEF BlockedWriteStep
<1>5. ASSUME NEW t \in Blockers, BlockStep(t) PROVE IssuedInv'
  <2> t \in Threads /\ t \notin Persisters /\ t \notin Flushers
    BY DEF Threads
  <2>1. ASSUME NEW b \in Blocks, BlockIp(t, b) PROVE IssuedInv'
    BY <2>1 DEF BlockIp
  <2>2. ASSUME NEW b \in Blocks, UnblockIp(t, b) PROVE IssuedInv'
    BY <2>2 DEF UnblockIp
  <2>3. CASE MarkBlockedDirty(t)
    BY <2>3 DEF MarkBlockedDirty
  <2>4. QED
    BY <1>5, <2>1, <2>2, <2>3 DEF BlockStep
<1>6. CASE Crash
  BY <1>6, CrashEffect
<1>7. CASE Damage
  BY <1>7, DamageEffect
<1>8. CASE UNCHANGED vars
  BY <1>8 DEF vars
<1>9. QED
  BY <1>1, <1>2, <1>3, <1>4, <1>5, <1>6, <1>7, <1>8 DEF Next

-----------------------------------------------------------------------------
(* Recoverability *)

\* Between WriteSites and WriteMeta the primary does not validate; what makes
\* a start at that moment safe is that the backup was rolled, or was already
\* good enough, before the primary was touched.
RecInv ==
  /\ ~damaged /\ committed # None =>
       /\ up /\ dir => inner >= committed
       /\ ReadSnapshotOk(sites, meta) => sites >= committed
       /\ ~ReadSnapshotOk(sites, meta) => sites # Absent /\ bakSites >= committed
  /\ \A t \in Persisters :
       /\ pc[t] \in {"roll", "rollmeta", "sites", "meta"} =>
            rules[t] >= committed /\ inner >= rules[t]
       /\ pc[t] \in {"rollmeta", "sites", "meta"} => bakSites >= committed

\* Nothing is committed initially.
LEMMA InitRec == Init => RecInv
BY DEF Init, RecInv, Threads

\* Recoverability is kept by every step of every persist path.
LEMMA NextRec == TypeInv /\ LockInv /\ IssuedInv /\ RecInv /\ [Next]_vars => RecInv'
<1> SUFFICES ASSUME TypeInv, LockInv, IssuedInv, RecInv, [Next]_vars PROVE RecInv'
  OBVIOUS
<1> USE ThreadsDisjoint, NobodyAssumption, BoundsAssumption
<1> USE DEF TypeInv, TypeOK, Threads, LockInv, IssuedInv, RecInv, Critical, ReadSnapshotOk, Matches, Parses, Versions, Absent, Torn, Tampered, None, process, locals, disk, bounds, history
<1>1. ASSUME NEW made \in BOOLEAN, NewCache(made) PROVE RecInv'
  <2>1. \A t \in Threads : pc'[t] = "idle"
    BY <1>1, NewCacheEffect
  <2>2. CASE made /\ damaged
    <3>1. LoadSource # "disk"
      BY <2>2 DEF LoadSource
    <3>2. LoadSource = "backup" =>
            sites # Absent /\ LoadVersion = bakSites /\ ~ReadSnapshotOk(sites, meta)
      BY DEF LoadSource, LoadVersion
    <3>3. /\ inner' = LoadVersion
          /\ committed' = IF LoadSource = "fresh" THEN None ELSE LoadVersion
          /\ UNCHANGED <<sites, meta, bakSites>>
      BY <1>1, <2>2, NewCacheEffect
    <3>4. CASE LoadSource = "backup"
      BY <2>1, <3>2, <3>3, <3>4, LoadTypes
    <3>5. CASE LoadSource = "fresh"
      BY <2>1, <3>3, <3>5
    <3>6. QED
      BY <3>1, <3>4, <3>5, LoadTypes
  <2>3. CASE made /\ ~damaged
    <3>1. committed # None => LoadVersion >= committed
      BY <2>3, LoadTypes DEF LoadVersion, LoadSource
    <3>2. /\ inner' = LoadVersion /\ committed' = committed
          /\ UNCHANGED <<sites, meta, bakSites>>
      BY <1>1, <2>3, NewCacheEffect
    <3>3. QED
      BY <2>1, <2>3, <3>1, <3>2
  <2>4. CASE ~made
    BY <1>1, <2>4, NewCacheEffect
  <2>5. QED
    BY <2>2, <2>3, <2>4
<1>2. ASSUME NEW t \in Persisters, PersistStep(t) PROVE RecInv'
  <2> t \in Threads
    BY DEF Threads
  <2>1. CASE Update(t)
    BY <2>1 DEF Update
  <2>2. CASE Shutdown(t)
    BY <2>2 DEF Shutdown
  <2>3. CASE PersistNoDir(t)
    BY <2>3 DEF PersistNoDir
  <2>4. CASE PersistLock(t)
    BY <2>4 DEF PersistLock
  <2>5. CASE RollSkip(t)
    BY <2>5 DEF RollSkip
  <2>6. CASE RollSites(t)
    BY <2>6 DEF RollSites
  <2>7. CASE RollMeta(t)
    BY <2>7 DEF RollMeta
  <2>8. CASE WriteSites(t)
    BY <2>8 DEF WriteSites
  <2>9. CASE WriteMeta(t)
    BY <2>9 DEF WriteMeta
  <2>10. CASE ReadStatus(t)
    BY <2>10 DEF ReadStatus
  <2>11. CASE RecordOutcome(t)
    BY <2>11 DEF RecordOutcome
  <2>12. QED
    BY <1>2, <2>1, <2>2, <2>3, <2>4, <2>5, <2>6, <2>7, <2>8, <2>9, <2>10, <2>11
       DEF PersistStep
<1>3. ASSUME NEW t \in Flushers, FlushStep(t) PROVE RecInv'
  <2> t \in Threads /\ t \notin Persisters
    BY DEF Threads
  <2>1. CASE FlushSwap(t)
    BY <2>1 DEF FlushSwap
  <2>2. CASE FlushLock(t)
    BY <2>2 DEF FlushLock
  <2>3. CASE FlushRedirty(t)
    BY <2>3 DEF FlushRedirty
  <2>4. QED
    BY <1>3, <2>1, <2>2, <2>3 DEF FlushStep
<1>4. ASSUME NEW t \in Persisters \cup Flushers, BlockedWriteStep(t)
      PROVE RecInv'
  <2> t \in Threads
    BY DEF Threads
  <2>1. CASE CollectBlocked(t)
    BY <2>1 DEF CollectBlocked
  <2>2. CASE WriteBlocked(t)
    BY <2>2 DEF WriteBlocked, DropLocals
  <2>3. CASE WriteFails(t)
    BY <2>3 DEF WriteFails, DropLocals
  <2>4. QED
    BY <1>4, <2>1, <2>2, <2>3 DEF BlockedWriteStep
<1>5. ASSUME NEW t \in Blockers, BlockStep(t) PROVE RecInv'
  <2> t \in Threads /\ t \notin Persisters /\ t \notin Flushers
    BY DEF Threads
  <2>1. ASSUME NEW b \in Blocks, BlockIp(t, b) PROVE RecInv'
    BY <2>1 DEF BlockIp
  <2>2. ASSUME NEW b \in Blocks, UnblockIp(t, b) PROVE RecInv'
    BY <2>2 DEF UnblockIp
  <2>3. CASE MarkBlockedDirty(t)
    BY <2>3 DEF MarkBlockedDirty
  <2>4. QED
    BY <1>5, <2>1, <2>2, <2>3 DEF BlockStep
<1>6. CASE Crash
  BY <1>6, CrashEffect
<1>7. CASE Damage
  BY <1>7, DamageEffect
<1>8. CASE UNCHANGED vars
  BY <1>8 DEF vars
<1>9. QED
  BY <1>1, <1>2, <1>3, <1>4, <1>5, <1>6, <1>7, <1>8 DEF Next

-----------------------------------------------------------------------------
(* The backup *)

\* After one completed persist there is something to roll; from the roll on,
\* and after two completed persists, there is a backup.
BakInv ==
  /\ commits >= 1 => ReadSnapshotOk(sites, meta) \/ bakSites # Absent
  /\ commits = 2 => bakSites # Absent
  /\ \A t \in Persisters :
       pc[t] \in {"rollmeta", "sites", "meta"} /\ commits >= 1 => bakSites # Absent

\* No persist has completed initially.
LEMMA InitBak == Init => BakInv
BY DEF Init, BakInv, Threads

\* The backup is rolled before the primary is touched.
LEMMA NextBak == TypeInv /\ LockInv /\ BakInv /\ [Next]_vars => BakInv'
<1> SUFFICES ASSUME TypeInv, LockInv, BakInv, [Next]_vars PROVE BakInv'
  OBVIOUS
<1> USE ThreadsDisjoint, NobodyAssumption, BoundsAssumption
<1> USE DEF TypeInv, TypeOK, Threads, LockInv, BakInv, Critical, ReadSnapshotOk, Matches, Parses, Versions, Absent, Torn, Tampered, None, process, locals, disk, bounds, history
<1>1. ASSUME NEW made \in BOOLEAN, NewCache(made) PROVE BakInv'
  BY <1>1, NewCacheEffect DEF LoadVersion, LoadSource
<1>2. ASSUME NEW t \in Persisters, PersistStep(t) PROVE BakInv'
  <2> t \in Threads
    BY DEF Threads
  <2>1. CASE Update(t)
    BY <2>1 DEF Update
  <2>2. CASE Shutdown(t)
    BY <2>2 DEF Shutdown
  <2>3. CASE PersistNoDir(t)
    BY <2>3 DEF PersistNoDir
  <2>4. CASE PersistLock(t)
    BY <2>4 DEF PersistLock
  <2>5. CASE RollSkip(t)
    BY <2>5 DEF RollSkip
  <2>6. CASE RollSites(t)
    BY <2>6 DEF RollSites
  <2>7. CASE RollMeta(t)
    BY <2>7 DEF RollMeta
  <2>8. CASE WriteSites(t)
    BY <2>8 DEF WriteSites
  <2>9. CASE WriteMeta(t)
    BY <2>9 DEF WriteMeta
  <2>10. CASE ReadStatus(t)
    BY <2>10 DEF ReadStatus
  <2>11. CASE RecordOutcome(t)
    BY <2>11 DEF RecordOutcome
  <2>12. QED
    BY <1>2, <2>1, <2>2, <2>3, <2>4, <2>5, <2>6, <2>7, <2>8, <2>9, <2>10, <2>11
       DEF PersistStep
<1>3. ASSUME NEW t \in Flushers, FlushStep(t) PROVE BakInv'
  <2> t \in Threads /\ t \notin Persisters
    BY DEF Threads
  <2>1. CASE FlushSwap(t)
    BY <2>1 DEF FlushSwap
  <2>2. CASE FlushLock(t)
    BY <2>2 DEF FlushLock
  <2>3. CASE FlushRedirty(t)
    BY <2>3 DEF FlushRedirty
  <2>4. QED
    BY <1>3, <2>1, <2>2, <2>3 DEF FlushStep
<1>4. ASSUME NEW t \in Persisters \cup Flushers, BlockedWriteStep(t)
      PROVE BakInv'
  <2> t \in Threads
    BY DEF Threads
  <2>1. CASE CollectBlocked(t)
    BY <2>1 DEF CollectBlocked
  <2>2. CASE WriteBlocked(t)
    BY <2>2 DEF WriteBlocked, DropLocals
  <2>3. CASE WriteFails(t)
    BY <2>3 DEF WriteFails, DropLocals
  <2>4. QED
    BY <1>4, <2>1, <2>2, <2>3 DEF BlockedWriteStep
<1>5. ASSUME NEW t \in Blockers, BlockStep(t) PROVE BakInv'
  <2> t \in Threads /\ t \notin Persisters /\ t \notin Flushers
    BY DEF Threads
  <2>1. ASSUME NEW b \in Blocks, BlockIp(t, b) PROVE BakInv'
    BY <2>1 DEF BlockIp
  <2>2. ASSUME NEW b \in Blocks, UnblockIp(t, b) PROVE BakInv'
    BY <2>2 DEF UnblockIp
  <2>3. CASE MarkBlockedDirty(t)
    BY <2>3 DEF MarkBlockedDirty
  <2>4. QED
    BY <1>5, <2>1, <2>2, <2>3 DEF BlockStep
<1>6. CASE Crash
  BY <1>6, CrashEffect
<1>7. CASE Damage
  BY <1>7, DamageEffect
<1>8. CASE UNCHANGED vars
  BY <1>8 DEF vars
<1>9. QED
  BY <1>1, <1>2, <1>3, <1>4, <1>5, <1>6, <1>7, <1>8 DEF Next

-----------------------------------------------------------------------------
(* The rules on disk and in memory *)

\* A persist is under way: it waits for persist_lock, or holds it.
Persisting == {"lock"} \cup Critical

\* What a persist writes is what is in memory, unless another one waits behind
\* it with newer rules: nobody leaves the queue while the lock is held.
KeepInv ==
  /\ \A t \in Persisters :
       pc[t] \in Critical /\ (\A u \in Persisters : pc[u] # "lock") => rules[t] = inner
  /\ \A t \in Persisters :
       pc[t] \in {"entries", "blocked"} => sites = rules[t] /\ meta = rules[t]
  /\ up /\ lastPersist = "ok" /\ (\A t \in Persisters : pc[t] \notin Persisting) =>
       sites = inner /\ meta = inner


\* No persist is under way initially.
LEMMA InitKeep == Init => KeepInv
BY DEF Init, KeepInv, Critical, Persisting, Threads

\* The lock is what keeps memory and disk together: the rules are read under it.
LEMMA NextKeep == TypeInv /\ LockInv /\ KeepInv /\ [Next]_vars => KeepInv'
<1> SUFFICES ASSUME TypeInv, LockInv, KeepInv, [Next]_vars PROVE KeepInv'
  OBVIOUS
<1> USE ThreadsDisjoint, NobodyAssumption, BoundsAssumption
<1> USE DEF TypeInv, TypeOK, Threads, LockInv, KeepInv, Critical, Persisting, process, locals, disk, bounds, history
<1>1. ASSUME NEW made \in BOOLEAN, NewCache(made) PROVE KeepInv'
  BY <1>1, NewCacheEffect DEF NewCache
<1>2. ASSUME NEW t \in Persisters, PersistStep(t) PROVE KeepInv'
  <2> t \in Threads /\ t \notin Flushers /\ t \notin Blockers
    BY DEF Threads
  <2>1. CASE Update(t)
    BY <2>1 DEF Update
  <2>2. CASE Shutdown(t)
    BY <2>2 DEF Shutdown
  <2>3. CASE PersistNoDir(t)
    BY <2>3 DEF PersistNoDir
  <2>4. CASE PersistLock(t)
    BY <2>4 DEF PersistLock
  <2>5. CASE RollSkip(t)
    BY <2>5 DEF RollSkip
  <2>6. CASE RollSites(t)
    BY <2>6 DEF RollSites
  <2>7. CASE RollMeta(t)
    BY <2>7 DEF RollMeta
  <2>8. CASE WriteSites(t)
    BY <2>8 DEF WriteSites
  <2>9. CASE WriteMeta(t)
    BY <2>9 DEF WriteMeta
  <2>10. CASE ReadStatus(t)
    BY <2>10 DEF ReadStatus
  <2>11. CASE RecordOutcome(t)
    BY <2>11 DEF RecordOutcome
  <2>12. QED
    BY <1>2, <2>1, <2>2, <2>3, <2>4, <2>5, <2>6, <2>7, <2>8, <2>9, <2>10, <2>11
       DEF PersistStep
<1>3. ASSUME NEW t \in Flushers, FlushStep(t) PROVE KeepInv'
  <2> t \in Threads /\ t \notin Persisters /\ t \notin Blockers
    BY DEF Threads
  <2>1. CASE FlushSwap(t)
    BY <2>1 DEF FlushSwap
  <2>2. CASE FlushLock(t)
    BY <2>2 DEF FlushLock
  <2>3. CASE FlushRedirty(t)
    BY <2>3 DEF FlushRedirty
  <2>4. QED
    BY <1>3, <2>1, <2>2, <2>3 DEF FlushStep
<1>4. ASSUME NEW t \in Persisters \cup Flushers, BlockedWriteStep(t)
      PROVE KeepInv'
  <2> t \in Threads /\ t \notin Blockers
    BY DEF Threads
  <2>1. CASE CollectBlocked(t)
    BY <2>1 DEF CollectBlocked
  <2>2. CASE WriteBlocked(t)
    BY <2>2 DEF WriteBlocked, DropLocals
  <2>3. CASE WriteFails(t)
    BY <2>3 DEF WriteFails, DropLocals
  <2>4. QED
    BY <1>4, <2>1, <2>2, <2>3 DEF BlockedWriteStep
<1>5. ASSUME NEW t \in Blockers, BlockStep(t) PROVE KeepInv'
  <2> t \in Threads /\ t \notin Persisters /\ t \notin Flushers
    BY DEF Threads
  <2>1. ASSUME NEW b \in Blocks, BlockIp(t, b) PROVE KeepInv'
    BY <2>1 DEF BlockIp
  <2>2. ASSUME NEW b \in Blocks, UnblockIp(t, b) PROVE KeepInv'
    BY <2>2 DEF UnblockIp
  <2>3. CASE MarkBlockedDirty(t)
    BY <2>3 DEF MarkBlockedDirty
  <2>4. QED
    BY <1>5, <2>1, <2>2, <2>3 DEF BlockStep
<1>6. CASE Crash
  BY <1>6, CrashEffect
<1>7. CASE Damage
  BY <1>7, DamageEffect
<1>8. CASE UNCHANGED vars
  BY <1>8 DEF vars
<1>9. QED
  BY <1>1, <1>2, <1>3, <1>4, <1>5, <1>6, <1>7, <1>8 DEF Next

-----------------------------------------------------------------------------
(* The blocks on disk and in memory *)

\* The map has changed, and a flush that has not read it yet will follow.
FlushDue ==
  \/ dirty
  \/ \E t \in Blockers : pc[t] = "mark"
  \/ \E t \in Flushers : pc[t] \in {"lock", "entries", "redirty"}

\* A copy of the map that is out of date will be followed by another flush,
\* whether it is still in a thread's hands or on disk already; what is on disk
\* may also be about to be replaced by a flush.
BlocksInv ==
  /\ ~blockedFile.exists => blockedFile.blocks = {}
  /\ \A t \in Persisters \cup Flushers :
       pc[t] = "blocked" /\ entries[t] # blocked => FlushDue
  /\ up /\ dir /\ blocksBased /\ blockedFile.blocks # blocked =>
       FlushDue \/ \E t \in Flushers : pc[t] = "blocked"


\* Nothing is blocked initially.
LEMMA InitBlocks == Init => BlocksInv
BY DEF Init, BlocksInv, NoFile, Threads

\* The flag is taken down before the map is read, and raised after it is changed.
LEMMA NextBlocks == TypeInv /\ LockInv /\ BlocksInv /\ [Next]_vars => BlocksInv'
<1> SUFFICES ASSUME TypeInv, LockInv, BlocksInv, [Next]_vars PROVE BlocksInv'
  OBVIOUS
<1> USE ThreadsDisjoint, NobodyAssumption, BoundsAssumption
<1> USE DEF TypeInv, TypeOK, Threads, LockInv, BlocksInv, FlushDue, Critical, process, locals, disk, bounds, history
<1>1. ASSUME NEW made \in BOOLEAN, NewCache(made) PROVE BlocksInv'
  BY <1>1 DEF NewCache
<1>2. ASSUME NEW t \in Persisters, PersistStep(t) PROVE BlocksInv'
  <2> t \in Threads /\ t \notin Flushers /\ t \notin Blockers
    BY DEF Threads
  <2>1. CASE Update(t)
    BY <2>1 DEF Update
  <2>2. CASE Shutdown(t)
    BY <2>2 DEF Shutdown
  <2>3. CASE PersistNoDir(t)
    BY <2>3 DEF PersistNoDir
  <2>4. CASE PersistLock(t)
    BY <2>4 DEF PersistLock
  <2>5. CASE RollSkip(t)
    BY <2>5 DEF RollSkip
  <2>6. CASE RollSites(t)
    BY <2>6 DEF RollSites
  <2>7. CASE RollMeta(t)
    BY <2>7 DEF RollMeta
  <2>8. CASE WriteSites(t)
    BY <2>8 DEF WriteSites
  <2>9. CASE WriteMeta(t)
    BY <2>9 DEF WriteMeta
  <2>10. CASE ReadStatus(t)
    BY <2>10 DEF ReadStatus
  <2>11. CASE RecordOutcome(t)
    BY <2>11 DEF RecordOutcome
  <2>12. QED
    BY <1>2, <2>1, <2>2, <2>3, <2>4, <2>5, <2>6, <2>7, <2>8, <2>9, <2>10, <2>11
       DEF PersistStep
<1>3. ASSUME NEW t \in Flushers, FlushStep(t) PROVE BlocksInv'
  <2> t \in Threads /\ t \notin Persisters /\ t \notin Blockers
    BY DEF Threads
  <2>1. CASE FlushSwap(t)
    BY <2>1 DEF FlushSwap
  <2>2. CASE FlushLock(t)
    BY <2>2 DEF FlushLock
  <2>3. CASE FlushRedirty(t)
    BY <2>3 DEF FlushRedirty
  <2>4. QED
    BY <1>3, <2>1, <2>2, <2>3 DEF FlushStep
<1>4. ASSUME NEW t \in Persisters \cup Flushers, BlockedWriteStep(t)
      PROVE BlocksInv'
  <2> t \in Threads /\ t \notin Blockers
    BY DEF Threads
  <2>1. CASE CollectBlocked(t)
    BY <2>1 DEF CollectBlocked
  <2>2. CASE WriteBlocked(t)
    BY <2>2 DEF WriteBlocked, DropLocals, BlockedFile
  <2>3. CASE WriteFails(t)
    BY <2>3 DEF WriteFails, DropLocals
  <2>4. QED
    BY <1>4, <2>1, <2>2, <2>3 DEF BlockedWriteStep
<1>5. ASSUME NEW t \in Blockers, BlockStep(t) PROVE BlocksInv'
  <2> t \in Threads /\ t \notin Persisters /\ t \notin Flushers
    BY DEF Threads
  <2>1. ASSUME NEW b \in Blocks, BlockIp(t, b) PROVE BlocksInv'
    BY <2>1 DEF BlockIp
  <2>2. ASSUME NEW b \in Blocks, UnblockIp(t, b) PROVE BlocksInv'
    BY <2>2 DEF UnblockIp
  <2>3. CASE MarkBlockedDirty(t)
    BY <2>3 DEF MarkBlockedDirty
  <2>4. QED
    BY <1>5, <2>1, <2>2, <2>3 DEF BlockStep
<1>6. CASE Crash
  BY <1>6, CrashEffect
<1>7. CASE Damage
  BY <1>7, DamageEffect
<1>8. CASE UNCHANGED vars
  BY <1>8 DEF vars
<1>9. QED
  BY <1>1, <1>2, <1>3, <1>4, <1>5, <1>6, <1>7, <1>8 DEF Next

-----------------------------------------------------------------------------
(* The health after a failed load *)

\* Nobody has read a good status since the load that failed.
HealthInv ==
  up /\ loadFailed => ~healthy /\ \A t \in Persisters : pc[t] = "record" => ~status[t]
\* No load has failed initially.
LEMMA InitHealth == Init => HealthInv
BY DEF Init, HealthInv

\* A success is recorded over a status that was good before.
LEMMA NextHealth == TypeInv /\ LockInv /\ HealthInv /\ [Next]_vars => HealthInv'
<1> SUFFICES ASSUME TypeInv, LockInv, HealthInv, [Next]_vars PROVE HealthInv'
  OBVIOUS
<1> USE ThreadsDisjoint, NobodyAssumption, BoundsAssumption
<1> USE DEF TypeInv, TypeOK, Threads, LockInv, HealthInv, process, locals, disk, bounds, history
<1>1. ASSUME NEW made \in BOOLEAN, NewCache(made) PROVE HealthInv'
  BY <1>1 DEF NewCache
<1>2. ASSUME NEW t \in Persisters, PersistStep(t) PROVE HealthInv'
  <2> t \in Threads /\ t \notin Flushers /\ t \notin Blockers
    BY DEF Threads
  <2>1. CASE Update(t)
    BY <2>1 DEF Update
  <2>2. CASE Shutdown(t)
    BY <2>2 DEF Shutdown
  <2>3. CASE PersistNoDir(t)
    BY <2>3 DEF PersistNoDir
  <2>4. CASE PersistLock(t)
    BY <2>4 DEF PersistLock
  <2>5. CASE RollSkip(t)
    BY <2>5 DEF RollSkip
  <2>6. CASE RollSites(t)
    BY <2>6 DEF RollSites
  <2>7. CASE RollMeta(t)
    BY <2>7 DEF RollMeta
  <2>8. CASE WriteSites(t)
    BY <2>8 DEF WriteSites
  <2>9. CASE WriteMeta(t)
    BY <2>9 DEF WriteMeta
  <2>10. CASE ReadStatus(t)
    BY <2>10 DEF ReadStatus
  <2>11. CASE RecordOutcome(t)
    BY <2>11 DEF RecordOutcome
  <2>12. QED
    BY <1>2, <2>1, <2>2, <2>3, <2>4, <2>5, <2>6, <2>7, <2>8, <2>9, <2>10, <2>11
       DEF PersistStep
<1>3. ASSUME NEW t \in Flushers, FlushStep(t) PROVE HealthInv'
  <2> t \in Threads /\ t \notin Persisters /\ t \notin Blockers
    BY DEF Threads
  <2>1. CASE FlushSwap(t)
    BY <2>1 DEF FlushSwap
  <2>2. CASE FlushLock(t)
    BY <2>2 DEF FlushLock
  <2>3. CASE FlushRedirty(t)
    BY <2>3 DEF FlushRedirty
  <2>4. QED
    BY <1>3, <2>1, <2>2, <2>3 DEF FlushStep
<1>4. ASSUME NEW t \in Persisters \cup Flushers, BlockedWriteStep(t)
      PROVE HealthInv'
  <2> t \in Threads /\ t \notin Blockers
    BY DEF Threads
  <2>1. CASE CollectBlocked(t)
    BY <2>1 DEF CollectBlocked
  <2>2. CASE WriteBlocked(t)
    BY <2>2 DEF WriteBlocked, DropLocals
  <2>3. CASE WriteFails(t)
    BY <2>3 DEF WriteFails, DropLocals
  <2>4. QED
    BY <1>4, <2>1, <2>2, <2>3 DEF BlockedWriteStep
<1>5. ASSUME NEW t \in Blockers, BlockStep(t) PROVE HealthInv'
  <2> t \in Threads /\ t \notin Persisters /\ t \notin Flushers
    BY DEF Threads
  <2>1. ASSUME NEW b \in Blocks, BlockIp(t, b) PROVE HealthInv'
    BY <2>1 DEF BlockIp
  <2>2. ASSUME NEW b \in Blocks, UnblockIp(t, b) PROVE HealthInv'
    BY <2>2 DEF UnblockIp
  <2>3. CASE MarkBlockedDirty(t)
    BY <2>3 DEF MarkBlockedDirty
  <2>4. QED
    BY <1>5, <2>1, <2>2, <2>3 DEF BlockStep
<1>6. CASE Crash
  BY <1>6, CrashEffect
<1>7. CASE Damage
  BY <1>7, DamageEffect
<1>8. CASE UNCHANGED vars
  BY <1>8 DEF vars
<1>9. QED
  BY <1>1, <1>2, <1>3, <1>4, <1>5, <1>6, <1>7, <1>8 DEF Next

-----------------------------------------------------------------------------
(* Theorems *)

\* The conjunction of the above: inductive, and it implies the properties.
PersistInv ==
  /\ TypeInv /\ LockInv /\ IssuedInv /\ RecInv /\ BakInv
  /\ KeepInv /\ BlocksInv /\ HealthInv

\* The inductive invariant of the persistence paths.
LEMMA PersistInvariant == Spec => []PersistInv
<1>1. Init => PersistInv
  BY InitType, InitLock, InitIssued, InitRec, InitBak, InitKeep, InitBlocks, InitHealth
     DEF PersistInv
<1>2. PersistInv /\ [Next]_vars => PersistInv'
  BY NextType, NextLock, NextIssued, NextRec, NextBak, NextKeep, NextBlocks, NextHealth
     DEF PersistInv
<1>3. QED
  BY <1>1, <1>2, PTL DEF Spec

\* A start at any moment of any execution finds a snapshot at least as new
\* as the last one whose metadata was stamped: persist_to_disk's order (roll,
\* sites, metadata) and load_from_disk's fallback fit together.
THEOREM RestartRecovers == Spec => []Recoverable
<1>1. PersistInv => Recoverable
  BY BoundsAssumption
     DEF PersistInv, TypeInv, TypeOK, RecInv, Recoverable, LoadVersion, LoadSource,
         ReadSnapshotOk, Matches, Parses, Versions, Absent, Torn, Tampered, None
<1>2. QED
  BY <1>1, PersistInvariant, PTL

\* Once two persists have completed, the backup of roll_backup_if_valid
\* parses whatever is later written, damaged or left half done.
THEOREM BackupSurvives == Spec => []BackupStands
<1>1. PersistInv => BackupStands
  BY DEF PersistInv, TypeInv, TypeOK, BakInv, BackupStands, Parses, Versions,
         Absent, Torn
<1>2. QED
  BY <1>1, PersistInvariant, PTL

\* With no persist under way and the last one successful, a restart loads the
\* rules in memory, however many syncs and shutdowns raced for persist_lock.
THEOREM RestartLoadsMemory == Spec => []RestartKeepsRules
<1>1. PersistInv => RestartKeepsRules
  BY BoundsAssumption
     DEF PersistInv, TypeInv, TypeOK, LockInv, KeepInv, RestartKeepsRules, NoPersistInFlight,
         Persisting, Critical, LoadVersion, LoadSource, ReadSnapshotOk, Matches, Parses,
         Versions, Absent, Torn, Tampered
<1>2. QED
  BY <1>1, PersistInvariant, PTL

\* With blocked_dirty down and nothing in flight, blocked_ips.json has exactly
\* the blocks in force: no mutation can slip between the flag and the map.
THEOREM FlushCatchesUp == Spec => []CleanMeansFlushed
<1>1. PersistInv => CleanMeansFlushed
  BY DEF PersistInv, BlocksInv, FlushDue, CleanMeansFlushed, BlocksSettled
<1>2. QED
  BY <1>1, PersistInvariant, PTL

\* An agent that came up on empty rules reports it until its next start,
\* whatever persists succeed in between.
THEOREM FailedLoadReported == Spec => []LoadFailureSticky
<1>1. PersistInv => LoadFailureSticky
  BY DEF PersistInv, HealthInv, LoadFailureSticky
<1>2. QED
  BY <1>1, PersistInvariant, PTL
=============================================================================
