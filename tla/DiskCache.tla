------------------------------ MODULE DiskCache ------------------------------
(* The file cache of one backend directory (pingap-cache/src/file.rs) and    *)
(* the quota ledger beside it (pingap-cache/src/quota.rs), seen by one       *)
(* domain.                                                                   *)
(*                                                                           *)
(* Objects live in files, some of them also in an in-memory hot layer, and   *)
(* are counted twice: in the backend's own budget and in the ledger of their *)
(* domain.  Requests, the purges, the inactive sweep and the eviction tasks  *)
(* run concurrently, and nothing but two flags keeps them apart: a step ends *)
(* at an await, and between two accesses of what the threads share.          *)
EXTENDS Integers, FiniteSets, FiniteSetsExt, Functions

CONSTANTS Threads, Keys,
          Size,         \* bytes of each object that is put, 1, 2, ...
          Large,        \* those that are too large for the hot layer
          Quota,        \* max_bytes of the domain; 0: unlimited
          Budget,       \* max_size of the backend; 0: unlimited
          WritingMax,   \* writing_max; 0: unlimited
          Levels,       \* the backend shards its files into directories
          Ops,          \* the operations that are called
          MaxOp,        \* bound: operations called
          MaxRestart,   \* bound: restarts
          Faulty        \* writing, reading and removing a file may fail

Objects == DOMAIN Size

ASSUME CacheAssumption ==
  /\ IsFiniteSet(Threads) /\ IsFiniteSet(Keys) /\ IsFiniteSet(Objects) /\ Objects # {}
  /\ \A v \in Objects : v \in Nat \ {0} /\ Size[v] \in Nat \ {0}
  /\ Quota \in Nat /\ Budget \in Nat /\ WritingMax \in Nat
  /\ MaxOp \in Nat /\ MaxRestart \in Nat
  /\ Levels \in BOOLEAN /\ Faulty \in BOOLEAN

None == 0
Bytes(v) == IF v = None THEN 0 ELSE Size[v]

VARIABLES
  file,        \* the object in the file of each key, or None
  stray,       \* temporary files without a writer: a number, and the object
  hot,         \* FileCache.cache: the object each key has in memory, or None
  total,       \* FileCache.current_size
  making,      \* FileCache.evicting: some put is making room
  entries,     \* DomainUsage.entries: the object each key is counted for
  located,     \* the entries that came from a scan, with their path
  bytes,       \* DomainUsage.current_bytes
  count,       \* DomainUsage.item_count; below 0: it has wrapped
  evicting,    \* DomainUsage.evicting
  spawned,     \* evict_to_fit tasks that have not started
  pc, reg,     \* of the threads
  puts, ops, restarts,
  \* history
  overlapped,  \* two operations have run at once
  failed,      \* a file could not be written or removed, or was corrupt
  cut,         \* a reset of the ledger has overlapped an update
  netted,      \* a put has made room with the file that it replaces
  swept,       \* clear has removed a temporary file
  stored,      \* objects whose put has ended
  purged       \* objects stored before a purge that has ended

disk == <<file, stray, hot, total, making>>
ledger == <<entries, located, bytes, count, evicting>>
calls == <<puts, ops, restarts>>
marks == <<failed, stored, purged>>
rest == <<spawned, calls, marks>>
vars == <<disk, ledger, rest, pc, reg, overlapped, cut, netted, swept>>

\* What a thread remembers: what it does, the object it writes, the number of
\* its temporary file (TMP_FILE_SEQ) and the object it replaces, the key and the
\* size it is removing, the object it has replaced in or taken out of the entry
\* map, the files and the temporary files it has listed, and, for a purge, what
\* was stored when it began.
Register == [op |-> "none", key |-> None, obj |-> None, seq |-> 0, old |-> None,
             victim |-> None, len |-> 0, prev |-> None, todo |-> {}, temps |-> {},
             before |-> {}]

OnDisk == {k \in Keys : file[k] # None}
Counted == {k \in Keys : entries[k] # None}
Total(m) == SumFunction([k \in Keys |-> Bytes(m[k])])
Litter(S) == SumFunction([x \in S |-> Bytes(x[2])])

Init ==
  /\ file = [k \in Keys |-> None] /\ stray = {} /\ hot = file
  /\ total = 0 /\ making = FALSE
  /\ entries = file /\ located = {} /\ bytes = 0 /\ count = 0
  /\ evicting = FALSE /\ spawned = 0
  /\ pc = [t \in Threads |-> "idle"] /\ reg = [t \in Threads |-> Register]
  /\ puts = 0 /\ ops = 0 /\ restarts = 0
  /\ overlapped = FALSE /\ failed = FALSE /\ cut = FALSE
  /\ netted = FALSE /\ swept = FALSE /\ stored = {} /\ purged = {}

At(t, l) == pc[t] = l
Goto(t, l) == pc' = [pc EXCEPT ![t] = l]
Stay == UNCHANGED reg

\* Mutant: a plain subtraction.
LessWraps(a, b) == a - b

\* saturating_sub.
Less(a, b) == IF a >= b THEN a - b ELSE 0

Called(op) == op \in Ops /\ ops < MaxOp /\ ops' = ops + 1

\* An operation begins, with registers r.
Call(t, op, l, r) ==
  /\ At(t, "idle") /\ Called(op)
  /\ Goto(t, l) /\ reg' = [reg EXCEPT ![t] = r]

\* The thread leaves the operation.
End(t) == Goto(t, "idle") /\ reg' = [reg EXCEPT ![t] = Register]

-----------------------------------------------------------------------------
(* put *)

\* put_hot.
PutHot(k, v) == hot' = IF v \in Large THEN hot ELSE [hot EXCEPT ![k] = v]

Writing == {t \in Threads : reg[t].op = "put"}

\* The hot layer first; over writing_max that is all.
BeginPut(t, k, v, n) ==
  /\ PutHot(k, v)
  /\ IF WritingMax > 0 /\ Cardinality(Writing) >= WritingMax
     THEN End(t) /\ stored' = stored \cup {v}
     ELSE /\ Goto(t, "space")
          /\ reg' = [reg EXCEPT ![t] =
                        [Register EXCEPT !.op = "put", !.key = k, !.obj = v, !.seq = n]]
          /\ UNCHANGED stored

Put(t, k) ==
  /\ At(t, "idle") /\ Called("put")
  /\ puts + 1 \in Objects /\ puts' = puts + 1
  /\ BeginPut(t, k, puts', ops')
  /\ UNCHANGED <<file, stray, total, making, ledger, spawned, restarts, failed, purged>>

\* update_meta: get, which may have to read the file...
UpdateMeta(t, k) ==
  LET v == IF hot[k] # None THEN hot[k] ELSE file[k] IN
  /\ v # None
  /\ Call(t, "meta", IF hot[k] # None THEN "revalidated" ELSE "read",
          [Register EXCEPT !.op = "meta", !.key = k, !.obj = v, !.seq = ops'])
  /\ UNCHANGED <<disk, ledger, spawned, puts, restarts, marks>>

\* ...and what it returned is put back.
Revalidated(t) ==
  /\ At(t, "revalidated")
  /\ BeginPut(t, reg[t].key, reg[t].obj, reg[t].seq)
  /\ UNCHANGED <<file, stray, total, making, ledger, spawned, calls, failed, purged>>

Need(t) == Less(Bytes(reg[t].obj), Bytes(reg[t].old))
OverBudget(n) == total + n > Budget

\* tracked_len, and ensure_disk_space up to its walk: an object larger than the
\* budget is not written, and a put that meets another one making room goes
\* ahead.
Space(t) ==
  LET r == reg[t]
      old == file[r.key]
      need == Less(Bytes(r.obj), Bytes(old))
      walk == Budget > 0 /\ need <= Budget /\ OverBudget(need) /\ ~making
  IN /\ At(t, "space")
     /\ IF Budget > 0 /\ need > Budget
        THEN End(t) /\ stored' = stored \cup {r.obj}
        ELSE /\ Goto(t, IF walk THEN "walk" ELSE "write")
             /\ reg' = [reg EXCEPT ![t].old = old] /\ UNCHANGED stored
     /\ making' = (making \/ walk)
     /\ UNCHANGED <<file, stray, hot, total, ledger, spawned, calls, failed, purged>>

\* What thread t has in its temporary file.
Temporary(t) == <<reg[t].seq, reg[t].obj>>

\* fs::write, to the temporary file; or an error, which leaves what there is.
Write(t) ==
  /\ At(t, "write")
  /\ \/ Goto(t, "rename") /\ Stay /\ UNCHANGED <<stray, failed>>
     \/ /\ Faulty /\ failed' = TRUE /\ End(t)
        /\ stray' \in {stray, stray \cup {Temporary(t)}}
  /\ UNCHANGED <<file, hot, total, making, ledger, spawned, calls, stored, purged>>

\* fs::rename; or an error, and the temporary file is removed if it can be.
Rename(t) ==
  LET r == reg[t] IN
  /\ At(t, "rename")
  /\ \/ file' = [file EXCEPT ![r.key] = r.obj] /\ Goto(t, "track") /\ Stay
        /\ UNCHANGED <<stray, failed>>
     \/ /\ Faulty /\ failed' = TRUE /\ End(t) /\ UNCHANGED file
        /\ stray' \in {stray, stray \cup {Temporary(t)}}
  /\ UNCHANGED <<hot, total, making, ledger, spawned, calls, stored, purged>>

\* track_written.
Track(t) ==
  LET r == reg[t] IN
  /\ At(t, "track") /\ Goto(t, "insert") /\ Stay
  /\ total' = Less(total, Bytes(r.old)) + Bytes(r.obj)
  /\ UNCHANGED <<file, stray, hot, making, ledger, rest>>

\* record_write: the map...
Insert(t) ==
  LET r == reg[t] IN
  /\ At(t, "insert")
  /\ Goto(t, IF entries[r.key] = None THEN "add" ELSE "sub")
  /\ reg' = [reg EXCEPT ![t].prev = entries[r.key]]
  /\ entries' = [entries EXCEPT ![r.key] = r.obj]
  /\ located' = located \ {r.key}
  /\ UNCHANGED <<disk, bytes, count, evicting, rest>>

\* Mutant: a replaced object is counted twice.
SubNothing(t) ==
  /\ At(t, "sub") /\ Goto(t, "add") /\ Stay
  /\ UNCHANGED <<disk, ledger, rest>>

\* ...sub_bytes, if an entry was replaced...
Sub(t) ==
  /\ At(t, "sub") /\ Goto(t, "add") /\ Stay
  /\ bytes' = Less(bytes, Bytes(reg[t].prev))
  /\ UNCHANGED <<disk, entries, located, count, evicting, rest>>

\* ...add_bytes...
Add(t) ==
  /\ At(t, "add") /\ Stay
  /\ Goto(t, IF reg[t].prev = None THEN "inc" ELSE "check")
  /\ bytes' = bytes + Bytes(reg[t].obj)
  /\ UNCHANGED <<disk, entries, located, count, evicting, rest>>

\* ...item_count, if none was...
Inc(t) ==
  /\ At(t, "inc") /\ Goto(t, "check") /\ Stay
  /\ count' = count + 1
  /\ UNCHANGED <<disk, entries, located, bytes, evicting, rest>>

OverQuota == Quota > 0 /\ bytes > Quota

\* ...and an eviction is spawned if the domain is over its quota.
Check(t) ==
  /\ At(t, "check") /\ End(t)
  /\ stored' = stored \cup {reg[t].obj}
  /\ spawned' = IF OverQuota THEN spawned + 1 ELSE spawned
  /\ UNCHANGED <<disk, ledger, puts, ops, restarts, failed, purged>>

-----------------------------------------------------------------------------
(* get *)

\* read_entry: the hot layer answers, or the file is read, if there is one.
Get(t, k) ==
  /\ hot[k] = None /\ file[k] # None
  /\ Call(t, "get", "read", [Register EXCEPT !.op = "get", !.key = k, !.obj = file[k]])
  /\ UNCHANGED <<disk, ledger, spawned, puts, restarts, marks>>

Read(t) ==
  /\ At(t, "read") /\ PutHot(reg[t].key, reg[t].obj)
  /\ IF reg[t].op = "meta" THEN Goto(t, "revalidated") /\ Stay ELSE End(t)
  /\ UNCHANGED <<file, stray, total, making, ledger, rest>>

\* discard_corrupt: the file makes no sense, is removed, and is a miss.
Corrupt(t) ==
  LET k == reg[t].key IN
  /\ At(t, "read") /\ Faulty /\ failed' = TRUE /\ Goto(t, "unlink")
  /\ reg' = [reg EXCEPT ![t] =
       [Register EXCEPT !.op = "discard", !.victim = k, !.len = Bytes(file[k])]]
  /\ UNCHANGED <<disk, ledger, spawned, calls, stored, purged>>

\* TinyUFO drops an object for another.
HotDrops(k) ==
  /\ hot[k] # None /\ hot' = [hot EXCEPT ![k] = None]
  /\ UNCHANGED <<file, stray, total, making, ledger, spawned, pc, reg, calls, marks>>

-----------------------------------------------------------------------------
(* Removals: what the operations have in common is a list of files, each of  *)
(* which is removed and then taken out of whatever counts it.               *)

\* The operations that tell the backend's budget, and the ledger, of a file.
Untracks == {"put", "sweep", "remove", "namespace", "discard"}
Unmaps == {"put", "sweep", "remove", "evict", "urls"}

\* remove: from the hot layer, and the length of the file.
Remove(t, k) ==
  /\ Call(t, "remove", "unlink",
          [Register EXCEPT !.op = "remove", !.victim = k, !.len = Bytes(file[k])])
  /\ hot' = [hot EXCEPT ![k] = None]
  /\ UNCHANGED <<file, stray, total, making, ledger, spawned, puts, restarts, marks>>

\* purge_urls, one key: the entry, if there is one, says how large it is.
PurgeUrls(t, k) ==
  /\ Call(t, "urls", "unlink",
          [Register EXCEPT !.op = "urls", !.victim = k, !.len = Bytes(entries[k])])
  /\ UNCHANGED <<disk, ledger, spawned, puts, restarts, marks>>

\* The operations that begin with a walk of the directory: clear, of files that
\* have not been used for a while - temporary files among them, if their writer
\* is gone - and purge_namespace and purge_domain, which skip temporary files.
Walks(t, op, keys, temps) ==
  /\ Call(t, op, "loop",
          [Register EXCEPT !.op = op, !.todo = {<<k, Bytes(file[k])>> : k \in keys},
                           !.temps = temps,
                           !.before = IF op = "sweep" THEN {} ELSE stored])
  /\ UNCHANGED <<disk, ledger, spawned, puts, restarts, marks>>
Clear(t) ==
  \E keys \in SUBSET OnDisk, temps \in SUBSET stray :
    keys \cup temps # {} /\ Walks(t, "sweep", keys, temps)
PurgeNamespace(t) == Walks(t, "namespace", OnDisk, {})
PurgeDomain(t) == Walks(t, "domain", OnDisk, {})

\* ensure_disk_space's walk.
Walk(t) ==
  /\ At(t, "walk") /\ Goto(t, "loop")
  /\ reg' = [reg EXCEPT ![t].todo = {<<k, Bytes(file[k])>> : k \in OnDisk}]
  /\ UNCHANGED <<disk, ledger, rest>>

\* Mutant: nobody else's pass is looked for.
EvictToFitAnyway(t) ==
  /\ At(t, "idle") /\ spawned > 0 /\ spawned' = spawned - 1
  /\ IF ~OverQuota THEN UNCHANGED <<evicting, pc, reg>>
     ELSE /\ evicting' = TRUE /\ Goto(t, "candidates")
          /\ reg' = [reg EXCEPT ![t].op = "evict"]
  /\ UNCHANGED <<disk, entries, located, bytes, count, calls, marks>>

\* evict_to_fit: one pass at a time.
EvictToFit(t) ==
  /\ At(t, "idle") /\ spawned > 0 /\ spawned' = spawned - 1
  /\ IF ~OverQuota \/ evicting THEN UNCHANGED <<evicting, pc, reg>>
     ELSE /\ evicting' = TRUE /\ Goto(t, "candidates")
          /\ reg' = [reg EXCEPT ![t].op = "evict"]
  /\ UNCHANGED <<disk, entries, located, bytes, count, calls, marks>>

\* get_eviction_candidates: the shortest prefix, in the order of access, that
\* frees enough; the order may be any.
Covers(keys) == SumFunction([k \in keys |-> Bytes(entries[k])]) >= bytes - Quota
Candidates(t) ==
  /\ At(t, "candidates") /\ Goto(t, "loop")
  /\ \E keys \in SUBSET Counted :
       /\ IF OverQuota THEN /\ Covers(keys) \/ keys = Counted
                            /\ keys # {} => \E k \in keys : ~Covers(keys \ {k})
          ELSE keys = {}
       /\ reg' = [reg EXCEPT ![t].todo = {<<k, 0>> : k \in keys}]
  /\ UNCHANGED <<disk, ledger, rest>>

\* The loop stops early once there is room.
Enough(t) ==
  \/ reg[t].todo = {} /\ reg[t].temps = {}
  \/ reg[t].op = "evict" /\ ~OverQuota
  \/ reg[t].op = "put" /\ ~OverBudget(Need(t))

\* The next file; evict_pass reads the entry's size now.
Pick(t) ==
  /\ At(t, "loop") /\ ~Enough(t) /\ Goto(t, "unlink")
  /\ \E x \in reg[t].todo :
       reg' = [reg EXCEPT ![t].todo = @ \ {x}, ![t].victim = x[1],
                 ![t].len = IF reg[t].op = "evict" THEN Bytes(entries[x[1]]) ELSE x[2]]
  /\ UNCHANGED <<disk, ledger, rest>>

\* Where the ledger looks for a file: below its domain, unless a scan has found
\* it elsewhere.
Found(t) ==
  LET k == reg[t].victim IN
  /\ file[k] # None
  /\ Levels /\ reg[t].op \in {"evict", "urls"} => k \in located

\* remove_file: done, not found, or an error.  Not found is as good as done to
\* evict_pass, purge_urls and ensure_disk_space, and remove goes on to the
\* ledger; the walks just go on.
Unlink(t) ==
  LET r == reg[t] IN
  /\ At(t, "unlink") /\ Stay
  /\ \/ /\ Found(t) /\ file' = [file EXCEPT ![r.victim] = None]
        /\ Goto(t, IF r.op \in Untracks THEN "untrack"
                   ELSE IF r.op \in Unmaps THEN "unmap" ELSE "loop")
        /\ UNCHANGED failed
     \/ /\ ~Found(t)
        /\ Goto(t, IF r.op = "put" THEN "untrack"
                   ELSE IF r.op \in {"evict", "urls", "remove"} THEN "unmap" ELSE "loop")
        /\ UNCHANGED <<file, failed>>
     \/ /\ Faulty /\ Found(t) /\ failed' = TRUE
        /\ Goto(t, "loop") /\ UNCHANGED file
  /\ UNCHANGED <<stray, hot, total, making, ledger, spawned, calls, stored, purged>>

\* track_removed.
Untrack(t) ==
  /\ At(t, "untrack") /\ Stay
  /\ Goto(t, IF reg[t].op = "namespace" THEN "unheat"
             ELSE IF reg[t].op = "discard" THEN "loop" ELSE "unmap")
  /\ total' = Less(total, reg[t].len)
  /\ UNCHANGED <<file, stray, hot, making, ledger, rest>>

\* remove_hot.
Unheat(t) ==
  /\ At(t, "unheat") /\ Goto(t, "loop") /\ Stay
  /\ hot' = [hot EXCEPT ![reg[t].victim] = None]
  /\ UNCHANGED <<file, stray, total, making, ledger, rest>>

\* record_remove: the map...
Unmap(t) ==
  LET k == reg[t].victim IN
  /\ At(t, "unmap") /\ Goto(t, "free")
  /\ reg' = [reg EXCEPT ![t].prev = entries[k],
               ![t].len = IF entries[k] # None THEN Bytes(entries[k])
                          ELSE IF reg[t].op = "remove" THEN 0 ELSE @]
  /\ entries' = [entries EXCEPT ![k] = None] /\ located' = located \ {k}
  /\ UNCHANGED <<disk, bytes, count, evicting, rest>>

\* Mutant: the count follows the file, not the entry.
FreeThenDec(t) ==
  /\ At(t, "free") /\ Stay /\ Goto(t, "dec")
  /\ bytes' = Less(bytes, reg[t].len)
  /\ UNCHANGED <<disk, entries, located, count, evicting, rest>>

\* ...sub_bytes, of the entry's size or else the caller's...
Free(t) ==
  /\ At(t, "free") /\ Stay
  /\ Goto(t, IF reg[t].prev # None THEN "dec" ELSE "loop")
  /\ bytes' = Less(bytes, reg[t].len)
  /\ UNCHANGED <<disk, entries, located, count, evicting, rest>>

\* ...and item_count.
Dec(t) ==
  /\ At(t, "dec") /\ Goto(t, "loop") /\ Stay
  /\ count' = count - 1
  /\ UNCHANGED <<disk, entries, located, bytes, evicting, rest>>

\* The same of a temporary file that clear has listed: remove_file...
UnlinkTemporary(t) ==
  /\ At(t, "loop") /\ reg[t].op = "sweep"
  /\ \E x \in reg[t].temps :
       /\ reg' = [reg EXCEPT ![t].temps = @ \ {x}, ![t].len = Bytes(x[2])]
       /\ \/ /\ x \in stray /\ stray' = stray \ {x} /\ Goto(t, "untracktemp")
             /\ UNCHANGED failed
          \/ x \notin stray /\ UNCHANGED <<pc, stray, failed>>
          \/ Faulty /\ x \in stray /\ failed' = TRUE /\ UNCHANGED <<pc, stray>>
  /\ UNCHANGED <<file, hot, total, making, ledger, spawned, calls, stored, purged>>

\* ...track_removed...
UntrackTemporary(t) ==
  /\ At(t, "untracktemp") /\ Goto(t, "freetemp") /\ Stay
  /\ total' = Less(total, reg[t].len)
  /\ UNCHANGED <<file, stray, hot, making, ledger, rest>>

\* ...and record_remove: there is no entry of that name, and its bytes are taken
\* off all the same.
FreeTemporary(t) ==
  /\ At(t, "freetemp") /\ Goto(t, "loop") /\ Stay
  /\ bytes' = Less(bytes, reg[t].len)
  /\ UNCHANGED <<disk, entries, located, count, evicting, rest>>

\* The loop is over: the flags are released, a put writes, and a purge goes on
\* to reset the ledger.
Finish(t) ==
  LET r == reg[t] IN
  /\ At(t, "loop") /\ Enough(t)
  /\ IF r.op = "put" THEN Goto(t, "write") /\ Stay
     ELSE IF r.op \in {"namespace", "domain"} THEN Goto(t, "clear") /\ Stay
     ELSE End(t)
  /\ making' = (making /\ r.op # "put") /\ evicting' = (evicting /\ r.op # "evict")
  /\ UNCHANGED <<file, stray, hot, total, entries, located, bytes, count, rest>>

\* reset_domain, and the end of purge_domain: the map, the bytes, the count.
ClearEntries(t) ==
  /\ At(t, "clear") /\ Goto(t, "zerobytes") /\ Stay
  /\ entries' = [k \in Keys |-> None] /\ located' = {}
  /\ UNCHANGED <<disk, bytes, count, evicting, rest>>
ZeroBytes(t) ==
  /\ At(t, "zerobytes") /\ Goto(t, "zerocount") /\ Stay
  /\ bytes' = 0
  /\ UNCHANGED <<disk, entries, located, count, evicting, rest>>
ZeroCount(t) ==
  /\ At(t, "zerocount") /\ End(t)
  /\ count' = 0 /\ purged' = purged \cup reg[t].before
  /\ UNCHANGED <<disk, entries, located, bytes, evicting, spawned, calls, failed, stored>>

-----------------------------------------------------------------------------
\* The process ends, its writers leave their temporary files, and starts anew:
\* new measures the directory, load_sync rebuilds the ledger from it and skips
\* what is temporary.
Restart ==
  /\ restarts < MaxRestart /\ restarts' = restarts + 1
  /\ stray' = stray \cup {Temporary(t) : t \in {u \in Threads : At(u, "rename")}}
  /\ hot' = [k \in Keys |-> None] /\ total' = Total(file) + Litter(stray')
  /\ making' = FALSE
  /\ entries' = file /\ located' = OnDisk
  /\ bytes' = Total(file) /\ count' = Cardinality(OnDisk)
  /\ evicting' = FALSE /\ spawned' = 0
  /\ pc' = [t \in Threads |-> "idle"] /\ reg' = [t \in Threads |-> Register]
  /\ UNCHANGED <<file, puts, ops, failed, stored, purged>>

ThreadStep(t) ==
  \/ Space(t) \/ Write(t) \/ Rename(t) \/ Track(t) \/ Insert(t) \/ Sub(t) \/ Add(t)
  \/ Inc(t) \/ Check(t) \/ Revalidated(t) \/ Read(t) \/ Corrupt(t)
  \/ Walk(t) \/ Candidates(t) \/ Pick(t) \/ Unlink(t) \/ Untrack(t) \/ Unheat(t)
  \/ Unmap(t) \/ Free(t) \/ Dec(t) \/ Finish(t)
  \/ UnlinkTemporary(t) \/ UntrackTemporary(t) \/ FreeTemporary(t)
  \/ ClearEntries(t) \/ ZeroBytes(t) \/ ZeroCount(t)

Operation(t) ==
  \/ \E k \in Keys : Put(t, k) \/ UpdateMeta(t, k) \/ Get(t, k)
                      \/ Remove(t, k) \/ PurgeUrls(t, k)
  \/ Clear(t) \/ PurgeNamespace(t) \/ PurgeDomain(t)

\* Threads in the middle of an update of the ledger, or of its reset.
Updating == {t \in Threads : pc[t] \in {"sub", "add", "inc", "free", "dec"}}
Resetting == {t \in Threads : pc[t] \in {"zerobytes", "zerocount"}}
Quiet == \A t \in Threads : At(t, "idle")

\* Puts that have made room with the file they replace, whose length they take
\* off the budget twice.
OwnEvicted ==
  {t \in Threads : /\ At(t, "unlink") /\ reg[t].op = "put" /\ reg[t].victim = reg[t].key
                   /\ file'[reg[t].key] # file[reg[t].key]}

Step ==
  \/ \E t \in Threads : Operation(t) \/ EvictToFit(t) \/ ThreadStep(t)
  \/ \E k \in Keys : HotDrops(k)
  \/ Restart

Next ==
  /\ Step
  /\ overlapped' = (overlapped \/ Cardinality({t \in Threads : pc'[t] # "idle"}) > 1)
  /\ cut' = IF restarts' # restarts THEN FALSE
            ELSE cut \/ (Resetting' # {} /\ Updating' # {})
  /\ netted' = IF restarts' # restarts THEN FALSE ELSE netted \/ OwnEvicted # {}
  /\ swept' = IF restarts' # restarts THEN FALSE ELSE swept \/ ~(stray \subseteq stray')

Spec == Init /\ [][Next]_vars

-----------------------------------------------------------------------------
Labels == {"idle", "space", "walk", "write", "rename", "track", "insert", "sub", "add",
           "inc", "check", "revalidated", "read", "candidates", "loop", "unlink", "untrack",
           "unheat", "unmap", "free", "dec", "untracktemp", "freetemp",
           "clear", "zerobytes", "zerocount"}

\* Types; and "must never wrap": the two byte counts stay between nothing and
\* all that was ever written, whatever is removed twice or behind their back.
NeverWraps ==
  /\ {file, hot, entries} \subseteq [Keys -> Objects \cup {None}]
  /\ pc \in [Threads -> Labels] /\ located \subseteq Counted
  /\ stray \subseteq Nat \X Objects
  /\ count \in Int /\ spawned \in Nat /\ {making, evicting} \subseteq BOOLEAN
  /\ {total, bytes} \subseteq 0..MaxOp * Max({Size[v] : v \in Objects})

\* "only one task per domain runs it at a time", and "the evicting flag is
\* always released": of evict_to_fit and of ensure_disk_space.
OneEvictor ==
  /\ evicting = \E t \in Threads : reg[t].op = "evict"
  /\ Cardinality({t \in Threads : reg[t].op = "evict"}) <= 1
  /\ Cardinality({t \in Threads : reg[t].op = "put" /\ pc[t] \in
                    {"walk", "loop", "unlink", "untrack", "unmap", "free", "dec"}})
       = IF making THEN 1 ELSE 0

\* record_write and record_remove: however puts, removals, sweeps and evictions
\* of the same keys interleave, item_count is the number of entries, up to the
\* updates that are under way; only a reset that overlaps one of them upsets it.
CountExact ==
  ~cut /\ Resetting = {} =>
    count + Cardinality({t \in Threads : pc[t] \in {"add", "inc"} /\ reg[t].prev = None})
      = Cardinality(Counted)
        + Cardinality({t \in Threads : pc[t] \in {"free", "dec"} /\ reg[t].prev # None})

\* The ledger and the budget after any sequence of operations that neither
\* overlap nor fail, a crash in the middle of any of them included, unless the
\* files are in directories of their own or clear has come to a temporary file
\* (see LedgerExact): every file is counted, once and as it is; the budget
\* misses nothing that is on disk, unless a put made room with the file it
\* replaces; and - unless a restart has lost them - the domain is within its
\* quota as soon as the evictions asked for have run.
SerialLedgerExact ==
  Quiet /\ ~overlapped /\ ~failed /\ ~Levels /\ ~swept =>
    /\ entries = file /\ bytes = Total(file) /\ count = Cardinality(OnDisk)
    /\ ~netted => total >= Total(file)
    /\ spawned = 0 /\ restarts = 0 => ~OverQuota

\* docs/cache.md: PURGE /* "empties everything this plugin cached".  (Violated:
\* what only the hot layer holds is not found on disk, purge_domain does not
\* look at the hot layer, and a read or a revalidation that began before puts
\* the object back.)
PurgedNotServed == \A k \in Keys : {hot[k], file[k]} \cap purged = {}

\* evict_to_fit: who loses the race leaves it to the winner, which "is about to
\* bring the domain back under the ceiling anyway".  (Violated: the winner has
\* chosen its candidates before.)
QuotaHolds == Quiet /\ spawned = 0 /\ ~failed => ~OverQuota

\* The ledger is what the domain has on disk.  (Violated by a put between
\* remove_file and record_remove; by two removals of one file; by clear alone,
\* which takes the bytes of a temporary file that a crash has left off a ledger
\* whose scan has skipped it; and, with levels, by every eviction, which looks
\* in the wrong directory.)
LedgerExact == Quiet /\ ~failed => entries = file /\ bytes = Total(file)

\* track_written: the budget is honest.  (Violated: what the ledger's own
\* evictions and purges remove is never taken off current_size; and a put that
\* makes room may remove the file it is about to replace, whose length, read
\* before, track_written takes off a second time.)
BudgetExact == Quiet /\ ~overlapped /\ ~failed => total = Total(file)

\* put: a reader sees the old object or the new one, and the new one once it
\* has been put.  (Violated: an object too large for the hot layer leaves its
\* predecessor there, and the hot layer answers first.)
NewestServed ==
  Quiet /\ ~overlapped => \A k \in Keys : hot[k] # None => file[k] \in {None, hot[k]}
=============================================================================
