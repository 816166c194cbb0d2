--------------------------- MODULE DiskCacheProofs ---------------------------
(* The flags, the counts and the ledger of the disk cache, for any number of *)
(* threads and keys and whatever is called.                                  *)
EXTENDS DiskCache, SumTheorems, TLAPS

OpNames == {"none", "put", "meta", "get", "remove", "urls", "sweep", "namespace",
            "domain", "evict", "discard"}
Removers == {"put", "sweep", "remove", "evict", "urls", "namespace", "domain", "discard"}
Maybe == Objects \cup {None}
Reg == [op : OpNames, key : Keys \cup {None}, obj : Maybe, seq : Nat, old : Maybe,
        victim : Keys \cup {None}, len : Nat, prev : Maybe,
        todo : SUBSET (Keys \X Nat), temps : SUBSET (Nat \X Objects),
        before : SUBSET Maybe]

TypeInv ==
  /\ pc \in [Threads -> Labels] /\ reg \in [Threads -> Reg]
  /\ file \in [Keys -> Maybe] /\ hot \in [Keys -> Maybe] /\ entries \in [Keys -> Maybe]
  /\ stray \in SUBSET (Nat \X Objects) /\ ops \in Nat
  /\ stored \subseteq Maybe /\ count \in Int /\ restarts \in Nat

\* What a thread's registers hold at label l.
Fits(l, r) ==
  /\ l = "idle" => r.op = "none"
  /\ l \in {"space", "walk", "write", "rename", "track", "insert", "sub", "add", "inc",
            "check"} => r.op = "put"
  /\ l = "revalidated" => r.op = "meta"
  /\ l = "read" => r.op \in {"get", "meta"}
  /\ l = "candidates" => r.op = "evict"
  /\ l \in {"loop", "unlink", "untrack", "unmap", "free", "dec"} => r.op \in Removers
  /\ l = "unheat" => r.op = "namespace"
  /\ l \in {"untracktemp", "freetemp"} => r.op = "sweep"
  /\ l \in {"clear", "zerobytes", "zerocount"} => r.op \in {"namespace", "domain"}
  /\ l \in {"unlink", "untrack", "unheat", "unmap", "free", "dec"} => r.victim \in Keys
  /\ l = "inc" => r.prev = None
  /\ l \in {"sub", "dec"} => r.prev # None
  /\ r.op \in {"put", "meta", "get"} => r.key \in Keys /\ r.obj \in Objects

ShapeInv == TypeInv /\ \A t \in Threads : Fits(pc[t], reg[t])

\* Thread t has gone on to label l with registers r, and nobody else has.
Moved(t, l, r) ==
  /\ l \in Labels /\ r \in Reg /\ Fits(l, r)
  /\ pc' = [pc EXCEPT ![t] = l] /\ reg' = [reg EXCEPT ![t] = r]

\* Objects are not None, and have a size.
LEMMA ObjectFacts ==
  /\ None \notin Objects
  /\ \A v \in Maybe : Bytes(v) \in Nat
BY CacheAssumption DEF None, Maybe, Bytes

\* The registers of an idle thread.
LEMMA RegisterFacts ==
  /\ Register \in Reg /\ Register.op = "none" /\ Register.prev = None
  /\ Fits("idle", Register)
BY DEF Register, Reg, OpNames, Maybe, Fits

\* A step that leaves the registers alone.
LEMMA StayMoves ==
  ASSUME ShapeInv, NEW t \in Threads, NEW l \in Labels, Goto(t, l), Stay, Fits(l, reg[t])
  PROVE  Moved(t, l, reg[t])
BY DEF ShapeInv, TypeInv, Moved, Goto, Stay

\* Every operation that a thread begins.
LEMMA OperationMoves ==
  ASSUME ShapeInv, NEW t \in Threads, Operation(t)
  PROVE  \E l, r : Moved(t, l, r)
<1> USE DEF ShapeInv, TypeInv
<1>1. ASSUME NEW k \in Keys, Put(t, k)
      PROVE  \E l, r : Moved(t, l, r)
  <2>0. ops' \in Nat
    BY <1>1 DEF Put, Called
  <2>1. puts' \in Objects
    BY <1>1 DEF Put
  <2>2. CASE WritingMax > 0 /\ Cardinality(Writing) >= WritingMax
    <3>1. Moved(t, "idle", Register)
      BY <1>1, <2>2, RegisterFacts DEF Put, BeginPut, End, Goto, Moved, Labels
    <3>2. QED
      BY <3>1
  <2>3. CASE ~(WritingMax > 0 /\ Cardinality(Writing) >= WritingMax)
    <3> DEFINE r == [Register EXCEPT !.op = "put", !.key = k, !.obj = puts', !.seq = ops']
    <3>1. r \in Reg /\ Fits("space", r)
      BY <2>0, <2>1 DEF Register, Reg, OpNames, Maybe, Fits
    <3>2. Moved(t, "space", r)
      BY <1>1, <2>3, <3>1 DEF Put, BeginPut, Goto, Moved, Labels
    <3>3. QED
      BY <3>2
  <2>4. QED
    BY <2>2, <2>3
<1>2. ASSUME NEW k \in Keys, UpdateMeta(t, k)
      PROVE  \E l, r : Moved(t, l, r)
  <2>1. PICK v \in Objects : v = IF hot[k] # None THEN hot[k] ELSE file[k]
    BY <1>2 DEF UpdateMeta, Maybe
  <2>0. ops' \in Nat
    BY <1>2 DEF UpdateMeta, Call, Called
  <2> DEFINE r == [Register EXCEPT !.op = "meta", !.key = k, !.obj = v, !.seq = ops']
             l == IF hot[k] # None THEN "revalidated" ELSE "read"
  <2>2. r \in Reg /\ Fits(l, r) /\ l \in Labels
    BY <2>0, <2>1 DEF Register, Reg, OpNames, Maybe, Fits, Labels
  <2>3. Moved(t, l, r)
    BY <1>2, <2>1, <2>2 DEF UpdateMeta, Call, Goto, Moved
  <2>4. QED
    BY <2>3
<1>3. ASSUME NEW k \in Keys, Get(t, k)
      PROVE  \E l, r : Moved(t, l, r)
  <2> DEFINE r == [Register EXCEPT !.op = "get", !.key = k, !.obj = file[k]]
  <2>1. file[k] \in Objects
    BY <1>3 DEF Get, Maybe
  <2>2. r \in Reg /\ Fits("read", r)
    BY <2>1 DEF Register, Reg, OpNames, Maybe, Fits
  <2>3. Moved(t, "read", r)
    BY <1>3, <2>2 DEF Get, Call, Goto, Moved, Labels
  <2>4. QED
    BY <2>3
<1>4. ASSUME NEW k \in Keys, Remove(t, k)
      PROVE  \E l, r : Moved(t, l, r)
  <2> DEFINE r == [Register EXCEPT !.op = "remove", !.victim = k, !.len = Bytes(file[k])]
  <2>1. Bytes(file[k]) \in Nat
    BY ObjectFacts
  <2>2. r \in Reg /\ Fits("unlink", r)
    BY <2>1 DEF Register, Reg, OpNames, Maybe, Fits, Removers
  <2>3. Moved(t, "unlink", r)
    BY <1>4, <2>2 DEF Remove, Call, Goto, Moved, Labels
  <2>4. QED
    BY <2>3
<1>5. ASSUME NEW k \in Keys, PurgeUrls(t, k)
      PROVE  \E l, r : Moved(t, l, r)
  <2> DEFINE r == [Register EXCEPT !.op = "urls", !.victim = k, !.len = Bytes(entries[k])]
  <2>1. Bytes(entries[k]) \in Nat
    BY ObjectFacts
  <2>2. r \in Reg /\ Fits("unlink", r)
    BY <2>1 DEF Register, Reg, OpNames, Maybe, Fits, Removers
  <2>3. Moved(t, "unlink", r)
    BY <1>5, <2>2 DEF PurgeUrls, Call, Goto, Moved, Labels
  <2>4. QED
    BY <2>3
<1>6. ASSUME NEW op \in {"sweep", "namespace", "domain"}, NEW keys \in SUBSET Keys,
             NEW temps \in SUBSET (Nat \X Objects), Walks(t, op, keys, temps)
      PROVE  \E l, r : Moved(t, l, r)
  <2> DEFINE todo == {<<k, Bytes(file[k])>> : k \in keys}
             r == [Register EXCEPT !.op = op, !.todo = todo, !.temps = temps,
                                   !.before = IF op = "sweep" THEN {} ELSE stored]
  <2>1. todo \in SUBSET (Keys \X Nat)
    BY ObjectFacts
  <2> HIDE DEF todo
  <2>2. r \in Reg /\ Fits("loop", r)
    BY <2>1 DEF Register, Reg, OpNames, Maybe, Fits, Removers
  <2>3. Moved(t, "loop", r)
    BY <1>6, <2>2 DEF Walks, Call, Goto, Moved, Labels, todo
  <2>4. QED
    BY <2>3
<1>7. OnDisk \in SUBSET Keys /\ stray \in SUBSET (Nat \X Objects)
  BY DEF OnDisk
<1>8. CASE Clear(t)
  <2>1. PICK keys \in SUBSET OnDisk, temps \in SUBSET stray : Walks(t, "sweep", keys, temps)
    BY <1>8 DEF Clear
  <2>2. keys \in SUBSET Keys /\ temps \in SUBSET (Nat \X Objects)
    BY <1>7
  <2>3. QED
    BY <1>6, <2>1, <2>2
<1>9. CASE PurgeNamespace(t) \/ PurgeDomain(t)
  <2>1. {} \in SUBSET (Nat \X Objects)
    OBVIOUS
  <2>2. QED
    BY <1>6, <1>7, <1>9, <2>1 DEF PurgeNamespace, PurgeDomain
<1>10. QED
  BY <1>1, <1>2, <1>3, <1>4, <1>5, <1>8, <1>9 DEF Operation

\* The steps of a put and of a read.
LEMMA PutMoves ==
  ASSUME ShapeInv, NEW t \in Threads,
         \/ Space(t) \/ Write(t) \/ Rename(t) \/ Track(t) \/ Insert(t) \/ Sub(t) \/ Add(t)
         \/ Inc(t) \/ Check(t) \/ Revalidated(t) \/ Read(t) \/ Corrupt(t)
  PROVE  \E l, r : Moved(t, l, r)
<1> USE DEF ShapeInv, TypeInv
<1>0. reg[t] \in Reg /\ Fits(pc[t], reg[t])
  OBVIOUS
<1>1. ASSUME End(t) PROVE Moved(t, "idle", Register)
  BY <1>1, RegisterFacts DEF End, Goto, Moved, Labels
<1>2. CASE Space(t)
  <2> DEFINE old == file[reg[t].key]
             need == Less(Bytes(reg[t].obj), Bytes(old))
             r == [reg[t] EXCEPT !.old = old]
  <2>1. reg[t].op = "put" /\ reg[t].key \in Keys /\ reg[t].obj \in Objects
    BY <1>0, <1>2 DEF Space, At, Fits
  <2>2. CASE Budget > 0 /\ need > Budget
    BY <1>1, <1>2, <2>2 DEF Space
  <2>3. CASE ~(Budget > 0 /\ need > Budget)
    <3>1. r \in Reg /\ r.op = "put" /\ r.key \in Keys /\ r.obj \in Objects
      BY <1>0, <2>1 DEF Reg
    <3>2. PICK l \in {"walk", "write"} : Goto(t, l)
      BY <1>2, <2>3 DEF Space
    <3>3. reg' = [reg EXCEPT ![t] = r]
      BY <1>2, <2>3 DEF Space
    <3>4. Moved(t, l, r)
      BY <3>1, <3>2, <3>3 DEF Moved, Goto, Fits, Labels
    <3>5. QED
      BY <3>4
  <2>4. QED
    BY <2>2, <2>3
<1>3. CASE Write(t)
  <2>1. CASE End(t)
    BY <1>1, <2>1
  <2>2. CASE Goto(t, "rename") /\ Stay
    <3>1. Fits("rename", reg[t])
      BY <1>0, <1>3 DEF Write, At, Fits
    <3>2. QED
      BY <2>2, <3>1, StayMoves DEF Labels
  <2>3. QED
    BY <1>3, <2>1, <2>2 DEF Write
<1>3a. CASE Rename(t)
  <2>1. CASE End(t)
    BY <1>1, <2>1
  <2>2. CASE Goto(t, "track") /\ Stay
    <3>1. Fits("track", reg[t])
      BY <1>0, <1>3a DEF Rename, At, Fits
    <3>2. QED
      BY <2>2, <3>1, StayMoves DEF Labels
  <2>3. QED
    BY <1>3a, <2>1, <2>2 DEF Rename
<1>4. CASE Track(t)
  <2>1. Fits("insert", reg[t])
    BY <1>0, <1>4 DEF Track, At, Fits
  <2>2. QED
    BY <1>4, <2>1, StayMoves DEF Track, Labels
<1>5. CASE Insert(t)
  <2> DEFINE r == [reg[t] EXCEPT !.prev = entries[reg[t].key]]
  <2>1. reg[t].op = "put" /\ reg[t].key \in Keys /\ reg[t].obj \in Objects
    BY <1>0, <1>5 DEF Insert, At, Fits
  <2>2. r \in Reg /\ r.op = "put" /\ r.key \in Keys /\ r.obj \in Objects
    BY <1>0, <2>1 DEF Reg
  <2>3. PICK l \in {"add", "sub"} : Goto(t, l) /\ (l = "sub" => r.prev # None)
    BY <1>0, <1>5 DEF Insert, Reg
  <2>4. reg' = [reg EXCEPT ![t] = r]
    BY <1>5 DEF Insert
  <2>5. Moved(t, l, r)
    BY <2>2, <2>3, <2>4 DEF Moved, Goto, Fits, Labels
  <2>6. QED
    BY <2>5
<1>6. CASE Sub(t)
  <2>1. Fits("add", reg[t])
    BY <1>0, <1>6 DEF Sub, At, Fits
  <2>2. QED
    BY <1>6, <2>1, StayMoves DEF Sub, Labels
<1>7. CASE Add(t)
  <2>1. PICK l \in {"inc", "check"} : Goto(t, l) /\ (l = "inc" => reg[t].prev = None)
    BY <1>7 DEF Add
  <2>2. Fits(l, reg[t])
    BY <1>0, <1>7, <2>1 DEF Add, At, Fits
  <2>3. QED
    BY <1>7, <2>1, <2>2, StayMoves DEF Add, Labels
<1>8. CASE Inc(t)
  <2>1. Fits("check", reg[t])
    BY <1>0, <1>8 DEF Inc, At, Fits
  <2>2. QED
    BY <1>8, <2>1, StayMoves DEF Inc, Labels
<1>9. CASE Check(t)
  BY <1>1, <1>9 DEF Check
<1>10. CASE Revalidated(t)
  <2> DEFINE r == [Register EXCEPT !.op = "put", !.key = reg[t].key, !.obj = reg[t].obj,
                                   !.seq = reg[t].seq]
  <2>1. /\ reg[t].op = "meta" /\ reg[t].key \in Keys /\ reg[t].obj \in Objects
        /\ reg[t].seq \in Nat
    BY <1>0, <1>10 DEF Revalidated, At, Fits, Reg
  <2>2. CASE End(t)
    BY <1>1, <2>2
  <2>3. CASE Goto(t, "space") /\ reg' = [reg EXCEPT ![t] = r]
    <3>1. r \in Reg /\ Fits("space", r)
      BY <2>1 DEF Register, Reg, OpNames, Maybe, Fits
    <3>2. Moved(t, "space", r)
      BY <2>3, <3>1 DEF Goto, Moved, Labels
    <3>3. QED
      BY <3>2
  <2>4. QED
    BY <1>10, <2>2, <2>3 DEF Revalidated, BeginPut
<1>11. CASE Read(t)
  <2>1. CASE End(t)
    BY <1>1, <2>1
  <2>2. CASE reg[t].op = "meta" /\ Goto(t, "revalidated") /\ Stay
    <3>1. Fits("revalidated", reg[t])
      BY <1>0, <1>11, <2>2 DEF Read, At, Fits
    <3>2. QED
      BY <2>2, <3>1, StayMoves DEF Labels
  <2>3. QED
    BY <1>11, <2>1, <2>2 DEF Read
<1>12. CASE Corrupt(t)
  <2> DEFINE k == reg[t].key
             r == [Register EXCEPT !.op = "discard", !.victim = k, !.len = Bytes(file[k])]
  <2>1. k \in Keys
    BY <1>0, <1>12 DEF Corrupt, At, Fits
  <2>2. Bytes(file[k]) \in Nat
    BY <2>1, ObjectFacts
  <2>3. r \in Reg /\ Fits("unlink", r)
    BY <2>1, <2>2 DEF Register, Reg, OpNames, Maybe, Fits, Removers
  <2>4. Moved(t, "unlink", r)
    BY <1>12, <2>3 DEF Corrupt, Goto, Moved, Labels
  <2>5. QED
    BY <2>4
<1>13. QED
  BY <1>2, <1>3, <1>3a, <1>4, <1>5, <1>6, <1>7, <1>8, <1>9, <1>10, <1>11, <1>12

\* The steps of the removals, and of the resets.
LEMMA RemovalMoves ==
  ASSUME ShapeInv, NEW t \in Threads,
         \/ Walk(t) \/ Candidates(t) \/ Pick(t) \/ Unlink(t) \/ Untrack(t) \/ Unheat(t)
         \/ Unmap(t) \/ Free(t) \/ Dec(t) \/ Finish(t)
         \/ UnlinkTemporary(t) \/ UntrackTemporary(t) \/ FreeTemporary(t)
         \/ ClearEntries(t) \/ ZeroBytes(t) \/ ZeroCount(t)
  PROVE  \E l, r : Moved(t, l, r)
<1> USE DEF ShapeInv, TypeInv
<1>0. reg[t] \in Reg /\ Fits(pc[t], reg[t])
  OBVIOUS
<1>1. ASSUME End(t) PROVE Moved(t, "idle", Register)
  BY <1>1, RegisterFacts DEF End, Goto, Moved, Labels
<1>2. ASSUME NEW todo \in SUBSET (Keys \X Nat), Goto(t, "loop"),
             pc[t] \in {"walk", "candidates"}, reg' = [reg EXCEPT ![t].todo = todo]
      PROVE  \E l, r : Moved(t, l, r)
  <2> DEFINE r == [reg[t] EXCEPT !.todo = todo]
  <2>1. /\ reg[t].op \in {"put", "evict"}
        /\ reg[t].op \in {"put", "meta", "get"} => reg[t].key \in Keys /\ reg[t].obj \in Objects
    BY <1>0, <1>2 DEF Fits
  <2>2. r \in Reg /\ r.op = reg[t].op /\ r.key = reg[t].key /\ r.obj = reg[t].obj
    BY <1>0 DEF Reg
  <2>3. Moved(t, "loop", r)
    BY <1>2, <2>1, <2>2 DEF Moved, Goto, Fits, Labels, Removers
  <2>4. QED
    BY <2>3
<1>3. CASE Walk(t)
  <2>1. {<<k, Bytes(file[k])>> : k \in OnDisk} \in SUBSET (Keys \X Nat)
    BY ObjectFacts DEF OnDisk
  <2>2. QED
    BY <1>2, <1>3, <2>1 DEF Walk, At
<1>4. CASE Candidates(t)
  <2>1. PICK keys \in SUBSET Counted : reg' = [reg EXCEPT ![t].todo = {<<k, 0>> : k \in keys}]
    BY <1>4 DEF Candidates
  <2>2. {<<k, 0>> : k \in keys} \in SUBSET (Keys \X Nat)
    BY DEF Counted
  <2>3. QED
    BY <1>2, <1>4, <2>1, <2>2 DEF Candidates, At
<1>5. CASE Pick(t)
  <2>1. PICK x \in reg[t].todo :
          reg' = [reg EXCEPT ![t].todo = @ \ {x}, ![t].victim = x[1],
                    ![t].len = IF reg[t].op = "evict" THEN Bytes(entries[x[1]]) ELSE x[2]]
    BY <1>5 DEF Pick
  <2>2. reg[t].todo \in SUBSET (Keys \X Nat) /\ x[1] \in Keys /\ x[2] \in Nat
    BY <1>0, <2>1 DEF Reg
  <2>3. PICK n \in Nat :
          n = IF reg[t].op = "evict" THEN Bytes(entries[x[1]]) ELSE x[2]
    BY <2>2, ObjectFacts
  <2> DEFINE r == [reg[t] EXCEPT !.todo = @ \ {x}, !.victim = x[1], !.len = n]
  <2>4. /\ r \in Reg /\ r.op = reg[t].op /\ r.key = reg[t].key /\ r.obj = reg[t].obj
        /\ r.victim \in Keys
    BY <1>0, <2>2 DEF Reg
  <2>5. reg' = [reg EXCEPT ![t] = r]
    BY <2>1, <2>3
  <2>6. Goto(t, "unlink") /\ pc[t] = "loop"
    BY <1>5 DEF Pick, At
  <2>7. Moved(t, "unlink", r)
    BY <1>0, <2>4, <2>5, <2>6 DEF Moved, Goto, Fits, Labels
  <2>8. QED
    BY <2>7
<1>6. CASE Unlink(t)
  <2>1. PICK l \in {"untrack", "unmap", "loop"} : Goto(t, l)
    BY <1>6 DEF Unlink
  <2>2. Fits(l, reg[t])
    BY <1>0, <1>6, <2>1 DEF Unlink, At, Fits
  <2>3. QED
    BY <1>6, <2>1, <2>2, StayMoves DEF Unlink, Labels
<1>7. CASE Untrack(t)
  <2>1. PICK l \in {"unheat", "unmap", "loop"} :
          Goto(t, l) /\ (l = "unheat" => reg[t].op = "namespace")
    BY <1>7 DEF Untrack
  <2>2. Fits(l, reg[t])
    BY <1>0, <1>7, <2>1 DEF Untrack, At, Fits
  <2>3. QED
    BY <1>7, <2>1, <2>2, StayMoves DEF Untrack, Labels
<1>8. CASE Unheat(t)
  <2>1. Fits("loop", reg[t])
    BY <1>0, <1>8 DEF Unheat, At, Fits, Removers
  <2>2. QED
    BY <1>8, <2>1, StayMoves DEF Unheat, Labels
<1>9. CASE Unmap(t)
  <2> DEFINE k == reg[t].victim
  <2>1. reg[t].victim \in Keys /\ reg[t].len \in Nat /\ entries[k] \in Maybe
    BY <1>0, <1>9 DEF Unmap, At, Fits, Reg
  <2>2. PICK n \in Nat :
          n = IF entries[k] # None THEN Bytes(entries[k])
              ELSE IF reg[t].op = "remove" THEN 0 ELSE reg[t].len
    BY <2>1, ObjectFacts
  <2> DEFINE r == [reg[t] EXCEPT !.prev = entries[k], !.len = n]
  <2>3. /\ r \in Reg /\ r.op = reg[t].op /\ r.key = reg[t].key /\ r.obj = reg[t].obj
        /\ r.victim = reg[t].victim
    BY <1>0, <2>1 DEF Reg
  <2>4. reg' = [reg EXCEPT ![t] = r]
    BY <1>9, <2>2 DEF Unmap
  <2>5. Goto(t, "free") /\ pc[t] = "unmap"
    BY <1>9 DEF Unmap, At
  <2>6. Moved(t, "free", r)
    BY <1>0, <2>3, <2>4, <2>5 DEF Moved, Goto, Fits, Labels
  <2>7. QED
    BY <2>6
<1>10. CASE Free(t)
  <2>1. PICK l \in {"dec", "loop"} : Goto(t, l) /\ (l = "dec" => reg[t].prev # None)
    BY <1>10 DEF Free
  <2>2. Fits(l, reg[t])
    BY <1>0, <1>10, <2>1 DEF Free, At, Fits
  <2>3. QED
    BY <1>10, <2>1, <2>2, StayMoves DEF Free, Labels
<1>11. CASE Dec(t)
  <2>1. Fits("loop", reg[t])
    BY <1>0, <1>11 DEF Dec, At, Fits
  <2>2. QED
    BY <1>11, <2>1, StayMoves DEF Dec, Labels
<1>12. CASE Finish(t)
  <2>1. CASE End(t)
    BY <1>1, <2>1
  <2>2. CASE reg[t].op = "put" /\ Goto(t, "write") /\ Stay
    <3>1. Fits("write", reg[t])
      BY <1>0, <1>12, <2>2 DEF Finish, At, Fits
    <3>2. QED
      BY <2>2, <3>1, StayMoves DEF Labels
  <2>3. CASE reg[t].op \in {"namespace", "domain"} /\ Goto(t, "clear") /\ Stay
    <3>1. Fits("clear", reg[t])
      BY <1>0, <1>12, <2>3 DEF Finish, At, Fits
    <3>2. QED
      BY <2>3, <3>1, StayMoves DEF Labels
  <2>4. QED
    BY <1>12, <2>1, <2>2, <2>3 DEF Finish
<1>13. CASE ClearEntries(t)
  <2>1. Fits("zerobytes", reg[t])
    BY <1>0, <1>13 DEF ClearEntries, At, Fits
  <2>2. QED
    BY <1>13, <2>1, StayMoves DEF ClearEntries, Labels
<1>14. CASE ZeroBytes(t)
  <2>1. Fits("zerocount", reg[t])
    BY <1>0, <1>14 DEF ZeroBytes, At, Fits
  <2>2. QED
    BY <1>14, <2>1, StayMoves DEF ZeroBytes, Labels
<1>15. CASE ZeroCount(t)
  BY <1>1, <1>15 DEF ZeroCount
<1>16. CASE UnlinkTemporary(t)
  <2>1. PICK x \in reg[t].temps :
          /\ reg' = [reg EXCEPT ![t].temps = @ \ {x}, ![t].len = Bytes(x[2])]
          /\ Goto(t, "untracktemp") \/ UNCHANGED pc
    BY <1>16 DEF UnlinkTemporary
  <2>2. reg[t].temps \in SUBSET (Nat \X Objects) /\ x[2] \in Objects
    BY <1>0, <2>1 DEF Reg
  <2>3. PICK n \in Nat : n = Bytes(x[2])
    BY <2>2, ObjectFacts DEF Maybe
  <2>4. pc[t] = "loop" /\ reg[t].op = "sweep"
    BY <1>16 DEF UnlinkTemporary, At
  <2> DEFINE r == [reg[t] EXCEPT !.temps = @ \ {x}, !.len = n]
  <2>5. r \in Reg /\ r.op = "sweep"
    BY <1>0, <2>2, <2>4 DEF Reg
  <2>6. reg' = [reg EXCEPT ![t] = r]
    BY <2>1, <2>3
  <2>7. PICK l \in {"untracktemp", "loop"} : Goto(t, l)
    BY <2>1, <2>4 DEF Goto
  <2>8. Moved(t, l, r)
    BY <2>5, <2>6, <2>7 DEF Moved, Goto, Fits, Labels, Removers
  <2>9. QED
    BY <2>8
<1>17. CASE UntrackTemporary(t)
  <2>1. Fits("freetemp", reg[t])
    BY <1>0, <1>17 DEF UntrackTemporary, At, Fits
  <2>2. QED
    BY <1>17, <2>1, StayMoves DEF UntrackTemporary, Labels
<1>18. CASE FreeTemporary(t)
  <2>1. Fits("loop", reg[t])
    BY <1>0, <1>18 DEF FreeTemporary, At, Fits, Removers
  <2>2. QED
    BY <1>18, <2>1, StayMoves DEF FreeTemporary, Labels
<1>19. QED
  BY <1>3, <1>4, <1>5, <1>6, <1>7, <1>8, <1>9, <1>10, <1>11, <1>12, <1>13, <1>14, <1>15,
     <1>16, <1>17, <1>18

\* An eviction task that finds nothing to do leaves its thread idle.
LEMMA EvictMoves ==
  ASSUME ShapeInv, NEW t \in Threads, EvictToFit(t)
  PROVE  (\E l, r : Moved(t, l, r)) \/ UNCHANGED <<pc, reg>>
<1> DEFINE r == [reg[t] EXCEPT !.op = "evict"]
<1>1. CASE Goto(t, "candidates") /\ reg' = [reg EXCEPT ![t].op = "evict"]
  <2>1. reg[t] \in Reg
    BY DEF ShapeInv, TypeInv
  <2>2. r \in Reg /\ r.op = "evict"
    BY <2>1 DEF Reg, OpNames
  <2>3. Moved(t, "candidates", r)
    BY <1>1, <2>1, <2>2 DEF ShapeInv, TypeInv, Moved, Goto, Fits, Labels, Removers
  <2>4. QED
    BY <2>3
<1>2. QED
  BY <1>1 DEF EvictToFit

\* Where everyone is after thread t's step.
LEMMA MovedFacts ==
  ASSUME ShapeInv, NEW t \in Threads, NEW l, NEW r, Moved(t, l, r)
  PROVE  /\ pc' \in [Threads -> Labels] /\ reg' \in [Threads -> Reg]
         /\ pc'[t] = l /\ reg'[t] = r
         /\ \A u \in Threads : Fits(pc'[u], reg'[u])
         /\ \A u \in Threads \ {t} : pc'[u] = pc[u] /\ reg'[u] = reg[u]
<1>1. /\ pc' \in [Threads -> Labels] /\ reg' \in [Threads -> Reg]
      /\ pc'[t] = l /\ reg'[t] = r
      /\ \A u \in Threads \ {t} : pc'[u] = pc[u] /\ reg'[u] = reg[u]
  BY DEF ShapeInv, TypeInv, Moved
<1>2. Fits(l, r) /\ \A u \in Threads : Fits(pc[u], reg[u])
  BY DEF ShapeInv, Moved
<1>3. \A u \in Threads : Fits(pc'[u], reg'[u])
  BY <1>1, <1>2, Zenon
<1>4. QED
  BY <1>1, <1>3

\* The two maps, the ledger's entries and the counts keep their types.
LEMMA StateTypes ==
  ASSUME ShapeInv, Step
  PROVE  /\ file' \in [Keys -> Maybe] /\ hot' \in [Keys -> Maybe] /\ entries' \in [Keys -> Maybe]
         /\ stored' \subseteq Maybe /\ count' \in Int /\ restarts' \in Nat
         /\ stray' \in SUBSET (Nat \X Objects) /\ ops' \in Nat
<1> DEFINE Typed == /\ file' \in [Keys -> Maybe] /\ hot' \in [Keys -> Maybe]
                    /\ entries' \in [Keys -> Maybe]
                    /\ stored' \subseteq Maybe /\ count' \in Int /\ restarts' \in Nat
                    /\ stray' \in SUBSET (Nat \X Objects) /\ ops' \in Nat
<1> USE DEF TypeInv, disk, ledger, rest, calls, marks
<1>0. /\ TypeInv /\ None \in Maybe /\ Objects \subseteq Maybe
      /\ \A t \in Threads : reg[t].obj \in Maybe
  BY DEF ShapeInv, Maybe, Reg
<1>t. ASSUME NEW t \in Threads, pc[t] \in {"write", "rename"}
      PROVE  Temporary(t) \in Nat \X Objects
  <2>1. reg[t].seq \in Nat /\ reg[t].obj \in Objects
    BY <1>t DEF ShapeInv, Fits, Reg
  <2>2. QED
    BY <2>1 DEF Temporary
<1>1. ASSUME NEW k, NEW v \in Maybe, PutHot(k, v) PROVE hot' \in [Keys -> Maybe]
  BY <1>0, <1>1 DEF PutHot
<1>2. ASSUME NEW t \in Threads, Operation(t) PROVE Typed
  <2>1. ASSUME NEW k \in Keys, Put(t, k) PROVE Typed
    BY <1>0, <1>1, <2>1 DEF Put, BeginPut, Called
  <2>2. ASSUME NEW k \in Keys, UpdateMeta(t, k) \/ Get(t, k) \/ PurgeUrls(t, k) PROVE Typed
    BY <1>0, <2>2 DEF UpdateMeta, Get, PurgeUrls, Call, Called
  <2>3. ASSUME NEW k \in Keys, Remove(t, k) PROVE Typed
    BY <1>0, <2>3 DEF Remove, Call, Called
  <2>4. ASSUME NEW op, NEW keys, NEW temps, Walks(t, op, keys, temps) PROVE Typed
    BY <1>0, <2>4 DEF Walks, Call, Called
  <2>5. QED
    BY <1>2, <2>1, <2>2, <2>3, <2>4 DEF Operation, Clear, PurgeNamespace, PurgeDomain
<1>3. ASSUME NEW t \in Threads, EvictToFit(t) PROVE Typed
  BY <1>0, <1>3 DEF EvictToFit
<1>4. ASSUME NEW t \in Threads, Space(t) \/ Track(t) \/ Check(t) PROVE Typed
  BY <1>0, <1>4 DEF Space, Track, Check
<1>4a. ASSUME NEW t \in Threads, Write(t) \/ Rename(t) PROVE Typed
  <2>1. Temporary(t) \in Nat \X Objects
    BY <1>t, <1>4a DEF Write, Rename, At
  <2>2. QED
    BY <1>0, <1>4a, <2>1 DEF Write, Rename
<1>4b. ASSUME NEW t \in Threads, Corrupt(t) PROVE Typed
  BY <1>0, <1>4b DEF Corrupt
<1>4c. ASSUME NEW t \in Threads,
              UnlinkTemporary(t) \/ UntrackTemporary(t) \/ FreeTemporary(t)
       PROVE  Typed
  BY <1>0, <1>4c DEF UnlinkTemporary, UntrackTemporary, FreeTemporary
<1>5. ASSUME NEW t \in Threads, Insert(t) \/ Sub(t) \/ Add(t) \/ Inc(t) PROVE Typed
  BY <1>0, <1>5 DEF Insert, Sub, Add, Inc
<1>6. ASSUME NEW t \in Threads, Revalidated(t) \/ Read(t) PROVE Typed
  BY <1>0, <1>1, <1>6 DEF Revalidated, Read, BeginPut
<1>7. ASSUME NEW t \in Threads, Walk(t) \/ Candidates(t) \/ Pick(t) \/ Untrack(t) \/ Finish(t)
      PROVE  Typed
  BY <1>0, <1>7 DEF Walk, Candidates, Pick, Untrack, Finish
<1>8. ASSUME NEW t \in Threads, Unlink(t) \/ Unheat(t) PROVE Typed
  BY <1>0, <1>8 DEF Unlink, Unheat
<1>9. ASSUME NEW t \in Threads, Unmap(t) \/ Free(t) \/ Dec(t) PROVE Typed
  BY <1>0, <1>9 DEF Unmap, Free, Dec
<1>10. ASSUME NEW t \in Threads, ClearEntries(t) \/ ZeroBytes(t) \/ ZeroCount(t) PROVE Typed
  BY <1>0, <1>10 DEF ClearEntries, ZeroBytes, ZeroCount
<1>11. ASSUME NEW k \in Keys, HotDrops(k) PROVE Typed
  BY <1>0, <1>11 DEF HotDrops
<1>12. ASSUME Restart PROVE Typed
  <2>1. Cardinality(OnDisk) \in Int
    BY CacheAssumption, FS_Subset, FS_CardinalityType DEF OnDisk
  <2>2. stray' \in SUBSET (Nat \X Objects)
    BY <1>0, <1>12, <1>t DEF Restart, At
  <2>3. QED
    BY <1>0, <1>12, <2>1, <2>2 DEF Restart
<1>13. QED
  BY <1>2, <1>3, <1>4, <1>4a, <1>4b, <1>4c, <1>5, <1>6, <1>7, <1>8, <1>9, <1>10, <1>11, <1>12
     DEF Step, ThreadStep

\* Everyone is idle at first.
LEMMA InitShape == Init => ShapeInv
<1> SUFFICES ASSUME Init PROVE ShapeInv
  OBVIOUS
<1>1. TypeInv
  BY RegisterFacts DEF Init, TypeInv, Labels, Maybe
<1>2. \A t \in Threads : Fits(pc[t], reg[t])
  BY RegisterFacts DEF Init
<1>3. QED
  BY <1>1, <1>2 DEF ShapeInv

\* Every step keeps the registers in line with the labels.
LEMMA NextShape == ASSUME ShapeInv, Step PROVE ShapeInv'
<1>1. ASSUME NEW t \in Threads, NEW l, NEW r, Moved(t, l, r) PROVE ShapeInv'
  BY <1>1, MovedFacts, StateTypes DEF ShapeInv, TypeInv
<1>2. ASSUME UNCHANGED <<pc, reg>> PROVE ShapeInv'
  BY <1>2, StateTypes DEF ShapeInv, TypeInv
<1>3. ASSUME Restart PROVE ShapeInv'
  <2>1. pc' \in [Threads -> Labels] /\ reg' \in [Threads -> Reg]
    BY <1>3, RegisterFacts DEF Restart, Labels
  <2>2. \A t \in Threads : Fits(pc'[t], reg'[t])
    BY <1>3, RegisterFacts DEF Restart
  <2>3. QED
    BY <2>1, <2>2, StateTypes DEF ShapeInv, TypeInv
<1>4. CASE \E t \in Threads : Operation(t)
  BY <1>1, <1>4, OperationMoves
<1>5. CASE \E t \in Threads : EvictToFit(t)
  BY <1>1, <1>2, <1>5, EvictMoves
<1>6. CASE \E t \in Threads : ThreadStep(t)
  BY <1>1, <1>6, PutMoves, RemovalMoves DEF ThreadStep
<1>7. CASE \E k \in Keys : HotDrops(k)
  BY <1>2, <1>7 DEF HotDrops
<1>8. QED
  BY <1>3, <1>4, <1>5, <1>6, <1>7 DEF Step

-----------------------------------------------------------------------------
(* The flags *)

MakingLabels == {"walk", "loop", "unlink", "untrack", "unmap", "free", "dec"}
Evicts(t) == reg[t].op = "evict"
Makes(t) == reg[t].op = "put" /\ pc[t] \in MakingLabels

\* Each flag is up exactly while one thread is between its two changes.
EvictInv ==
  /\ evicting \in BOOLEAN /\ (evicting <=> \E t \in Threads : Evicts(t))
  /\ \A t, u \in Threads : Evicts(t) /\ Evicts(u) => t = u
MakeInv ==
  /\ making \in BOOLEAN /\ (making <=> \E t \in Threads : Makes(t))
  /\ \A t, u \in Threads : Makes(t) /\ Makes(u) => t = u

\* The other threads are where they were.
Others(t) == \A u \in Threads \ {t} : pc'[u] = pc[u] /\ reg'[u] = reg[u]

\* A step that changes neither flag, nor which one the thread is to lower.
Calm(t) ==
  /\ evicting' = evicting /\ making' = making
  /\ (Evicts(t)' <=> Evicts(t)) /\ (Makes(t)' <=> Makes(t))

\* The steps that touch neither flag.
LEMMA CalmSteps ==
  ASSUME ShapeInv, NEW t \in Threads, Operation(t) \/ ThreadStep(t), ~Space(t), ~Finish(t)
  PROVE  Calm(t)
<1> USE DEF Calm, Evicts, Makes, MakingLabels, disk, ledger, rest, calls, marks, At, Goto, Stay
<1>0. /\ pc \in [Threads -> Labels] /\ reg \in [Threads -> Reg]
      /\ reg[t] \in Reg /\ Fits(pc[t], reg[t])
  BY DEF ShapeInv, TypeInv
<1>1. ASSUME NEW k, NEW v, NEW n, BeginPut(t, k, v, n)
      PROVE  /\ pc'[t] \notin MakingLabels /\ reg'[t].op # "evict"
  <2>1. CASE End(t)
    BY <1>0, <2>1 DEF End, Register
  <2>2. CASE /\ Goto(t, "space")
             /\ reg' = [reg EXCEPT ![t] =
                           [Register EXCEPT !.op = "put", !.key = k, !.obj = v, !.seq = n]]
    <3>1. [Register EXCEPT !.op = "put", !.key = k, !.obj = v, !.seq = n].op = "put"
      BY DEF Register
    <3>2. QED
      BY <1>0, <2>2, <3>1
  <2>3. QED
    BY <1>1, <2>1, <2>2 DEF BeginPut
<1>4. CASE Operation(t)
  <2>1. ASSUME NEW k \in Keys, Put(t, k) PROVE Calm(t)
    BY <1>0, <1>1, <2>1 DEF Put, Fits
  <2>2. ASSUME NEW k \in Keys, UpdateMeta(t, k) PROVE Calm(t)
    BY <1>0, <2>2 DEF UpdateMeta, Call, Register, Fits
  <2>3. ASSUME NEW k \in Keys, Get(t, k) PROVE Calm(t)
    BY <1>0, <2>3 DEF Get, Call, Register, Fits
  <2>4. ASSUME NEW k \in Keys, Remove(t, k) \/ PurgeUrls(t, k) PROVE Calm(t)
    BY <1>0, <2>4, ZenonT(60) DEF Remove, PurgeUrls, Call, Register, Fits
  <2>5. ASSUME NEW op \in {"sweep", "namespace", "domain"}, NEW keys, NEW temps,
               Walks(t, op, keys, temps)
        PROVE  Calm(t)
    BY <1>0, <2>5 DEF Walks, Call, Register, Fits
  <2>6. QED
    BY <1>4, <2>1, <2>2, <2>3, <2>4, <2>5 DEF Operation, Clear, PurgeNamespace, PurgeDomain
<1>5. CASE Write(t) \/ Rename(t)
  <2>1. CASE End(t)
    BY <1>0, <1>5, <2>1 DEF Write, Rename, End, Register, Fits
  <2>2. CASE reg' = reg /\ pc'[t] \in {"rename", "track"}
    BY <1>5, <2>2 DEF Write, Rename
  <2>3. QED
    BY <1>0, <1>5, <2>1, <2>2 DEF Write, Rename
<1>6. CASE Track(t) \/ Sub(t) \/ Add(t) \/ Inc(t)
  BY <1>0, <1>6 DEF Track, Sub, Add, Inc
<1>7. CASE Insert(t)
  BY <1>0, <1>7 DEF Insert, Reg, Fits
<1>8. CASE Check(t)
  BY <1>0, <1>8 DEF Check, End, Register, Fits
<1>9. CASE Revalidated(t)
  BY <1>0, <1>1, <1>9 DEF Revalidated, Fits
<1>10. CASE Read(t)
  BY <1>0, <1>10 DEF Read, End, Register, Fits
<1>11. CASE Walk(t)
  BY <1>0, <1>11 DEF Walk, Reg
<1>12. CASE Candidates(t)
  <2>1. PICK keys : reg' = [reg EXCEPT ![t].todo = {<<k, 0>> : k \in keys}]
    BY <1>12 DEF Candidates
  <2>2. reg'[t].op = reg[t].op /\ pc[t] = "candidates" /\ reg[t].op = "evict"
    BY <1>0, <1>12, <2>1 DEF Candidates, Reg, Fits
  <2>3. QED
    BY <1>12, <2>2 DEF Candidates
<1>13. CASE Pick(t)
  <2>1. reg'[t].op = reg[t].op /\ pc'[t] = "unlink" /\ pc[t] = "loop"
    BY <1>0, <1>13 DEF Pick, Reg
  <2>2. QED
    BY <1>13, <2>1 DEF Pick
<1>14. CASE Unlink(t)
  <2>1. pc'[t] \in {"untrack", "unmap", "loop"} /\ pc[t] = "unlink" /\ reg' = reg
    BY <1>0, <1>14 DEF Unlink
  <2>2. QED
    BY <1>14, <2>1 DEF Unlink
<1>15. CASE Untrack(t)
  BY <1>0, <1>15 DEF Untrack
<1>16. CASE Unheat(t)
  BY <1>0, <1>16 DEF Unheat, Fits
<1>17. CASE Unmap(t)
  <2>1. reg'[t].op = reg[t].op /\ pc'[t] = "free" /\ pc[t] = "unmap"
    BY <1>0, <1>17 DEF Unmap, Reg
  <2>2. QED
    BY <1>17, <2>1 DEF Unmap
<1>18. CASE Free(t) \/ Dec(t)
  BY <1>0, <1>18 DEF Free, Dec
<1>19. CASE ClearEntries(t) \/ ZeroBytes(t)
  BY <1>0, <1>19 DEF ClearEntries, ZeroBytes, Fits
<1>20. CASE ZeroCount(t)
  BY <1>0, <1>20 DEF ZeroCount, End, Register, Fits
<1>21. CASE Corrupt(t)
  BY <1>0, <1>21 DEF Corrupt, Register, Fits
<1>22. CASE UnlinkTemporary(t)
  <2>1. reg'[t].op = reg[t].op /\ pc'[t] \in {"untracktemp", "loop"} /\ reg[t].op = "sweep"
    BY <1>0, <1>22 DEF UnlinkTemporary, Reg
  <2>2. QED
    BY <1>22, <2>1 DEF UnlinkTemporary
<1>23. CASE UntrackTemporary(t) \/ FreeTemporary(t)
  BY <1>0, <1>23 DEF UntrackTemporary, FreeTemporary, Fits
<1>24. QED
  BY <1>4, <1>5, <1>6, <1>7, <1>8, <1>9, <1>10, <1>11, <1>12, <1>13, <1>14, <1>15, <1>16,
     <1>17, <1>18, <1>19, <1>20, <1>21, <1>22, <1>23 DEF ThreadStep

\* Both flags are down at first.
LEMMA InitFlags == Init => EvictInv /\ MakeInv
<1> SUFFICES ASSUME Init PROVE EvictInv /\ MakeInv
  OBVIOUS
<1>1. ~evicting /\ ~making /\ evicting \in BOOLEAN /\ making \in BOOLEAN
  BY Zenon DEF Init
<1>2. \A t \in Threads : reg[t].op = "none"
  BY DEF Init, Register
<1>3. QED
  BY <1>1, <1>2 DEF EvictInv, MakeInv, Evicts, Makes

\* Every step keeps each flag with the thread that raised it.
LEMMA NextFlags ==
  ASSUME ShapeInv, EvictInv, MakeInv, Step PROVE EvictInv' /\ MakeInv'
<1>0. /\ pc \in [Threads -> Labels] /\ reg \in [Threads -> Reg]
      /\ \A t \in Threads : reg[t] \in Reg /\ Fits(pc[t], reg[t])
  BY DEF ShapeInv, TypeInv
<1>1. ASSUME NEW t \in Threads, Operation(t) \/ EvictToFit(t) \/ ThreadStep(t) PROVE Others(t)
  BY <1>1, OperationMoves, EvictMoves, PutMoves, RemovalMoves, MovedFacts
     DEF ThreadStep, Others
<1>2. ASSUME NEW t \in Threads, Others(t)
      PROVE  \A u \in Threads \ {t} : (Evicts(u)' <=> Evicts(u)) /\ (Makes(u)' <=> Makes(u))
  BY <1>2 DEF Others, Evicts, Makes
<1>3. ASSUME NEW t \in Threads, Others(t), Calm(t) PROVE EvictInv' /\ MakeInv'
  <2>1. \A u \in Threads : (Evicts(u)' <=> Evicts(u)) /\ (Makes(u)' <=> Makes(u))
    BY <1>2, <1>3 DEF Calm
  <2>2. QED
    BY <1>3, <2>1 DEF Calm, EvictInv, MakeInv
<1>4. ASSUME NEW t \in Threads, EvictToFit(t) PROVE EvictInv' /\ MakeInv'
  <2> USE DEF disk, ledger, rest, calls, marks
  <2>1. making' = making
    BY <1>4 DEF EvictToFit
  <2>2. CASE UNCHANGED <<evicting, pc, reg>>
    BY <2>1, <2>2 DEF EvictInv, MakeInv, Evicts, Makes
  <2>3. CASE ~evicting /\ evicting' = TRUE /\ Goto(t, "candidates")
             /\ reg' = [reg EXCEPT ![t].op = "evict"]
    <3>1. Evicts(t)' /\ ~Makes(t)' /\ ~Makes(t)
      BY <1>0, <1>4, <2>3 DEF EvictToFit, At, Evicts, Makes, Reg, Fits
    <3>2. \A u \in Threads \ {t} : (Evicts(u)' <=> Evicts(u)) /\ (Makes(u)' <=> Makes(u))
      BY <1>1, <1>2, <1>4
    <3>3. EvictInv'
      BY <2>3, <3>1, <3>2 DEF EvictInv
    <3>4. MakeInv'
      BY <2>1, <3>1, <3>2 DEF MakeInv
    <3>5. QED
      BY <3>3, <3>4
  <2>4. QED
    BY <1>4, <2>2, <2>3 DEF EvictToFit, EvictInv
<1>5. ASSUME NEW t \in Threads, Space(t) PROVE EvictInv' /\ MakeInv'
  <2> USE DEF disk, ledger, rest, calls, marks
  <2>1. evicting' = evicting
    BY <1>5 DEF Space
  <2> DEFINE old == file[reg[t].key]
             need == Less(Bytes(reg[t].obj), Bytes(old))
             walk == Budget > 0 /\ need <= Budget /\ OverBudget(need) /\ ~making
  <2>2. pc[t] = "space" /\ reg[t].op = "put" /\ making' = (making \/ walk)
    BY <1>0, <1>5 DEF Space, At, Fits
  <2>3. \/ End(t) /\ ~walk
        \/ Goto(t, IF walk THEN "walk" ELSE "write") /\ reg' = [reg EXCEPT ![t].old = old]
    <3>1. CASE Budget > 0 /\ need > Budget
      <4>1. Budget \in Nat /\ need \in Int /\ ~(need <= Budget)
        <5>1. Bytes(reg[t].obj) \in Nat /\ Bytes(old) \in Nat
          BY <1>0, <1>5, ObjectFacts DEF Reg, ShapeInv, TypeInv, Space, At, Fits
        <5>2. QED
          BY <3>1, <5>1, CacheAssumption DEF Less
      <4>2. QED
        BY <1>5, <3>1, <4>1 DEF Space
    <3>2. CASE ~(Budget > 0 /\ need > Budget)
      BY <1>5, <3>2 DEF Space
    <3>3. QED
      BY <3>1, <3>2
  <2> HIDE DEF walk
  <2>4. reg'[t].op # "evict" /\ (Makes(t)' <=> walk)
    <3>1. CASE End(t) /\ ~walk
      BY <1>0, <3>1 DEF End, Makes, Register
    <3>2. CASE Goto(t, IF walk THEN "walk" ELSE "write") /\ reg' = [reg EXCEPT ![t].old = old]
      BY <1>0, <2>2, <3>2 DEF Goto, Makes, MakingLabels, Reg
    <3>3. QED
      BY <2>3, <3>1, <3>2
  <2>5. making' \in BOOLEAN /\ (making' <=> making \/ walk) /\ (walk => ~making)
    BY <2>2, Zenon DEF walk, MakeInv
  <2>6. ~Evicts(t) /\ ~Evicts(t)' /\ ~Makes(t) /\ making' \in BOOLEAN
        /\ (making' <=> making \/ Makes(t)') /\ ~(making /\ Makes(t)')
    BY <2>2, <2>4, <2>5 DEF Evicts, Makes, MakingLabels
  <2>7. \A u \in Threads \ {t} : (Evicts(u)' <=> Evicts(u)) /\ (Makes(u)' <=> Makes(u))
    BY <1>1, <1>2, <1>5 DEF ThreadStep
  <2>8. EvictInv'
    BY <2>1, <2>6, <2>7 DEF EvictInv
  <2>9. MakeInv'
    BY <2>6, <2>7 DEF MakeInv
  <2>10. QED
    BY <2>8, <2>9
<1>6. ASSUME NEW t \in Threads, Finish(t) PROVE EvictInv' /\ MakeInv'
  <2> USE DEF disk, ledger, rest, calls, marks
  <2>1. ~Evicts(t)' /\ ~Makes(t)' /\ evicting' \in BOOLEAN /\ making' \in BOOLEAN
    BY <1>0, <1>6 DEF Finish, Evicts, Makes, At, Goto, Stay, End, Register, MakingLabels
  <2>2. (evicting' <=> evicting /\ ~Evicts(t)) /\ (making' <=> making /\ ~Makes(t))
    BY <1>0, <1>6 DEF Finish, Evicts, Makes, At, MakingLabels
  <2>3. \A u \in Threads \ {t} : (Evicts(u)' <=> Evicts(u)) /\ (Makes(u)' <=> Makes(u))
    BY <1>1, <1>2, <1>6 DEF ThreadStep
  <2>4. EvictInv'
    BY <2>1, <2>2, <2>3 DEF EvictInv
  <2>5. MakeInv'
    BY <2>1, <2>2, <2>3 DEF MakeInv
  <2>6. QED
    BY <2>4, <2>5
<1>7. ASSUME NEW k \in Keys, HotDrops(k) PROVE EvictInv' /\ MakeInv'
  BY <1>7 DEF HotDrops, EvictInv, MakeInv, Evicts, Makes, ledger
<1>8. ASSUME Restart PROVE EvictInv' /\ MakeInv'
  BY <1>8 DEF Restart, EvictInv, MakeInv, Evicts, Makes, Register
<1>9. ASSUME NEW t \in Threads, Operation(t) \/ ThreadStep(t), ~Space(t), ~Finish(t)
      PROVE  EvictInv' /\ MakeInv'
  BY <1>1, <1>3, <1>9, CalmSteps
<1>10. QED
  BY <1>4, <1>5, <1>6, <1>7, <1>8, <1>9 DEF Step

-----------------------------------------------------------------------------
(* The item count *)

ResetLabels == {"zerobytes", "zerocount"}
Owes(t) == pc[t] \in {"add", "inc"} /\ reg[t].prev = None
Dues(t) == pc[t] \in {"free", "dec"} /\ reg[t].prev # None
Owed == {t \in Threads : Owes(t)}
Due == {t \in Threads : Dues(t)}

\* The count is off by the updates under way, and - as long as none of them met
\* a reset - the map is empty during one.
CountInv ==
  ~cut => /\ Resetting = {} => count + Cardinality(Owed) = Cardinality(Counted) + Cardinality(Due)
          /\ Resetting # {} => Counted = {} /\ Updating = {}

\* A step that changes neither the count nor what the thread is about to.
Steady(t) ==
  /\ entries' = entries /\ count' = count /\ restarts' = restarts
  /\ (Owes(t)' <=> Owes(t)) /\ (Dues(t)' <=> Dues(t))
  /\ pc'[t] \in ResetLabels <=> pc[t] \in ResetLabels

\* The steps that do not change the count or the map.
LEMMA SteadySteps ==
  ASSUME ShapeInv, NEW t \in Threads, Operation(t) \/ EvictToFit(t) \/ ThreadStep(t),
         ~Insert(t), ~Inc(t), ~Unmap(t), ~Dec(t), ~ClearEntries(t), ~ZeroCount(t)
  PROVE  Steady(t)
<1> USE DEF Steady, Owes, Dues, ResetLabels, disk, ledger, rest, calls, marks, At, Goto, Stay
<1>0. /\ pc \in [Threads -> Labels] /\ reg \in [Threads -> Reg]
      /\ reg[t] \in Reg /\ Fits(pc[t], reg[t])
  BY DEF ShapeInv, TypeInv
<1>1. ASSUME NEW k, NEW v, NEW n, BeginPut(t, k, v, n) PROVE pc'[t] \in {"idle", "space"}
  BY <1>0, <1>1 DEF BeginPut, End
<1>2. CASE Operation(t)
  <2>1. ASSUME NEW k \in Keys, Put(t, k) PROVE Steady(t)
    BY <1>0, <1>1, <2>1 DEF Put
  <2>2. ASSUME NEW k \in Keys, UpdateMeta(t, k) \/ Get(t, k) PROVE Steady(t)
    BY <1>0, <2>2 DEF UpdateMeta, Get, Call
  <2>3. ASSUME NEW k \in Keys, Remove(t, k) \/ PurgeUrls(t, k) PROVE Steady(t)
    BY <1>0, <2>3 DEF Remove, PurgeUrls, Call
  <2>4. ASSUME NEW op, NEW keys, NEW temps, Walks(t, op, keys, temps) PROVE Steady(t)
    BY <1>0, <2>4 DEF Walks, Call
  <2>5. QED
    BY <1>2, <2>1, <2>2, <2>3, <2>4 DEF Operation, Clear, PurgeNamespace, PurgeDomain
<1>3. CASE EvictToFit(t)
  BY <1>0, <1>3 DEF EvictToFit
<1>4. CASE Space(t)
  BY <1>0, <1>4 DEF Space, End
<1>5. CASE Write(t) \/ Rename(t) \/ Track(t) \/ Check(t)
  BY <1>0, <1>5 DEF Write, Rename, Track, Check, End
<1>6. CASE Sub(t)
  <2>1. reg[t].prev # None
    BY <1>0, <1>6 DEF Sub, Fits
  <2>2. QED
    BY <1>0, <1>6, <2>1 DEF Sub
<1>7. CASE Add(t)
  BY <1>0, <1>7 DEF Add
<1>8. CASE Revalidated(t)
  BY <1>0, <1>1, <1>8 DEF Revalidated
<1>9. CASE Read(t)
  BY <1>0, <1>9 DEF Read, End
<1>10. CASE Walk(t) \/ Candidates(t) \/ Pick(t)
  BY <1>0, <1>10 DEF Walk, Candidates, Pick
<1>11. CASE Unlink(t) \/ Untrack(t) \/ Unheat(t)
  BY <1>0, <1>11 DEF Unlink, Untrack, Unheat
<1>12. CASE Free(t)
  BY <1>0, <1>12 DEF Free
<1>13. CASE Finish(t)
  BY <1>0, <1>13 DEF Finish, End
<1>14. CASE ZeroBytes(t)
  BY <1>0, <1>14 DEF ZeroBytes
<1>15. CASE Corrupt(t)
  BY <1>0, <1>15 DEF Corrupt
<1>16. CASE UnlinkTemporary(t) \/ UntrackTemporary(t) \/ FreeTemporary(t)
  BY <1>0, <1>16 DEF UnlinkTemporary, UntrackTemporary, FreeTemporary
<1>17. QED
  BY <1>2, <1>3, <1>4, <1>5, <1>6, <1>7, <1>8, <1>9, <1>10, <1>11, <1>12, <1>13, <1>14,
     <1>15, <1>16 DEF ThreadStep

\* One element more.
LEMMA OneElementMore ==
  ASSUME NEW S, IsFiniteSet(S), NEW x, x \notin S, NEW T, T = S \cup {x}
  PROVE  Cardinality(T) = Cardinality(S) + 1
BY FS_AddElement

\* The sets that are counted are finite.
LEMMA CountedFinite ==
  /\ IsFiniteSet(Owed) /\ IsFiniteSet(Due) /\ IsFiniteSet(Counted)
  /\ Cardinality(Owed) \in Nat /\ Cardinality(Due) \in Nat /\ Cardinality(Counted) \in Nat
<1>1. Owed \subseteq Threads /\ Due \subseteq Threads /\ Counted \subseteq Keys
  BY DEF Owed, Due, Counted
<1>2. IsFiniteSet(Owed) /\ IsFiniteSet(Due) /\ IsFiniteSet(Counted)
  BY <1>1, CacheAssumption, FS_Subset
<1>3. QED
  BY <1>2, FS_CardinalityType

\* The sets that are counted are finite after a step too.
LEMMA CountedFiniteNext ==
  /\ IsFiniteSet(Owed') /\ IsFiniteSet(Due') /\ IsFiniteSet(Counted')
  /\ Cardinality(Owed') \in Nat /\ Cardinality(Due') \in Nat /\ Cardinality(Counted') \in Nat
<1>1. Owed' \subseteq Threads /\ Due' \subseteq Threads /\ Counted' \subseteq Keys
  BY DEF Owed, Due, Counted
<1>2. IsFiniteSet(Owed') /\ IsFiniteSet(Due') /\ IsFiniteSet(Counted')
  BY <1>1, CacheAssumption, FS_Subset
<1>3. QED
  BY <1>2, FS_CardinalityType

\* Nothing is counted at first.
LEMMA InitCount == Init => CountInv
<1> SUFFICES ASSUME Init PROVE CountInv
  OBVIOUS
<1>1. Owed = {} /\ Due = {} /\ Resetting = {}
  BY DEF Init, Owed, Due, Owes, Dues, Resetting
<1>2. Counted = {} /\ count = 0
  BY DEF Init, Counted
<1>3. QED
  BY <1>1, <1>2, FS_EmptySet DEF CountInv

\* Every step keeps the count in step with the map.
LEMMA NextCount == ASSUME ShapeInv, CountInv, Next PROVE CountInv'
<1>0. /\ pc \in [Threads -> Labels] /\ reg \in [Threads -> Reg]
      /\ entries \in [Keys -> Maybe] /\ count \in Int /\ restarts \in Nat
      /\ \A t \in Threads : reg[t] \in Reg /\ Fits(pc[t], reg[t])
  BY DEF ShapeInv, TypeInv
<1>1. ASSUME NEW t \in Threads, Operation(t) \/ EvictToFit(t) \/ ThreadStep(t) PROVE Others(t)
  BY <1>1, OperationMoves, EvictMoves, PutMoves, RemovalMoves, MovedFacts
     DEF ThreadStep, Others
<1>2. ASSUME NEW t \in Threads, Others(t)
      PROVE  \A u \in Threads \ {t} :
               /\ (Owes(u)' <=> Owes(u)) /\ (Dues(u)' <=> Dues(u))
               /\ pc'[u] \in ResetLabels <=> pc[u] \in ResetLabels
  BY <1>2 DEF Others, Owes, Dues
<1>3. ASSUME ~cut', restarts' = restarts
      PROVE  ~cut /\ (Resetting' # {} => Updating' = {})
  BY <1>3, Zenon DEF Next
<1>4. ASSUME ~cut
      PROVE  /\ Resetting = {} => count + Cardinality(Owed) = Cardinality(Counted) + Cardinality(Due)
             /\ Resetting # {} => Counted = {} /\ Updating = {}
  BY <1>4 DEF CountInv
<1>5. Resetting = {u \in Threads : pc[u] \in ResetLabels}
  BY DEF Resetting, ResetLabels
<1>6. Resetting' = {u \in Threads : pc'[u] \in ResetLabels}
  BY DEF Resetting, ResetLabels
<1>7. ASSUME NEW t \in Threads, Others(t), Steady(t) PROVE CountInv'
  <2> SUFFICES ASSUME ~cut'
               PROVE  /\ Resetting' = {} =>
                           count' + Cardinality(Owed') = Cardinality(Counted') + Cardinality(Due')
                      /\ Resetting' # {} => Counted' = {} /\ Updating' = {}
    BY DEF CountInv
  <2>1. \A u \in Threads : /\ (Owes(u)' <=> Owes(u)) /\ (Dues(u)' <=> Dues(u))
                           /\ pc'[u] \in ResetLabels <=> pc[u] \in ResetLabels
    BY <1>2, <1>7 DEF Steady
  <2>2. Owed' = Owed /\ Due' = Due
    BY <2>1 DEF Owed, Due
  <2>3. Resetting' = Resetting
    BY <1>5, <1>6, <2>1
  <2>4. Counted' = Counted /\ count' = count /\ restarts' = restarts
    BY <1>7 DEF Steady, Counted
  <2>5. QED
    BY <1>3, <1>4, <2>2, <2>3, <2>4
<1>8. ASSUME NEW t \in Threads, ~cut', restarts' = restarts, Others(t),
             pc[t] \in {"insert", "inc", "unmap", "dec"},
             pc'[t] \in {"add", "sub", "check", "free", "loop"},
             pc[t] \in {"inc", "dec"} \/ pc'[t] \in {"add", "sub", "free"}
      PROVE  /\ Resetting = {} /\ Resetting' = {}
             /\ count + Cardinality(Owed) = Cardinality(Counted) + Cardinality(Due)
  <2>1. Resetting' = Resetting
    BY <1>2, <1>5, <1>6, <1>8 DEF ResetLabels
  <2>2. t \in Updating \/ t \in Updating'
    BY <1>8 DEF Updating
  <2>3. QED
    BY <1>3, <1>4, <1>8, <2>1, <2>2
<1>9. ASSUME NEW t \in Threads, Insert(t) PROVE CountInv'
  <2> SUFFICES ASSUME ~cut'
               PROVE  /\ Resetting' = {} =>
                           count' + Cardinality(Owed') = Cardinality(Counted') + Cardinality(Due')
                      /\ Resetting' # {} => Counted' = {} /\ Updating' = {}
    BY DEF CountInv
  <2> USE DEF disk, ledger, rest, calls, marks
  <2>1. /\ count' = count /\ restarts' = restarts /\ pc[t] = "insert"
        /\ reg[t].key \in Keys /\ reg[t].obj \in Objects
    BY <1>0, <1>9 DEF Insert, At, Fits
  <2>2. Others(t)
    BY <1>1, <1>9 DEF ThreadStep
  <2>3. PICK k \in Keys, v \in Objects : k = reg[t].key /\ v = reg[t].obj
    BY <2>1
  <2>4. /\ pc'[t] = IF entries[k] = None THEN "add" ELSE "sub"
        /\ reg'[t].prev = entries[k] /\ entries' = [entries EXCEPT ![k] = v]
    BY <1>0, <1>9, <2>3 DEF Insert, Goto, Reg
  <2>5. Resetting' = {} /\ count + Cardinality(Owed) = Cardinality(Counted) + Cardinality(Due)
    BY <1>8, <2>1, <2>2, <2>4
  <2>6. ~Owes(t) /\ ~Dues(t) /\ ~Dues(t)' /\ (Owes(t)' <=> entries[k] = None)
    BY <2>1, <2>4 DEF Owes, Dues
  <2>7. Due' = Due
    BY <1>2, <2>2, <2>6 DEF Due
  <2>8. CASE entries[k] = None
    <3>1. Owed' = Owed \cup {t} /\ t \notin Owed
      BY <1>2, <2>2, <2>6, <2>8 DEF Owed
    <3>2. Counted' = Counted \cup {k} /\ k \notin Counted
      BY <1>0, <2>4, <2>8, ObjectFacts DEF Counted
    <3>3. /\ Cardinality(Owed') = Cardinality(Owed) + 1
          /\ Cardinality(Counted') = Cardinality(Counted) + 1
      BY <3>1, <3>2, OneElementMore, CountedFinite
    <3>4. QED
      BY <1>0, <2>1, <2>5, <2>7, <3>3, CountedFinite
  <2>9. CASE entries[k] # None
    <3>1. Owed' = Owed
      BY <1>2, <2>2, <2>6, <2>9 DEF Owed
    <3>2. Counted' = Counted
      BY <1>0, <2>4, <2>9, ObjectFacts DEF Counted
    <3>3. QED
      BY <2>1, <2>5, <2>7, <3>1, <3>2
  <2>10. QED
    BY <2>8, <2>9
<1>10. ASSUME NEW t \in Threads, Inc(t) PROVE CountInv'
  <2> SUFFICES ASSUME ~cut'
               PROVE  /\ Resetting' = {} =>
                           count' + Cardinality(Owed') = Cardinality(Counted') + Cardinality(Due')
                      /\ Resetting' # {} => Counted' = {} /\ Updating' = {}
    BY DEF CountInv
  <2> USE DEF disk, ledger, rest, calls, marks
  <2>1. /\ count' = count + 1 /\ entries' = entries /\ restarts' = restarts
        /\ pc[t] = "inc" /\ pc'[t] = "check" /\ reg[t].prev = None
    BY <1>0, <1>10 DEF Inc, At, Goto, Fits
  <2>2. Others(t)
    BY <1>1, <1>10 DEF ThreadStep
  <2>3. Resetting' = {} /\ count + Cardinality(Owed) = Cardinality(Counted) + Cardinality(Due)
    BY <1>8, <2>1, <2>2
  <2>4. Owes(t) /\ ~Owes(t)' /\ ~Dues(t) /\ ~Dues(t)'
    BY <2>1 DEF Owes, Dues
  <2>5. Owed = Owed' \cup {t} /\ t \notin Owed' /\ Due' = Due /\ Counted' = Counted
    BY <1>2, <2>1, <2>2, <2>4 DEF Owed, Due, Counted
  <2>6. Cardinality(Owed) = Cardinality(Owed') + 1
    BY <2>5, OneElementMore, CountedFiniteNext
  <2>7. QED
    BY <1>0, <2>1, <2>3, <2>5, <2>6, CountedFinite, CountedFiniteNext
<1>11. ASSUME NEW t \in Threads, Unmap(t) PROVE CountInv'
  <2> SUFFICES ASSUME ~cut'
               PROVE  /\ Resetting' = {} =>
                           count' + Cardinality(Owed') = Cardinality(Counted') + Cardinality(Due')
                      /\ Resetting' # {} => Counted' = {} /\ Updating' = {}
    BY DEF CountInv
  <2> USE DEF disk, ledger, rest, calls, marks
  <2>1. /\ count' = count /\ restarts' = restarts /\ pc[t] = "unmap" /\ pc'[t] = "free"
        /\ reg[t].victim \in Keys
    BY <1>0, <1>11 DEF Unmap, At, Goto, Fits
  <2>2. Others(t)
    BY <1>1, <1>11 DEF ThreadStep
  <2>3. PICK k \in Keys : k = reg[t].victim
    BY <2>1
  <2>4. reg'[t].prev = entries[k] /\ entries' = [entries EXCEPT ![k] = None]
    BY <1>0, <1>11, <2>3 DEF Unmap, Reg
  <2>5. Resetting' = {} /\ count + Cardinality(Owed) = Cardinality(Counted) + Cardinality(Due)
    BY <1>8, <2>1, <2>2
  <2>6. ~Owes(t) /\ ~Owes(t)' /\ ~Dues(t) /\ (Dues(t)' <=> entries[k] # None)
    BY <2>1, <2>4 DEF Owes, Dues
  <2>7. Owed' = Owed
    BY <1>2, <2>2, <2>6 DEF Owed
  <2>8. CASE entries[k] # None
    <3>1. Due' = Due \cup {t} /\ t \notin Due
      BY <1>2, <2>2, <2>6, <2>8 DEF Due
    <3>2. Counted = Counted' \cup {k} /\ k \notin Counted'
      BY <1>0, <2>4, <2>8 DEF Counted
    <3>3. /\ Cardinality(Due') = Cardinality(Due) + 1
          /\ Cardinality(Counted) = Cardinality(Counted') + 1
      BY <3>1, <3>2, OneElementMore, CountedFinite, CountedFiniteNext
    <3>4. QED
      BY <1>0, <2>1, <2>5, <2>7, <3>3, CountedFinite, CountedFiniteNext
  <2>9. CASE entries[k] = None
    <3>1. Due' = Due
      BY <1>2, <2>2, <2>6, <2>9 DEF Due
    <3>2. Counted' = Counted
      BY <1>0, <2>4, <2>9 DEF Counted
    <3>3. QED
      BY <2>1, <2>5, <2>7, <3>1, <3>2
  <2>10. QED
    BY <2>8, <2>9
<1>12. ASSUME NEW t \in Threads, Dec(t) PROVE CountInv'
  <2> SUFFICES ASSUME ~cut'
               PROVE  /\ Resetting' = {} =>
                           count' + Cardinality(Owed') = Cardinality(Counted') + Cardinality(Due')
                      /\ Resetting' # {} => Counted' = {} /\ Updating' = {}
    BY DEF CountInv
  <2> USE DEF disk, ledger, rest, calls, marks
  <2>1. /\ count' = count - 1 /\ entries' = entries /\ restarts' = restarts
        /\ pc[t] = "dec" /\ pc'[t] = "loop" /\ reg[t].prev # None
    BY <1>0, <1>12 DEF Dec, At, Goto, Fits
  <2>2. Others(t)
    BY <1>1, <1>12 DEF ThreadStep
  <2>3. Resetting' = {} /\ count + Cardinality(Owed) = Cardinality(Counted) + Cardinality(Due)
    BY <1>8, <2>1, <2>2
  <2>4. Dues(t) /\ ~Owes(t)' /\ ~Owes(t) /\ ~Dues(t)'
    BY <2>1 DEF Owes, Dues
  <2>5. Due = Due' \cup {t} /\ t \notin Due' /\ Owed' = Owed /\ Counted' = Counted
    BY <1>2, <2>1, <2>2, <2>4 DEF Owed, Due, Counted
  <2>6. Cardinality(Due) = Cardinality(Due') + 1
    BY <2>5, OneElementMore, CountedFiniteNext
  <2>7. QED
    BY <1>0, <2>1, <2>3, <2>5, <2>6, CountedFinite, CountedFiniteNext
<1>13. ASSUME NEW t \in Threads, ClearEntries(t) PROVE CountInv'
  <2> SUFFICES ASSUME ~cut'
               PROVE  /\ Resetting' = {} =>
                           count' + Cardinality(Owed') = Cardinality(Counted') + Cardinality(Due')
                      /\ Resetting' # {} => Counted' = {} /\ Updating' = {}
    BY DEF CountInv
  <2>1. t \in Resetting' /\ Counted' = {} /\ restarts' = restarts
    BY <1>0, <1>13 DEF ClearEntries, Goto, Resetting, Counted, rest, calls
  <2>2. QED
    BY <1>3, <2>1
<1>14. ASSUME NEW t \in Threads, ZeroCount(t) PROVE CountInv'
  <2> SUFFICES ASSUME ~cut'
               PROVE  /\ Resetting' = {} =>
                           count' + Cardinality(Owed') = Cardinality(Counted') + Cardinality(Due')
                      /\ Resetting' # {} => Counted' = {} /\ Updating' = {}
    BY DEF CountInv
  <2>1. /\ t \in Resetting /\ pc'[t] = "idle" /\ count' = 0
        /\ entries' = entries /\ restarts' = restarts
    BY <1>0, <1>14 DEF ZeroCount, At, End, Goto, Resetting, calls
  <2>2. Others(t)
    BY <1>1, <1>14 DEF ThreadStep
  <2>3. Counted = {} /\ Updating = {}
    BY <1>3, <1>4, <2>1
  <2>4. Counted' = {}
    BY <2>1, <2>3 DEF Counted
  <2>5. \A u \in Threads : ~Owes(u)' /\ ~Dues(u)'
    <3>1. \A u \in Threads : ~Owes(u) /\ ~Dues(u)
      BY <2>3 DEF Updating, Owes, Dues
    <3>2. ~Owes(t)' /\ ~Dues(t)'
      BY <2>1 DEF Owes, Dues
    <3>3. QED
      BY <1>2, <2>2, <3>1, <3>2
  <2>6. Owed' = {} /\ Due' = {}
    BY <2>5 DEF Owed, Due
  <2>7. QED
    BY <1>3, <2>1, <2>4, <2>6, FS_EmptySet
<1>15. ASSUME Restart PROVE CountInv'
  <2>1. Owed' = {} /\ Due' = {} /\ Resetting' = {}
    BY <1>15 DEF Restart, Owed, Due, Owes, Dues, Resetting
  <2>2. Counted' = OnDisk /\ count' = Cardinality(OnDisk)
    BY <1>15 DEF Restart, Counted, OnDisk
  <2>3. QED
    BY <2>1, <2>2, FS_EmptySet, CountedFiniteNext DEF CountInv
<1>16. ASSUME NEW k \in Keys, HotDrops(k) PROVE CountInv'
  <2>1. pc' = pc /\ reg' = reg /\ entries' = entries /\ count' = count /\ restarts' = restarts
    BY <1>16 DEF HotDrops, ledger, calls
  <2>2. Owed' = Owed /\ Due' = Due /\ Counted' = Counted /\ Resetting' = Resetting
    BY <2>1 DEF Owed, Due, Owes, Dues, Counted, Resetting
  <2>3. QED
    BY <1>3, <1>4, <2>1, <2>2 DEF CountInv
<1>17. ASSUME NEW t \in Threads, Operation(t) \/ EvictToFit(t) \/ ThreadStep(t),
              ~Insert(t), ~Inc(t), ~Unmap(t), ~Dec(t), ~ClearEntries(t), ~ZeroCount(t)
       PROVE  CountInv'
  BY <1>1, <1>7, <1>17, SteadySteps
<1>18. QED
  BY <1>9, <1>10, <1>11, <1>12, <1>13, <1>14, <1>15, <1>16, <1>17 DEF Next, Step

-----------------------------------------------------------------------------
CacheInv == ShapeInv /\ EvictInv /\ MakeInv /\ CountInv

\* Steps that change nothing.
LEMMA StutterCache == CacheInv /\ UNCHANGED vars => CacheInv'
<1> SUFFICES ASSUME CacheInv, UNCHANGED vars PROVE CacheInv'
  OBVIOUS
<1> USE DEF vars, disk, ledger, rest, calls, marks
<1>1. ShapeInv'
  BY DEF CacheInv, ShapeInv, TypeInv
<1>2. EvictInv' /\ MakeInv'
  BY DEF CacheInv, EvictInv, MakeInv, Evicts, Makes
<1>3. CountInv'
  BY DEF CacheInv, CountInv, Resetting, Updating, Counted, Owed, Due, Owes, Dues
<1>4. QED
  BY <1>1, <1>2, <1>3 DEF CacheInv

\* The inductive invariant of the cache and its ledger.
THEOREM CacheInductive == Spec => []CacheInv
<1>1. Init => CacheInv
  BY InitShape, InitFlags, InitCount DEF CacheInv
<1>2. CacheInv /\ [Next]_vars => CacheInv'
  <2>1. CacheInv /\ Next => CacheInv'
    BY NextShape, NextFlags, NextCount DEF CacheInv, Next
  <2>2. QED
    BY <2>1, StutterCache
<1>3. QED
  BY <1>1, <1>2, PTL DEF Spec

\* evict_to_fit and ensure_disk_space: whatever the threads do, at most one of
\* them evicts and at most one makes room, and each flag is up exactly as long.
THEOREM EvictorsAlone == Spec => []OneEvictor
<1>1. CacheInv => OneEvictor
  <2> SUFFICES ASSUME EvictInv, MakeInv PROVE OneEvictor
    BY DEF CacheInv
  <2> DEFINE E == {t \in Threads : reg[t].op = "evict"}
             P == {t \in Threads : reg[t].op = "put" /\ pc[t] \in
                     {"walk", "loop", "unlink", "untrack", "unmap", "free", "dec"}}
  <2>1. evicting = \E t \in Threads : reg[t].op = "evict"
    BY Zenon DEF EvictInv, Evicts
  <2>2. Cardinality(E) <= 1
    <3>1. CASE E = {}
      BY <3>1, FS_EmptySet
    <3>2. CASE E # {}
      <4>1. PICK t : E = {t}
        BY <3>2 DEF EvictInv, Evicts
      <4>2. QED
        BY <4>1, FS_Singleton
    <3>3. QED
      BY <3>1, <3>2
  <2>3. Cardinality(P) = IF making THEN 1 ELSE 0
    <3>1. CASE ~making
      <4>1. P = {}
        BY <3>1 DEF MakeInv, Makes, MakingLabels
      <4>2. QED
        BY <3>1, <4>1, FS_EmptySet
    <3>2. CASE making
      <4>1. PICK t : P = {t}
        BY <3>2 DEF MakeInv, Makes, MakingLabels
      <4>2. QED
        BY <3>2, <4>1, FS_Singleton
    <3>3. QED
      BY <3>1, <3>2
  <2>4. QED
    BY <2>1, <2>2, <2>3 DEF OneEvictor
<1>2. QED
  BY <1>1, CacheInductive, PTL

\* record_write, record_remove and the resets: however they interleave, on
\* whatever keys, item_count is the number of entries up to the updates under
\* way, unless a reset has overlapped one of them.
THEOREM CountsEntries == Spec => []CountExact
<1>1. CacheInv => CountExact
  BY DEF CacheInv, CountInv, CountExact, Owed, Due, Owes, Dues
<1>2. QED
  BY <1>1, CacheInductive, PTL

-----------------------------------------------------------------------------
(* The bounds of the two byte counts *)

Largest == Max({Size[v] : v \in Objects})

\* The operations that may write, and have not come further than the labels L.
Pending(L) == {t \in Threads : reg[t].op \in {"put", "meta"} /\ pc[t] \notin L}
Written == {"track", "insert", "sub", "add", "inc", "check"}
Tracked == {"insert", "sub", "add", "inc", "check"}
Added == {"inc", "check"}

\* x is no more than what n writes can amount to, and there have been n at most
\* that are past the labels L.
Within(x, L) == \E n \in Nat : x <= Largest * n /\ n + Cardinality(Pending(L)) <= ops

\* The files that there are, temporary ones without a writer included.
Held == Cardinality(OnDisk) + Cardinality(stray)

BoundInv ==
  /\ IsFiniteSet(stray)
  /\ total \in Nat /\ bytes \in Nat /\ spawned \in Nat /\ located \subseteq Counted
  /\ ops \in Nat /\ ops <= MaxOp
  /\ Held + Cardinality(Pending(Written)) <= ops
  /\ Within(total, Tracked) /\ Within(bytes, Added)

\* No object is larger than the largest.
LEMMA LargestFacts == Largest \in Nat /\ \A v \in Maybe : Bytes(v) \in 0..Largest
<1>1. \A v \in Objects : Size[v] \in Nat
  BY CacheAssumption
<1>2. PICK m \in Objects : \A v \in Objects : Size[v] <= Size[m]
  <2>1. \A v \in Objects : Size[v] \in Int
    BY <1>1
  <2>2. QED
    BY <2>1, CacheAssumption, LargestExists
<1> DEFINE S == {Size[v] : v \in Objects}
<1>3. Size[m] \in S /\ \A y \in S : Size[m] >= y
  BY <1>1, <1>2
<1>4. Max(S) \in S /\ \A y \in S : Max(S) >= y
  BY <1>3 DEF Max
<1>5. \A v \in Objects : Size[v] <= Largest
  BY <1>1, <1>4 DEF Largest
<1>6. Largest \in Nat
  BY <1>1, <1>4 DEF Largest
<1>7. QED
  BY <1>1, <1>5, <1>6 DEF Maybe, Bytes

\* What is on disk is no more than as many objects.
LEMMA TotalBound ==
  ASSUME NEW m \in [Keys -> Maybe]
  PROVE  /\ Total(m) \in Nat
         /\ Total(m) <= Largest * Cardinality({k \in Keys : m[k] # None})
<1> DEFINE f == [k \in Keys |-> Bytes(m[k])]
           R == {k \in Keys : m[k] # None}
<1>1. IsFiniteSet(Keys) /\ IsFiniteSet(R) /\ R \in SUBSET Keys
  BY CacheAssumption, FS_Subset
<1>2. \A k \in Keys : f[k] \in Int /\ f[k] \in Nat /\ f[k] \in 0..Largest
  BY LargestFacts
<1>3. \A k \in Keys \ R : f[k] = 0
  BY DEF Bytes
<1>4. Total(m) = SumFunctionOnSet(f, Keys)
  BY DEF Total, SumFunction
<1> HIDE DEF f
<1>5. SumFunctionOnSet(f, Keys) = SumFunctionOnSet(f, R)
  <2> HIDE DEF R
  <2>1. QED
    BY <1>1, <1>2, <1>3, SumZeros
<1>6. SumFunctionOnSet(f, Keys) \in Nat
  BY <1>1, <1>2, SumNat
<1>7. SumFunctionOnSet(f, R) <= Largest * Cardinality(R)
  <2>1. \A k \in R : f[k] \in 0..Largest
    BY <1>2
  <2> HIDE DEF R
  <2>2. QED
    BY <1>1, <2>1, LargestFacts, SumBound
<1>8. QED
  BY <1>4, <1>5, <1>6, <1>7

\* So with the temporary files.
LEMMA LitterBound ==
  ASSUME NEW S \in SUBSET (Nat \X Objects), IsFiniteSet(S)
  PROVE  Litter(S) \in Nat /\ Litter(S) <= Largest * Cardinality(S)
<1> DEFINE f == [x \in S |-> Bytes(x[2])]
<1>1. \A x \in S : f[x] \in Nat /\ f[x] \in 0..Largest
  <2>1. \A x \in S : x[2] \in Maybe
    BY DEF Maybe
  <2>2. QED
    BY <2>1, LargestFacts
<1>2. Litter(S) = SumFunctionOnSet(f, S)
  BY DEF Litter, SumFunction
<1> HIDE DEF f
<1>3. QED
  BY <1>1, <1>2, LargestFacts, SumNat, SumBound

\* At most one element more.
LEMMA OneMoreAtMost ==
  ASSUME NEW S, IsFiniteSet(S), NEW x, NEW T, T \subseteq S \cup {x}
  PROVE  IsFiniteSet(T) /\ Cardinality(T) \in Nat /\ Cardinality(T) <= Cardinality(S) + 1
<1>1. IsFiniteSet(S \cup {x})
  BY FS_AddElement
<1>2. /\ Cardinality(S \cup {x}) <= Cardinality(S) + 1 /\ Cardinality(S \cup {x}) \in Nat
      /\ Cardinality(S) \in Nat
  <2>1. CASE x \in S
    <3>1. S \cup {x} = S
      BY <2>1
    <3>2. Cardinality(S) \in Nat
      BY FS_CardinalityType
    <3>3. QED
      BY <3>1, <3>2
  <2>2. CASE x \notin S
    BY <1>1, <2>2, OneElementMore, FS_CardinalityType
  <2>3. QED
    BY <2>1, <2>2
<1>3. QED
  BY <1>1, <1>2, FS_Subset, FS_CardinalityType

\* The pending operations are finitely many.
LEMMA PendingFinite ==
  ASSUME NEW L
  PROVE  /\ IsFiniteSet(Pending(L)) /\ Cardinality(Pending(L)) \in Nat
         /\ IsFiniteSet(Pending(L)') /\ Cardinality(Pending(L)') \in Nat
<1>1. Pending(L) \subseteq Threads /\ Pending(L)' \subseteq Threads
  BY DEF Pending
<1>2. QED
  BY <1>1, CacheAssumption, FS_Subset, FS_CardinalityType

\* A step of thread t begins an operation, or takes none back.
Pays(t) ==
  \/ ops' = ops + 1 /\ ops' <= MaxOp /\ pc[t] = "idle"
  \/ ops' = ops /\ \A L \in {Written, Tracked, Added} : t \in Pending(L)' => t \in Pending(L)

LEMMA PaySteps ==
  ASSUME ShapeInv, ops \in Nat, NEW t \in Threads, Operation(t) \/ EvictToFit(t) \/ ThreadStep(t)
  PROVE  Pays(t)
<1> USE DEF disk, ledger, rest, calls, marks, At, Goto, Stay
<1>0. /\ pc \in [Threads -> Labels] /\ reg \in [Threads -> Reg]
      /\ reg[t] \in Reg /\ Fits(pc[t], reg[t])
  BY DEF ShapeInv, TypeInv
<1>a. ASSUME ops' = ops,
             \/ reg'[t].op \notin {"put", "meta"}
             \/ /\ reg[t].op \in {"put", "meta"}
                /\ \A L \in {Written, Tracked, Added} : pc[t] \in L => pc'[t] \in L
      PROVE  Pays(t)
  BY <1>a DEF Pays, Pending
<1>b. ASSUME End(t), ops' = ops PROVE Pays(t)
  <2>1. reg'[t].op = "none"
    BY <1>0, <1>b DEF End, Register
  <2>2. QED
    BY <1>a, <1>b, <2>1
<1>c. ASSUME NEW op, Called(op), pc[t] = "idle" PROVE Pays(t)
  BY <1>c, CacheAssumption DEF Called, Pays
<1>1. CASE Operation(t)
  <2>1. ASSUME NEW op, NEW l, NEW r, Call(t, op, l, r) PROVE Pays(t)
    BY <1>c, <2>1 DEF Call
  <2>2. ASSUME NEW k \in Keys, Put(t, k) PROVE Pays(t)
    BY <1>c, <2>2 DEF Put
  <2>3. QED
    BY <1>1, <2>1, <2>2 DEF Operation, UpdateMeta, Get, Remove, PurgeUrls, Clear,
       PurgeNamespace, PurgeDomain, Walks
<1>2. CASE EvictToFit(t)
  <2>1. ops' = ops /\ pc[t] = "idle" /\ reg[t].op = "none"
    BY <1>0, <1>2 DEF EvictToFit, Fits
  <2>2. reg'[t].op \in {"none", "evict"}
    BY <1>0, <1>2, <2>1 DEF EvictToFit, Reg
  <2>3. QED
    BY <1>a, <2>1, <2>2
<1> USE DEF Written, Tracked, Added
<1>3. CASE Space(t)
  <2>1. ops' = ops /\ pc[t] = "space" /\ reg[t].op = "put"
    BY <1>0, <1>3 DEF Space, Fits
  <2>2. End(t) \/ pc'[t] \in {"walk", "write"}
    BY <1>0, <1>3 DEF Space
  <2>3. QED
    BY <1>a, <1>b, <2>1, <2>2
<1>4. CASE Write(t) \/ Rename(t)
  <2>1. ops' = ops /\ pc[t] \in {"write", "rename"} /\ reg[t].op = "put"
    BY <1>0, <1>4 DEF Write, Rename, Fits
  <2>2. End(t) \/ pc'[t] \in {"rename", "track"}
    BY <1>0, <1>4 DEF Write, Rename
  <2>3. QED
    BY <1>a, <1>b, <2>1, <2>2
<1>5. CASE Track(t) \/ Sub(t) \/ Add(t) \/ Inc(t)
  <2>1. /\ ops' = ops /\ pc[t] \in {"track", "sub", "add", "inc"} /\ reg[t].op = "put"
        /\ pc[t] = "track" => pc'[t] = "insert"
        /\ pc[t] = "sub" => pc'[t] = "add"
        /\ pc[t] \in {"add", "inc"} => pc'[t] \in {"inc", "check"}
    BY <1>0, <1>5 DEF Track, Sub, Add, Inc, Fits
  <2>2. QED
    BY <1>a, <2>1
<1>6. CASE Insert(t)
  <2>1. ops' = ops /\ pc[t] = "insert" /\ reg[t].op = "put" /\ pc'[t] \in {"add", "sub"}
    BY <1>0, <1>6 DEF Insert, Fits
  <2>2. QED
    BY <1>a, <2>1
<1>7. CASE Check(t) \/ ZeroCount(t)
  BY <1>b, <1>7 DEF Check, ZeroCount
<1>8. CASE Revalidated(t)
  <2>1. ops' = ops /\ pc[t] = "revalidated" /\ reg[t].op = "meta"
    BY <1>0, <1>8 DEF Revalidated, Fits
  <2>2. End(t) \/ pc'[t] = "space"
    BY <1>0, <1>8 DEF Revalidated, BeginPut
  <2>3. QED
    BY <1>a, <1>b, <2>1, <2>2
<1>9. CASE Read(t)
  <2>1. ops' = ops /\ pc[t] = "read"
    BY <1>9 DEF Read
  <2>2. End(t) \/ (reg[t].op = "meta" /\ pc'[t] = "revalidated")
    BY <1>0, <1>9 DEF Read
  <2>3. QED
    BY <1>a, <1>b, <2>1, <2>2
<1>10. CASE Walk(t) \/ Candidates(t) \/ Pick(t) \/ Unmap(t)
  <2>1. /\ ops' = ops /\ pc[t] \in {"walk", "candidates", "loop", "unmap"}
    BY <1>10 DEF Walk, Candidates, Pick, Unmap
  <2>2. reg'[t].op = reg[t].op
    <3>1. ASSUME NEW x, reg' = [reg EXCEPT ![t].todo = x] PROVE reg'[t].op = reg[t].op
      BY <1>0, <3>1 DEF Reg
    <3>2. CASE Walk(t) \/ Candidates(t)
      BY <3>1, <3>2 DEF Walk, Candidates
    <3>3. CASE Pick(t)
      BY <1>0, <3>3 DEF Pick, Reg
    <3>4. CASE Unmap(t)
      BY <1>0, <3>4 DEF Unmap, Reg
    <3>5. QED
      BY <1>10, <3>2, <3>3, <3>4
  <2>3. QED
    BY <1>a, <2>1, <2>2
<1>11. CASE Unlink(t) \/ Untrack(t) \/ Unheat(t) \/ Free(t) \/ Dec(t)
            \/ ClearEntries(t) \/ ZeroBytes(t)
  <2>1. /\ ops' = ops /\ reg' = reg
        /\ pc[t] \in {"unlink", "untrack", "unheat", "free", "dec", "clear", "zerobytes"}
    BY <1>11 DEF Unlink, Untrack, Unheat, Free, Dec, ClearEntries, ZeroBytes
  <2>2. QED
    BY <1>a, <2>1
<1>12. CASE Finish(t)
  <2>1. ops' = ops /\ pc[t] = "loop"
    BY <1>12 DEF Finish
  <2>2. End(t) \/ reg' = reg
    BY <1>12 DEF Finish
  <2>3. QED
    BY <1>a, <1>b, <2>1, <2>2
<1>13. CASE Corrupt(t)
  <2>1. ops' = ops /\ reg'[t].op = "discard"
    BY <1>0, <1>13 DEF Corrupt, Register
  <2>2. QED
    BY <1>a, <2>1
<1>14. CASE UnlinkTemporary(t) \/ UntrackTemporary(t) \/ FreeTemporary(t)
  <2>1. ops' = ops /\ reg[t].op = "sweep"
    BY <1>0, <1>14 DEF UnlinkTemporary, UntrackTemporary, FreeTemporary, Fits
  <2>2. reg'[t].op = reg[t].op
    BY <1>0, <1>14 DEF UnlinkTemporary, UntrackTemporary, FreeTemporary, Reg
  <2>3. QED
    BY <1>a, <2>1, <2>2
<1>15. QED
  BY <1>1, <1>2, <1>3, <1>4, <1>5, <1>6, <1>7, <1>8, <1>9, <1>10, <1>11, <1>12, <1>13, <1>14
     DEF ThreadStep

\* How the step changes who is pending.
LEMMA PendingSteps ==
  ASSUME ShapeInv, ops \in Nat, NEW t \in Threads, Others(t), Pays(t),
         NEW L \in {Written, Tracked, Added}
  PROVE  /\ ops' \in Nat /\ ops <= ops'
         /\ Cardinality(Pending(L)') - ops' <= Cardinality(Pending(L)) - ops
<1>0. \A u \in Threads \ {t} : u \in Pending(L)' <=> u \in Pending(L)
  BY DEF Others, Pending
<1>f. /\ IsFiniteSet(Pending(L)) /\ Cardinality(Pending(L)) \in Nat
      /\ IsFiniteSet(Pending(L)') /\ Cardinality(Pending(L)') \in Nat
  BY PendingFinite
<1>s. Pending(L) \subseteq Threads /\ Pending(L)' \subseteq Threads
  BY DEF Pending
<1>1. CASE ops' = ops + 1 /\ pc[t] = "idle"
  <2>1. t \notin Pending(L)
    BY <1>1 DEF ShapeInv, Fits, Pending
  <2>2. Pending(L)' = Pending(L) \/ Pending(L)' = Pending(L) \cup {t}
    BY <1>0, <1>s, <2>1
  <2>3. Cardinality(Pending(L)') <= Cardinality(Pending(L)) + 1
    BY <1>f, <2>1, <2>2, OneElementMore
  <2>4. QED
    BY <1>1, <1>f, <2>3
<1>2. CASE ops' = ops /\ (t \in Pending(L)' => t \in Pending(L))
  <2>1. Pending(L)' \subseteq Pending(L)
    BY <1>0, <1>2, <1>s
  <2>2. Cardinality(Pending(L)') <= Cardinality(Pending(L))
    BY <1>f, <2>1, FS_Subset
  <2>3. QED
    BY <1>2, <1>f, <2>2
<1>3. QED
  BY <1>1, <1>2 DEF Pays

\* saturating_sub: never below nothing, and never more than there was.
LEMMA LessFacts ==
  ASSUME NEW a \in Nat, NEW b \in Nat
  PROVE  Less(a, b) \in Nat /\ Less(a, b) <= a /\ a <= Less(a, b) + b
BY DEF Less

\* A step that writes nothing and counts no more than before.
Shrinks ==
  /\ total' \in Nat /\ total' <= total /\ bytes' \in Nat /\ bytes' <= bytes
  /\ OnDisk' \subseteq OnDisk /\ stray' \subseteq stray

LEMMA ShrinkSteps ==
  ASSUME ShapeInv, BoundInv, NEW t \in Threads, Operation(t) \/ EvictToFit(t) \/ ThreadStep(t),
         ~Write(t), ~Rename(t), ~Track(t), ~Add(t)
  PROVE  Shrinks
<1> USE DEF disk, ledger, rest, calls, marks
<1>0. /\ total \in Nat /\ bytes \in Nat /\ reg[t] \in Reg /\ Fits(pc[t], reg[t])
      /\ file \in [Keys -> Maybe]
  BY DEF ShapeInv, TypeInv, BoundInv
<1>a. ASSUME UNCHANGED <<file, stray, total, bytes>> PROVE Shrinks
  BY <1>0, <1>a DEF Shrinks, OnDisk
<1>1. CASE Operation(t)
  <2>1. UNCHANGED <<file, stray, total, bytes>>
    BY <1>1 DEF Operation, Put, UpdateMeta, Get, Remove, PurgeUrls, Clear, PurgeNamespace,
                PurgeDomain, Walks
  <2>2. QED
    BY <1>a, <2>1
<1>2. CASE EvictToFit(t)
  BY <1>a, <1>2 DEF EvictToFit
<1>3. CASE Space(t) \/ Insert(t) \/ Inc(t) \/ Check(t) \/ Revalidated(t) \/ Read(t)
           \/ Corrupt(t)
  BY <1>a, <1>3 DEF Space, Insert, Inc, Check, Revalidated, Read, Corrupt
<1>4. CASE Walk(t) \/ Candidates(t) \/ Pick(t) \/ Unheat(t) \/ Unmap(t) \/ Dec(t) \/ Finish(t)
           \/ ClearEntries(t) \/ ZeroCount(t)
  BY <1>a, <1>4 DEF Walk, Candidates, Pick, Unheat, Unmap, Dec, Finish, ClearEntries, ZeroCount
<1>5. CASE Sub(t)
  <2>1. Bytes(reg[t].prev) \in Nat
    BY <1>0, ObjectFacts DEF Reg
  <2>2. bytes' = Less(bytes, Bytes(reg[t].prev)) /\ UNCHANGED <<file, stray, total>>
    BY <1>5 DEF Sub
  <2>3. QED
    BY <1>0, <2>1, <2>2, LessFacts DEF Shrinks, OnDisk
<1>6. CASE Free(t)
  <2>1. reg[t].len \in Nat
    BY <1>0 DEF Reg
  <2>2. bytes' = Less(bytes, reg[t].len) /\ UNCHANGED <<file, stray, total>>
    BY <1>6 DEF Free
  <2>3. bytes' \in Nat /\ bytes' <= bytes
    BY <1>0, <2>1, <2>2, LessFacts
  <2>4. QED
    BY <1>0, <2>2, <2>3 DEF Shrinks, OnDisk
<1>7. CASE Untrack(t)
  <2>1. reg[t].len \in Nat
    BY <1>0 DEF Reg
  <2>2. total' = Less(total, reg[t].len) /\ UNCHANGED <<file, stray, bytes>>
    BY <1>7 DEF Untrack
  <2>3. total' \in Nat /\ total' <= total
    BY <1>0, <2>1, <2>2, LessFacts
  <2>4. QED
    BY <1>0, <2>2, <2>3 DEF Shrinks, OnDisk
<1>8. CASE Unlink(t)
  <2>1. UNCHANGED <<stray, total, bytes>>
    BY <1>8 DEF Unlink
  <2>2. file' = file \/ file' = [file EXCEPT ![reg[t].victim] = None]
    BY <1>8 DEF Unlink
  <2>3. QED
    BY <1>0, <2>1, <2>2 DEF Shrinks, OnDisk
<1>9. CASE ZeroBytes(t)
  <2>1. bytes' = 0 /\ UNCHANGED <<file, stray, total>>
    BY <1>9 DEF ZeroBytes
  <2>2. QED
    BY <1>0, <2>1 DEF Shrinks, OnDisk
<1>10. CASE UnlinkTemporary(t)
  BY <1>0, <1>10 DEF UnlinkTemporary, Shrinks, OnDisk
<1>11. CASE UntrackTemporary(t)
  <2>1. reg[t].len \in Nat
    BY <1>0 DEF Reg
  <2>2. total' = Less(total, reg[t].len) /\ UNCHANGED <<file, stray, bytes>>
    BY <1>11 DEF UntrackTemporary
  <2>3. QED
    BY <1>0, <2>1, <2>2, LessFacts DEF Shrinks, OnDisk
<1>12. CASE FreeTemporary(t)
  <2>1. reg[t].len \in Nat
    BY <1>0 DEF Reg
  <2>2. bytes' = Less(bytes, reg[t].len) /\ UNCHANGED <<file, stray, total>>
    BY <1>12 DEF FreeTemporary
  <2>3. bytes' \in Nat /\ bytes' <= bytes
    BY <1>0, <2>1, <2>2, LessFacts
  <2>4. QED
    BY <1>0, <2>2, <2>3 DEF Shrinks, OnDisk
<1>13. QED
  BY <1>1, <1>2, <1>3, <1>4, <1>5, <1>6, <1>7, <1>8, <1>9, <1>10, <1>11, <1>12 DEF ThreadStep

\* The small parts of BoundInv.
LEMMA SmallSteps ==
  ASSUME ShapeInv, spawned \in Nat, located \subseteq Counted, Step
  PROVE  spawned' \in Nat /\ located' \subseteq Counted'
<1> USE DEF disk, ledger, rest, calls, marks
<1>0. entries \in [Keys -> Maybe] /\ (\A t \in Threads : reg[t] \in Reg /\ Fits(pc[t], reg[t]))
      /\ file \in [Keys -> Maybe] /\ None \notin Objects
  BY ObjectFacts DEF ShapeInv, TypeInv
<1>a. ASSUME spawned' \in Nat, UNCHANGED <<entries, located>>
      PROVE  spawned' \in Nat /\ located' \subseteq Counted'
  BY <1>a DEF Counted
<1>1. CASE \E t \in Threads : Operation(t)
  <2>1. UNCHANGED <<spawned, entries, located>>
    BY <1>1 DEF Operation, Put, UpdateMeta, Get, Remove, PurgeUrls, Clear, PurgeNamespace,
                PurgeDomain, Walks
  <2>2. QED
    BY <1>a, <2>1
<1>2. CASE \E t \in Threads : EvictToFit(t)
  <2>1. spawned' = spawned - 1 /\ spawned > 0 /\ UNCHANGED <<entries, located>>
    BY <1>2 DEF EvictToFit
  <2>2. spawned' \in Nat
    BY <2>1
  <2>3. QED
    BY <1>a, <2>1, <2>2
<1>3. ASSUME NEW t \in Threads, ThreadStep(t), ~Insert(t), ~Unmap(t), ~ClearEntries(t), ~Check(t)
      PROVE  spawned' \in Nat /\ located' \subseteq Counted'
  <2>1. UNCHANGED <<spawned, entries, located>>
    BY <1>3 DEF ThreadStep, Space, Write, Rename, Corrupt, UnlinkTemporary, UntrackTemporary,
                FreeTemporary, Track, Sub, Add, Inc, Revalidated, Read, Walk,
                Candidates, Pick, Unlink, Untrack, Unheat, Free, Dec, Finish, ZeroBytes, ZeroCount
  <2>2. QED
    BY <1>a, <2>1
<1>4. ASSUME NEW t \in Threads, Check(t) PROVE spawned' \in Nat /\ located' \subseteq Counted'
  BY <1>a, <1>4 DEF Check
<1>5. ASSUME NEW t \in Threads, Insert(t) PROVE spawned' \in Nat /\ located' \subseteq Counted'
  <2>1. /\ entries' = [entries EXCEPT ![reg[t].key] = reg[t].obj]
        /\ located' = located \ {reg[t].key} /\ UNCHANGED spawned
    BY <1>5 DEF Insert
  <2>2. QED
    BY <1>0, <2>1 DEF Counted
<1>6. ASSUME NEW t \in Threads, Unmap(t) PROVE spawned' \in Nat /\ located' \subseteq Counted'
  <2>1. /\ entries' = [entries EXCEPT ![reg[t].victim] = None]
        /\ located' = located \ {reg[t].victim} /\ UNCHANGED spawned
    BY <1>6 DEF Unmap
  <2>2. QED
    BY <1>0, <2>1 DEF Counted
<1>7. ASSUME NEW t \in Threads, ClearEntries(t)
      PROVE  spawned' \in Nat /\ located' \subseteq Counted'
  BY <1>7 DEF ClearEntries
<1>8. CASE \E k \in Keys : HotDrops(k)
  BY <1>a, <1>8 DEF HotDrops
<1>9. CASE Restart
  BY <1>9 DEF Restart, OnDisk, Counted
<1>10. QED
  BY <1>1, <1>2, <1>3, <1>4, <1>5, <1>6, <1>7, <1>8, <1>9 DEF Step

\* Room for what is counted.
LEMMA WithinKeeps ==
  ASSUME NEW L, NEW x \in Nat, NEW y \in Nat, y <= x, Within(x, L), ops \in Nat, ops' \in Nat,
         Cardinality(Pending(L)') - ops' <= Cardinality(Pending(L)) - ops
  PROVE  \E n \in Nat : y <= Largest * n /\ n + Cardinality(Pending(L)') <= ops'
<1>1. PICK n \in Nat : x <= Largest * n /\ n + Cardinality(Pending(L)) <= ops
  BY DEF Within
<1>2. Cardinality(Pending(L)) \in Nat /\ Cardinality(Pending(L)') \in Nat
  BY PendingFinite
<1>3. PICK p \in Nat : p = Largest * n
  BY LargestFacts
<1>4. y <= Largest * n
  BY <1>1, <1>3
<1>5. n + Cardinality(Pending(L)') <= ops'
  BY <1>1, <1>2
<1>6. QED
  BY <1>4, <1>5

LEMMA WithinGrows ==
  ASSUME NEW L, NEW x \in Nat, NEW y \in Nat, y <= x + Largest, Within(x, L),
         ops \in Nat, ops' = ops, NEW t \in Threads, Pending(L)' = Pending(L) \ {t}, t \in Pending(L)
  PROVE  \E n \in Nat : y <= Largest * n /\ n + Cardinality(Pending(L)') <= ops'
<1>1. PICK n \in Nat : x <= Largest * n /\ n + Cardinality(Pending(L)) <= ops
  BY DEF Within
<1>2. Cardinality(Pending(L)') = Cardinality(Pending(L)) - 1 /\ Cardinality(Pending(L)) \in Nat
  BY PendingFinite, FS_RemoveElement
<1>3. PICK p \in Nat : p = Largest * n
  BY LargestFacts
<1>4. Largest * (n + 1) = p + Largest /\ Largest \in Nat
  BY <1>3, LargestFacts
<1>5. y <= Largest * (n + 1)
  BY <1>1, <1>3, <1>4
<1>6. (n + 1) + Cardinality(Pending(L)') <= ops' /\ n + 1 \in Nat
  BY <1>1, <1>2
<1>7. QED
  BY <1>5, <1>6

\* Nothing is counted at first.
LEMMA InitBound == Init => BoundInv
<1> SUFFICES ASSUME Init PROVE BoundInv
  OBVIOUS
<1>1. /\ total = 0 /\ bytes = 0 /\ spawned = 0 /\ located = {} /\ ops = 0
      /\ OnDisk = {} /\ stray = {} /\ \A t \in Threads : reg[t].op = "none"
  BY DEF Init, OnDisk, Register
<1>2. \A L : Pending(L) = {}
  BY <1>1 DEF Pending
<1>3. Largest * 0 = 0 /\ Cardinality({}) = 0
  BY LargestFacts, FS_EmptySet
<1>4. \A L : Within(0, L)
  <2>1. \A L : 0 <= Largest * 0 /\ 0 + Cardinality(Pending(L)) <= ops
    BY <1>1, <1>2, <1>3
  <2>2. QED
    BY <2>1 DEF Within
<1>5. IsFiniteSet(stray) /\ Held + Cardinality(Pending(Written)) <= ops
  BY <1>1, <1>2, <1>3, FS_EmptySet DEF Held
<1>6. QED
  BY <1>1, <1>4, <1>5, CacheAssumption DEF BoundInv

\* Every step keeps the counts within what can have been written.
LEMMA NextBound == ASSUME ShapeInv, BoundInv, Step PROVE BoundInv'
<1> USE DEF disk, ledger, rest, calls, marks
<1>0. /\ total \in Nat /\ bytes \in Nat /\ spawned \in Nat /\ located \subseteq Counted
      /\ ops \in Nat /\ ops <= MaxOp /\ MaxOp \in Nat
      /\ Held + Cardinality(Pending(Written)) <= ops
      /\ Within(total, Tracked) /\ Within(bytes, Added)
      /\ stray \in SUBSET (Nat \X Objects) /\ IsFiniteSet(stray)
      /\ file \in [Keys -> Maybe] /\ pc \in [Threads -> Labels] /\ reg \in [Threads -> Reg]
  BY CacheAssumption DEF BoundInv, ShapeInv, TypeInv
<1>s. spawned' \in Nat /\ located' \subseteq Counted'
  BY <1>0, SmallSteps
<1>d. /\ IsFiniteSet(OnDisk) /\ IsFiniteSet(OnDisk') /\ Cardinality(OnDisk) \in Nat
      /\ Cardinality(OnDisk') \in Nat
  <2>1. OnDisk \subseteq Keys /\ OnDisk' \subseteq Keys
    BY DEF OnDisk
  <2>2. QED
    BY <2>1, CacheAssumption, FS_Subset, FS_CardinalityType
<1>e. Cardinality(stray) \in Nat
  BY <1>0, FS_CardinalityType
<1>1. ASSUME NEW t \in Threads, Operation(t) \/ EvictToFit(t) \/ ThreadStep(t) PROVE BoundInv'
  <2>o. Others(t)
    BY <1>1, OperationMoves, EvictMoves, PutMoves, RemovalMoves, MovedFacts
       DEF ThreadStep, Others
  <2>p. Pays(t)
    BY <1>0, <1>1, PaySteps
  <2>q. \A L \in {Written, Tracked, Added} :
          /\ ops' \in Nat /\ ops <= ops'
          /\ Cardinality(Pending(L)') - ops' <= Cardinality(Pending(L)) - ops
    BY <1>0, <2>o, <2>p, PendingSteps
  <2>r. ops' \in Nat /\ ops' <= MaxOp
    BY <1>0, <2>p, <2>q DEF Pays
  <2>f. \A L : Cardinality(Pending(L)) \in Nat /\ Cardinality(Pending(L)') \in Nat
    BY PendingFinite
  <2>a. ASSUME total' \in Nat, total' <= total PROVE Within(total, Tracked)'
    BY <1>0, <2>a, <2>q, <2>r, WithinKeeps DEF Within
  <2>b. ASSUME bytes' \in Nat, bytes' <= bytes PROVE Within(bytes, Added)'
    BY <1>0, <2>b, <2>q, <2>r, WithinKeeps DEF Within
  <2>c. ASSUME OnDisk' \subseteq OnDisk, stray' \subseteq stray
        PROVE  IsFiniteSet(stray') /\ Held' + Cardinality(Pending(Written)') <= ops'
    <3>1. Cardinality(OnDisk') <= Cardinality(OnDisk)
      BY <1>d, <2>c, FS_Subset
    <3>2. /\ IsFiniteSet(stray') /\ Cardinality(stray') \in Nat
          /\ Cardinality(stray') <= Cardinality(stray)
      BY <1>0, <2>c, FS_Subset, FS_CardinalityType
    <3>3. QED
      BY <1>0, <1>d, <1>e, <2>f, <2>q, <2>r, <3>1, <3>2 DEF Held
  <2>1. CASE ~Write(t) /\ ~Rename(t) /\ ~Track(t) /\ ~Add(t)
    <3>1. Shrinks
      BY <1>1, <2>1, ShrinkSteps
    <3>2. QED
      BY <1>s, <2>a, <2>b, <2>c, <2>r, <3>1 DEF Shrinks, BoundInv
  <2>2. CASE Write(t) \/ Rename(t)
    <3>1. UNCHANGED <<total, bytes, ops>>
      BY <2>2 DEF Write, Rename
    <3>2. CASE UNCHANGED <<file, stray>>
      <4>1. OnDisk' = OnDisk
        BY <3>2 DEF OnDisk
      <4>2. QED
        BY <1>0, <1>s, <2>a, <2>b, <2>c, <2>r, <3>1, <3>2, <4>1 DEF BoundInv
    <3>3. CASE pc'[t] = "track" \/ End(t)
      <4>1. \/ OnDisk' \subseteq OnDisk \cup {reg[t].key} /\ stray' = stray
            \/ OnDisk' = OnDisk /\ stray' \subseteq stray \cup {Temporary(t)}
        BY <1>0, <2>2 DEF Write, Rename, OnDisk
      <4>2. /\ IsFiniteSet(stray') /\ Cardinality(stray') \in Nat
            /\ Cardinality(OnDisk') + Cardinality(stray')
                 <= Cardinality(OnDisk) + Cardinality(stray) + 1
        <5>1. CASE OnDisk' \subseteq OnDisk \cup {reg[t].key} /\ stray' = stray
          <6>1. Cardinality(OnDisk') <= Cardinality(OnDisk) + 1
            BY <1>d, <5>1, OneMoreAtMost
          <6>2. QED
            BY <1>0, <1>d, <1>e, <5>1, <6>1
        <5>2. CASE OnDisk' = OnDisk /\ stray' \subseteq stray \cup {Temporary(t)}
          <6>1. /\ IsFiniteSet(stray') /\ Cardinality(stray') \in Nat
                /\ Cardinality(stray') <= Cardinality(stray) + 1
            BY <1>0, <5>2, OneMoreAtMost
          <6>2. QED
            BY <1>d, <1>e, <5>2, <6>1
        <5>3. QED
          BY <4>1, <5>1, <5>2
      <4>3. Pending(Written)' = Pending(Written) \ {t} /\ t \in Pending(Written)
        <5>1. pc[t] \in {"write", "rename"} /\ reg[t].op = "put"
          BY <2>2 DEF Write, Rename, At, ShapeInv, Fits
        <5>2. pc'[t] = "track" \/ reg'[t].op = "none"
          BY <1>0, <3>3 DEF End, Register
        <5>3. t \in Pending(Written) /\ t \notin Pending(Written)'
          BY <5>1, <5>2 DEF Pending, Written
        <5>4. \A u \in Threads \ {t} : u \in Pending(Written)' <=> u \in Pending(Written)
          BY <2>o DEF Pending, Others
        <5>5. Pending(Written) \subseteq Threads /\ Pending(Written)' \subseteq Threads
          BY DEF Pending
        <5>6. QED
          BY <5>3, <5>4, <5>5
      <4>4. Cardinality(Pending(Written)') = Cardinality(Pending(Written)) - 1
        BY <4>3, PendingFinite, FS_RemoveElement
      <4>5. Held' + Cardinality(Pending(Written)') <= ops'
        BY <1>0, <1>d, <1>e, <2>f, <3>1, <4>2, <4>4 DEF Held
      <4>6. QED
        BY <1>0, <1>s, <2>a, <2>b, <2>r, <3>1, <4>2, <4>5 DEF BoundInv
    <3>4. QED
      BY <1>0, <2>2, <3>2, <3>3 DEF Write, Rename, Goto
  <2>3. CASE Track(t)
    <3>1. /\ total' = Less(total, Bytes(reg[t].old)) + Bytes(reg[t].obj)
          /\ UNCHANGED <<file, stray, bytes, ops>> /\ Goto(t, "insert") /\ pc[t] = "track"
          /\ reg[t].op = "put" /\ reg[t] \in Reg
      BY <1>0, <2>3 DEF Track, At, ShapeInv, Fits
    <3>2. Bytes(reg[t].old) \in Nat /\ Bytes(reg[t].obj) \in 0..Largest
      BY <3>1, ObjectFacts, LargestFacts DEF Reg
    <3>3. total' \in Nat /\ total' <= total + Largest
      <4>1. PICK a \in Nat : a = Less(total, Bytes(reg[t].old)) /\ a <= total
        BY <1>0, <3>2, LessFacts
      <4>2. QED
        BY <1>0, <3>1, <3>2, <4>1, LargestFacts
    <3>4. Pending(Tracked)' = Pending(Tracked) \ {t} /\ t \in Pending(Tracked)
      <4>1. pc'[t] = "insert"
        BY <1>0, <3>1 DEF Goto
      <4>2. QED
        BY <2>o, <3>1, <4>1 DEF Pending, Others, Tracked
    <3>5. Within(total, Tracked)'
      BY <1>0, <3>1, <3>3, <3>4, WithinGrows DEF Within
    <3>6. OnDisk' = OnDisk
      BY <3>1 DEF OnDisk
    <3>7. QED
      BY <1>0, <1>s, <2>b, <2>c, <2>r, <3>1, <3>3, <3>5, <3>6 DEF BoundInv
  <2>4. CASE Add(t)
    <3>1. /\ bytes' = bytes + Bytes(reg[t].obj)
          /\ UNCHANGED <<file, stray, total, ops>> /\ pc[t] = "add"
          /\ (Goto(t, "inc") \/ Goto(t, "check")) /\ reg' = reg
          /\ reg[t].op = "put" /\ reg[t] \in Reg
      BY <1>0, <2>4 DEF Add, At, Stay, ShapeInv, Fits
    <3>2. Bytes(reg[t].obj) \in 0..Largest
      BY <3>1, LargestFacts DEF Reg
    <3>3. bytes' \in Nat /\ bytes' <= bytes + Largest
      BY <1>0, <3>1, <3>2, LargestFacts
    <3>4. Pending(Added)' = Pending(Added) \ {t} /\ t \in Pending(Added)
      <4>1. pc'[t] \in Added
        BY <1>0, <3>1 DEF Goto, Added
      <4>2. QED
        BY <2>o, <3>1, <4>1 DEF Pending, Others, Added
    <3>5. Within(bytes, Added)'
      BY <1>0, <3>1, <3>3, <3>4, WithinGrows DEF Within
    <3>6. OnDisk' = OnDisk
      BY <3>1 DEF OnDisk
    <3>7. QED
      BY <1>0, <1>s, <2>a, <2>c, <2>r, <3>1, <3>3, <3>5, <3>6 DEF BoundInv
  <2>5. QED
    BY <2>1, <2>2, <2>3, <2>4
<1>2. ASSUME NEW k \in Keys, HotDrops(k) PROVE BoundInv'
  <2>1. UNCHANGED <<file, stray, total, bytes, ops, pc, reg>>
    BY <1>2 DEF HotDrops
  <2>2. (\A L : Pending(L)' = Pending(L)) /\ OnDisk' = OnDisk
    BY <2>1 DEF Pending, OnDisk
  <2>3. QED
    BY <1>0, <1>s, <2>1, <2>2 DEF BoundInv, Within, Held
<1>3. CASE Restart
  <2> DEFINE W == {u \in Threads : At(u, "rename")}
             f == [u \in W |-> Temporary(u)]
             S == {Temporary(u) : u \in W}
  <2>1. /\ total' = Total(file) + Litter(stray') /\ bytes' = Total(file)
        /\ UNCHANGED <<file, ops>> /\ reg' = [t \in Threads |-> Register]
        /\ stray' = stray \cup S
    BY <1>3 DEF Restart
  <2>2. \A L : Pending(L)' = {}
    BY <2>1 DEF Pending, Register
  <2>3. OnDisk' = OnDisk /\ OnDisk = {k \in Keys : file[k] # None}
    BY <2>1 DEF OnDisk
  <2>4. Total(file) \in Nat /\ Total(file) <= Largest * Cardinality(OnDisk)
    BY <1>0, <2>3, TotalBound
  <2>5. \A L : Cardinality(Pending(L)') = 0
    BY <2>2, FS_EmptySet
  <2>w. W \subseteq Pending(Written)
    BY DEF At, Pending, Written, ShapeInv, Fits
  <2>f. /\ IsFiniteSet(W) /\ Cardinality(W) \in Nat
        /\ Cardinality(W) <= Cardinality(Pending(Written))
        /\ Cardinality(Pending(Written)) \in Nat
    BY <2>w, PendingFinite, FS_Subset, FS_CardinalityType
  <2>g. f \in Surjection(W, S)
    BY DEF Surjection
  <2> HIDE DEF f, S, W
  <2>s. IsFiniteSet(S) /\ Cardinality(S) \in Nat /\ Cardinality(S) <= Cardinality(W)
    BY <2>f, <2>g, FS_Surjection, FS_CardinalityType
  <2>u. /\ IsFiniteSet(stray') /\ Cardinality(stray') \in Nat
        /\ Cardinality(stray') <= Cardinality(stray) + Cardinality(S)
    <3>1. IsFiniteSet(stray \cap S) /\ Cardinality(stray \cap S) \in Nat
      BY <2>s, FS_Subset, FS_CardinalityType
    <3>2. /\ IsFiniteSet(stray \cup S) /\ Cardinality(stray \cup S) \in Nat
          /\ Cardinality(stray \cup S)
               = Cardinality(stray) + Cardinality(S) - Cardinality(stray \cap S)
      BY <1>0, <2>s, FS_Union, FS_CardinalityType
    <3>3. QED
      BY <1>e, <2>1, <2>s, <3>1, <3>2
  <2>6. Cardinality(OnDisk) + Cardinality(stray') <= ops
    BY <1>0, <1>d, <1>e, <2>f, <2>s, <2>u DEF Held
  <2>v. stray' \in SUBSET (Nat \X Objects)
    BY StateTypes
  <2>l. Litter(stray') \in Nat /\ Litter(stray') <= Largest * Cardinality(stray')
    <3>1. PICK T \in SUBSET (Nat \X Objects) : T = stray'
      BY <2>v
    <3>2. QED
      BY <2>u, <3>1, LitterBound
  <2>7. \A L : /\ Total(file) <= Largest * Cardinality(OnDisk)
               /\ Cardinality(OnDisk) + Cardinality(Pending(L)') <= ops'
    BY <1>0, <1>d, <2>1, <2>4, <2>5, <2>6, <2>u
  <2>8. Within(bytes, Added)'
    BY <1>d, <2>1, <2>7 DEF Within
  <2>9. Within(total, Tracked)'
    <3> DEFINE m == Cardinality(OnDisk) + Cardinality(stray')
    <3>1. PICK a \in Nat, b \in Nat, c \in Nat :
            a = Cardinality(OnDisk) /\ b = Cardinality(stray') /\ c = Largest
      BY <1>d, <2>u, LargestFacts
    <3>2. c * (a + b) = c * a + c * b /\ c * a \in Nat /\ c * b \in Nat
      BY <3>1
    <3>3. total' <= Largest * m /\ m \in Nat
      BY <2>1, <2>4, <2>l, <3>1, <3>2
    <3>4. m + Cardinality(Pending(Tracked)') <= ops'
      BY <1>0, <1>d, <2>1, <2>5, <2>6, <2>u
    <3>5. QED
      BY <3>3, <3>4 DEF Within
  <2>10. Held' + Cardinality(Pending(Written)') <= ops'
    BY <1>0, <1>d, <2>1, <2>3, <2>5, <2>6, <2>u DEF Held
  <2>11. QED
    BY <1>0, <1>s, <2>1, <2>4, <2>8, <2>9, <2>10, <2>l, <2>u DEF BoundInv
<1>4. QED
  BY <1>1, <1>2, <1>3 DEF Step

\* The byte counts are within the bound.
LEMMA BoundsHold == CacheInv /\ BoundInv => NeverWraps
<1> SUFFICES ASSUME CacheInv, BoundInv PROVE NeverWraps
  OBVIOUS
<1>1. ASSUME NEW x \in Nat, NEW L, Within(x, L) PROVE x \in 0..MaxOp * Largest
  <2>1. PICK n \in Nat : x <= Largest * n /\ n + Cardinality(Pending(L)) <= ops
    BY <1>1 DEF Within
  <2>2. n <= MaxOp /\ MaxOp \in Nat
    BY <2>1, PendingFinite, CacheAssumption DEF BoundInv
  <2>3. PICK d \in Nat : MaxOp = n + d
    <3>1. MaxOp - n \in Nat /\ MaxOp = n + (MaxOp - n)
      BY <2>2
    <3>2. QED
      BY <3>1
  <2>4. PICK m \in Nat : m = Largest
    BY LargestFacts
  <2>5. (n + d) * m = m * n + d * m /\ d * m \in Nat /\ m * n \in Nat
    OBVIOUS
  <2>6. QED
    BY <2>1, <2>3, <2>4, <2>5
<1>2. {total, bytes} \subseteq 0..MaxOp * Largest
  BY <1>1 DEF BoundInv
<1>3. {total, bytes} \subseteq 0..MaxOp * Max({Size[v] : v \in Objects})
  BY <1>2 DEF Largest
<1>4. {file, hot, entries} \subseteq [Keys -> Objects \cup {None}] /\ pc \in [Threads -> Labels]
  BY DEF CacheInv, ShapeInv, TypeInv, Maybe
<1>5. count \in Int /\ spawned \in Nat /\ located \subseteq Counted
  BY DEF CacheInv, ShapeInv, TypeInv, BoundInv
<1>6. {making, evicting} \subseteq BOOLEAN
  BY DEF CacheInv, EvictInv, MakeInv
<1>7. stray \subseteq Nat \X Objects
  BY DEF CacheInv, ShapeInv, TypeInv
<1>8. QED
  BY <1>3, <1>4, <1>5, <1>6, <1>7 DEF NeverWraps

\* A step that changes nothing keeps the bounds.
LEMMA StutterBound == BoundInv /\ UNCHANGED vars => BoundInv'
BY DEF BoundInv, Within, Held, Pending, OnDisk, Counted, vars, disk, ledger, rest, calls, marks

\* "must never wrap": whatever is removed twice or behind their back, the byte
\* counts of the backend and of the domain stay between nothing and all that was
\* ever written (NeverWraps), for any threads, keys and operations.
THEOREM CountsNeverWrap == Spec => []NeverWraps
<1>1. Init => BoundInv
  BY InitBound
<1>2. CacheInv /\ BoundInv /\ [Next]_vars => BoundInv'
  BY NextBound, StutterBound DEF CacheInv, Next
<1>3. QED
  BY <1>1, <1>2, CacheInductive, BoundsHold, PTL DEF Spec

-----------------------------------------------------------------------------
(* One operation at a time.  SerialLedgerExact speaks of the states between  *)
(* operations; what holds within one depends on where it is: the invariant   *)
(* is a statement of the ledger, the budget and the quota at every label.    *)

Purges == {"namespace", "domain"}

\* The keys that m has an object for, and the bytes of those in S.
Full(m) == {k \in Keys : m[k] # None}
Part(m, S) == SumFunctionOnSet([k \in Keys |-> Bytes(m[k])], S)

\* The entries are the files, except for that of key x.
Elsewhere(x) == \A k \in Keys : k # x => entries[k] = file[k]
\* The ledger counts the entries; the budget is not below the files and n more.
Tallied == bytes = Total(entries) /\ count = Cardinality(Full(entries))
Room(n) == ~netted => total >= Total(file) + n

\* The files a walk has listed and not come to, and the bytes of their entries.
TodoKeys(r) == {x[1] : x \in r.todo}
Listed(r) ==
  \A x \in r.todo :
    file[x[1]] # None /\ x[2] = IF r.op = "evict" THEN 0 ELSE Bytes(file[x[1]])
Left(r) == Part(entries, TodoKeys(r))

\* What the bytes of the domain are short of, and above, those of its files.
Missing(l, r) == IF l \in {"sub", "add"} THEN Bytes(r.obj) ELSE 0
Surplus(l, r) == IF l = "sub" THEN Bytes(r.prev) ELSE IF l = "free" THEN r.len ELSE 0
\* The same of the count.
Uncounted(l, r) == IF l = "inc" \/ (l = "add" /\ r.prev = None) THEN 1 ELSE 0
Overcounted(l, r) == IF l = "dec" \/ (l = "free" /\ r.prev # None) THEN 1 ELSE 0

\* The ledger while a put, an eviction or a sweep is at label l: a file that was
\* written or removed has still to be entered, or the counts to follow.
LedgerAt(l, r) ==
  /\ l \in {"track", "insert"} => Elsewhere(r.key) /\ file[r.key] = r.obj /\ Tallied
  /\ l \in {"untrack", "unmap"} =>
       /\ Elsewhere(r.victim) /\ file[r.victim] = None /\ Tallied
       /\ r.len = Bytes(entries[r.victim])
  /\ l \notin {"track", "insert", "untrack", "unmap"} =>
       /\ entries = file
       /\ bytes + Missing(l, r) = Total(file) + Surplus(l, r)
       /\ count + Uncounted(l, r) = Cardinality(Full(file)) + Overcounted(l, r)
  /\ l = "sub" => file[r.key] = r.obj
  /\ l = "unlink" => /\ r.len = Bytes(file[r.victim])
                     /\ r.op \in {"put", "sweep", "evict"} => file[r.victim] # None

\* The ledger while a purge is at label l, which resets it in the end.
PurgeAt(l, r) ==
  /\ \A k \in Keys : file[k] # None => k \in TodoKeys(r) \/ (l = "unlink" /\ k = r.victim)
  /\ l = "unlink" => file[r.victim] # None /\ r.len = Bytes(file[r.victim])
  /\ l \in {"clear", "zerobytes", "zerocount"} => \A k \in Keys : file[k] = None
  /\ l \in {"zerobytes", "zerocount"} => entries = file
  /\ l = "zerocount" => bytes = 0
  /\ l \notin {"unmap", "free", "dec"} /\ (l = "untrack" => r.op = "namespace")

\* The budget; and the file that a put has to replace, as long as it is there.
BudgetAt(l, r) ==
  /\ l = "track" => (~netted => total + Bytes(r.obj) >= Total(file) + Bytes(r.old))
  /\ l = "untrack" => Room(r.len)
  /\ l \notin {"track", "untrack"} => Room(0)
  /\ /\ r.op = "put" /\ ~netted
     /\ l \notin {"space", "track", "insert", "sub", "add", "inc", "check"}
     => file[r.key] = r.old

\* The quota: what is left to an eviction is enough.
QuotaAt(l, r) ==
  /\ r.op # "evict" /\ l \notin {"inc", "check"} /\ spawned = 0 /\ restarts = 0 => ~OverQuota
  /\ r.op = "evict" => Quota > 0
  /\ r.op = "evict" /\ l \in {"loop", "dec"} => bytes <= Quota + Left(r)
  /\ r.op = "evict" /\ l \in {"unlink", "untrack", "unmap"} =>
       bytes <= Quota + Left(r) + Bytes(entries[r.victim])
  /\ r.op = "evict" /\ l = "free" => bytes <= Quota + Left(r) + r.len

\* The list of a walk, from which what is at hand has been taken.
AtFile == {"unlink", "untrack", "unheat", "unmap", "free", "dec"}
ListAt(l, r) ==
  /\ l = "loop" \/ l \in AtFile => Listed(r) /\ r.op # "discard"
  /\ l \in AtFile => r.victim \notin TodoKeys(r)
  /\ l \notin {"untracktemp", "freetemp"}

SerialAt(l, r) ==
  /\ r.op \in Purges => PurgeAt(l, r)
  /\ r.op \notin Purges => LedgerAt(l, r)
  /\ BudgetAt(l, r) /\ QuotaAt(l, r) /\ ListAt(l, r)

\* The state while no two operations have overlapped, none has failed, and clear
\* has not come to a temporary file.
SerialInv ==
  ~overlapped /\ ~failed /\ ~Levels /\ ~swept =>
    /\ \A t, u \in Threads : pc[t] # "idle" /\ pc[u] # "idle" => t = u
    /\ Quiet => SerialAt("idle", Register)
    /\ \A t \in Threads : pc[t] # "idle" => SerialAt(pc[t], reg[t])

\* The bytes of a part.
LEMMA PartFacts ==
  ASSUME NEW m \in [Keys -> Maybe], NEW S \in SUBSET Keys
  PROVE  /\ Part(m, S) \in Nat /\ Part(m, {}) = 0 /\ Part(m, Keys) = Total(m)
         /\ \A x \in S : Part(m, S) = Bytes(m[x]) + Part(m, S \ {x})
<1> DEFINE f == [k \in Keys |-> Bytes(m[k])]
<1>1. IsFiniteSet(S)
  BY CacheAssumption, FS_Subset
<1>2. \A k \in S : f[k] \in Nat /\ f[k] \in Int /\ f[k] = Bytes(m[k])
  BY ObjectFacts
<1>3. Total(m) = SumFunctionOnSet(f, Keys)
  BY DEF Total, SumFunction
<1>4. \A T : Part(m, T) = SumFunctionOnSet(f, T)
  BY DEF Part
<1> HIDE DEF f
<1>5. SumFunctionOnSet(f, S) \in Nat
  BY <1>1, <1>2, SumNat
<1>6. \A x \in S : SumFunctionOnSet(f, S) = f[x] + SumFunctionOnSet(f, S \ {x})
  BY <1>1, <1>2, SumSplit
<1>7. SumFunctionOnSet(f, {}) = 0
  BY SumEmpty
<1>8. QED
  BY <1>2, <1>3, <1>4, <1>5, <1>6, <1>7

\* It depends on the objects of that part.
LEMMA PartSame ==
  ASSUME NEW m \in [Keys -> Maybe], NEW n \in [Keys -> Maybe], NEW S \in SUBSET Keys,
         \A k \in S : m[k] = n[k]
  PROVE  Part(m, S) = Part(n, S)
<1> DEFINE f == [k \in Keys |-> Bytes(m[k])]
           g == [k \in Keys |-> Bytes(n[k])]
<1>1. IsFiniteSet(S) /\ \A k \in S : f[k] = g[k]
  BY CacheAssumption, FS_Subset
<1>2. Part(m, S) = SumFunctionOnSet(f, S) /\ Part(n, S) = SumFunctionOnSet(g, S)
  BY DEF Part
<1> HIDE DEF f, g
<1>3. SumFunctionOnSet(f, S) = SumFunctionOnSet(g, S)
  BY <1>1, SumSame
<1>4. QED
  BY <1>2, <1>3

\* What has no object has no bytes.
LEMMA PartFull ==
  ASSUME NEW m \in [Keys -> Maybe] PROVE Part(m, Full(m)) = Total(m)
<1> DEFINE f == [k \in Keys |-> Bytes(m[k])]
           R == Full(m)
<1>1. IsFiniteSet(Keys) /\ \A k \in Keys : f[k] \in Int
  BY CacheAssumption, ObjectFacts
<1>2. R \in SUBSET Keys /\ \A k \in Keys \ R : f[k] = 0
  BY DEF Full, Bytes
<1>3. Total(m) = SumFunctionOnSet(f, Keys) /\ Part(m, R) = SumFunctionOnSet(f, R)
  BY DEF Total, SumFunction, Part
<1> HIDE DEF f, R
<1>4. SumFunctionOnSet(f, Keys) = SumFunctionOnSet(f, R)
  BY <1>1, <1>2, SumZeros
<1>5. QED
  BY <1>3, <1>4 DEF R

\* The sum that get_eviction_candidates takes.
LEMMA CoversPart ==
  ASSUME NEW S \in SUBSET Keys, entries \in [Keys -> Maybe]
  PROVE  Covers(S) <=> Part(entries, S) >= bytes - Quota
<1> DEFINE f == [k \in Keys |-> Bytes(entries[k])]
           g == [k \in S |-> Bytes(entries[k])]
<1>1. IsFiniteSet(S) /\ \A k \in S : f[k] = g[k]
  BY CacheAssumption, FS_Subset
<1>2. Part(entries, S) = SumFunctionOnSet(f, S) /\ SumFunction(g) = SumFunctionOnSet(g, S)
  BY DEF Part, SumFunction
<1>3. Covers(S) <=> SumFunction(g) >= bytes - Quota
  BY DEF Covers
<1> HIDE DEF f, g
<1>4. SumFunctionOnSet(f, S) = SumFunctionOnSet(g, S)
  BY <1>1, SumSame
<1>5. QED
  BY <1>2, <1>3, <1>4

\* Objects have bytes, None has none.
LEMMA BytesFacts == \A v \in Maybe : Bytes(v) \in Nat /\ (Bytes(v) = 0 <=> v = None)
BY CacheAssumption DEF None, Maybe, Bytes

\* No object is larger than all of them.
LEMMA TotalHas ==
  ASSUME NEW m \in [Keys -> Maybe], NEW x \in Keys
  PROVE  Total(m) \in Nat /\ Bytes(m[x]) \in Nat /\ Bytes(m[x]) <= Total(m)
<1>1. /\ Part(m, Keys) \in Nat /\ Part(m, Keys) = Total(m)
      /\ Part(m, Keys) = Bytes(m[x]) + Part(m, Keys \ {x})
  BY PartFacts
<1>2. Keys \ {x} \in SUBSET Keys
  OBVIOUS
<1>3. Part(m, Keys \ {x}) \in Nat
  BY <1>2, PartFacts
<1>4. Bytes(m[x]) \in Nat
  BY ObjectFacts
<1>5. QED
  BY <1>1, <1>3, <1>4

\* One object is replaced.
LEMMA TotalChange ==
  ASSUME NEW m \in [Keys -> Maybe], NEW n \in [Keys -> Maybe], NEW x \in Keys,
         \A k \in Keys : k # x => m[k] = n[k]
  PROVE  Total(n) + Bytes(m[x]) = Total(m) + Bytes(n[x])
<1>1. /\ Part(m, Keys) = Total(m) /\ Part(m, Keys) = Bytes(m[x]) + Part(m, Keys \ {x})
      /\ Part(n, Keys) = Total(n) /\ Part(n, Keys) = Bytes(n[x]) + Part(n, Keys \ {x})
  BY PartFacts
<1>2. Keys \ {x} \in SUBSET Keys
  OBVIOUS
<1>3. Part(m, Keys \ {x}) \in Nat /\ Part(m, Keys \ {x}) = Part(n, Keys \ {x})
  BY <1>2, PartFacts, PartSame
<1>4. Bytes(m[x]) \in Nat /\ Bytes(n[x]) \in Nat
  BY ObjectFacts
<1>5. PICK p \in Nat : p = Part(m, Keys \ {x}) /\ p = Part(n, Keys \ {x})
  BY <1>3
<1>6. Total(m) = Bytes(m[x]) + p /\ Total(n) = Bytes(n[x]) + p
  BY <1>1, <1>5
<1>7. QED
  BY <1>4, <1>6

\* The number of objects.
LEMMA FullFinite ==
  ASSUME NEW m PROVE IsFiniteSet(Full(m)) /\ Cardinality(Full(m)) \in Nat
<1>1. Full(m) \subseteq Keys
  BY DEF Full
<1>2. QED
  BY <1>1, CacheAssumption, FS_Subset, FS_CardinalityType

LEMMA FullRemoved ==
  ASSUME NEW m, NEW n, NEW x \in Keys, \A k \in Keys : k # x => m[k] = n[k], n[x] = None
  PROVE  Cardinality(Full(m)) = Cardinality(Full(n)) + IF m[x] # None THEN 1 ELSE 0
<1>1. IsFiniteSet(Full(m)) /\ Cardinality(Full(m)) \in Nat /\ Cardinality(Full(n)) \in Nat
  BY FullFinite
<1>2. Full(n) = Full(m) \ {x} /\ (x \in Full(m) <=> m[x] # None)
  BY DEF Full
<1>3. CASE m[x] = None
  <2>1. Full(n) = Full(m)
    BY <1>2, <1>3
  <2>2. QED
    BY <1>1, <1>3, <2>1
<1>4. CASE m[x] # None
  <2>1. Cardinality(Full(m) \ {x}) = Cardinality(Full(m)) - 1
    BY <1>1, <1>2, <1>4, FS_RemoveElement
  <2>2. QED
    BY <1>1, <1>2, <1>4, <2>1
<1>5. QED
  BY <1>3, <1>4

\* No objects at all.
LEMMA NoneFull ==
  ASSUME NEW m \in [Keys -> Maybe], \A k \in Keys : m[k] = None
  PROVE  Total(m) = 0 /\ Cardinality(Full(m)) = 0
<1>1. Full(m) = {}
  BY DEF Full
<1>2. {} \in SUBSET Keys
  OBVIOUS
<1>3. Part(m, {}) = 0
  BY <1>2, PartFacts
<1>4. QED
  BY <1>1, <1>3, PartFull, FS_EmptySet

\* Loading an entry anew.
LEMMA FullPut ==
  ASSUME NEW m, NEW n, NEW x \in Keys, \A k \in Keys : k # x => m[k] = n[k], n[x] # None
  PROVE  Cardinality(Full(n)) = Cardinality(Full(m)) + IF m[x] = None THEN 1 ELSE 0
<1>1. IsFiniteSet(Full(n)) /\ Cardinality(Full(m)) \in Nat /\ Cardinality(Full(n)) \in Nat
  BY FullFinite
<1>2. /\ x \in Full(n) /\ (m[x] # None => Full(n) = Full(m))
      /\ m[x] = None => Full(m) = Full(n) \ {x}
  BY DEF Full
<1>3. CASE m[x] # None
  <2>1. Full(n) = Full(m)
    BY <1>2, <1>3
  <2>2. QED
    BY <1>1, <1>3, <2>1
<1>4. CASE m[x] = None
  <2>1. Cardinality(Full(n) \ {x}) = Cardinality(Full(n)) - 1
    BY <1>1, <1>2, FS_RemoveElement
  <2>2. QED
    BY <1>1, <1>2, <1>4, <2>1
<1>5. QED
  BY <1>3, <1>4

\* A thread that is alone goes from label a to label l, and its registers from q
\* to r.
Goes(t, a, q, l, r) ==
  /\ a = pc[t] /\ q = reg[t] /\ l = pc'[t] /\ r = reg'[t]
  /\ pc \in [Threads -> Labels] /\ reg \in [Threads -> Reg]
  /\ q \in Reg /\ r \in Reg /\ Fits(a, q) /\ Fits(l, r) /\ l \in Labels
  /\ file \in [Keys -> Maybe] /\ file' \in [Keys -> Maybe]
  /\ entries \in [Keys -> Maybe] /\ entries' \in [Keys -> Maybe]
  /\ total \in Nat /\ bytes \in Nat /\ spawned \in Nat /\ count \in Int
  /\ restarts' = restarts /\ (netted => netted') /\ (OwnEvicted # {} => netted')
  /\ ~Levels /\ ~failed' /\ stray \subseteq stray'
  /\ SerialAt(a, q)

\* What the registers hold.
LEMMA RegTypes ==
  ASSUME NEW r \in Reg
  PROVE  /\ r.len \in Nat /\ r.obj \in Maybe /\ r.old \in Maybe /\ r.prev \in Maybe
         /\ r.todo \in SUBSET (Keys \X Nat) /\ TodoKeys(r) \in SUBSET Keys
<1>1. /\ r.len \in Nat /\ r.obj \in Maybe /\ r.old \in Maybe /\ r.prev \in Maybe
      /\ r.todo \in SUBSET (Keys \X Nat)
  BY DEF Reg
<1>2. \A x \in r.todo : x[1] \in Keys
  BY <1>1
<1>3. QED
  BY <1>1, <1>2 DEF TodoKeys

\* Nothing is under way.
Rested ==
  /\ entries = file /\ bytes = Total(file) /\ count = Cardinality(Full(file)) /\ Room(0)
  /\ spawned = 0 /\ restarts = 0 => ~OverQuota

\* The labels at which an operation has done nothing yet.
Early == {"idle", "space", "read", "revalidated"}

LEMMA RestedFrom ==
  ASSUME NEW a \in Early, NEW q, SerialAt(a, q), q.op \notin Purges, q.op # "evict",
         file \in [Keys -> Maybe], bytes \in Nat, count \in Int
  PROVE  Rested
<1>1. Total(file) \in Nat /\ Cardinality(Full(file)) \in Nat
  BY TotalBound, FullFinite
<1>2. LedgerAt(a, q) /\ BudgetAt(a, q) /\ QuotaAt(a, q)
  BY DEF SerialAt
<1>3. entries = file /\ bytes + 0 = Total(file) + 0 /\ count + 0 = Cardinality(Full(file)) + 0
  BY <1>2 DEF LedgerAt, Early, Missing, Surplus, Uncounted, Overcounted
<1>4. Room(0) /\ (spawned = 0 /\ restarts = 0 => ~OverQuota)
  BY <1>2 DEF BudgetAt, QuotaAt, Early
<1>5. QED
  BY <1>1, <1>3, <1>4 DEF Rested

LEMMA RestedTo ==
  ASSUME NEW l \in Early, NEW r, Rested', r.op \notin Purges, r.op # "evict",
         r.op = "put" => l = "space", file' \in [Keys -> Maybe]
  PROVE  SerialAt(l, r)'
<1>1. Total(file') \in Nat /\ Cardinality(Full(file')) \in Nat
  BY TotalBound, FullFinite
<1>2. LedgerAt(l, r)'
  BY <1>1 DEF Rested, LedgerAt, Early, Missing, Surplus, Uncounted, Overcounted
<1>3. BudgetAt(l, r)'
  BY DEF Rested, BudgetAt, Early
<1>4. QuotaAt(l, r)'
  BY DEF Rested, QuotaAt
<1>5. ListAt(l, r)'
  BY DEF ListAt, Early, AtFile
<1>6. QED
  BY <1>2, <1>3, <1>4, <1>5 DEF SerialAt

\* A step that changes none of it.
Kept == UNCHANGED <<file, entries, bytes, count, total>>

LEMMA RestedKept ==
  ASSUME NEW t, NEW a, NEW q, NEW l, NEW r, Goes(t, a, q, l, r), Rested, Kept,
         spawned' = spawned
  PROVE  Rested'
BY DEF Goes, Rested, Kept, Room, OverQuota

\* An operation begins.
LEMMA CallSerial ==
  ASSUME NEW t \in Threads, NEW a, NEW q, NEW l, NEW r, Goes(t, a, q, l, r), Operation(t)
  PROVE  SerialAt(l, r)'
<1> USE DEF disk, ledger, rest, calls, marks, At, Goto
<1>0. /\ pc \in [Threads -> Labels] /\ reg \in [Threads -> Reg] /\ q \in Reg /\ Fits(a, q)
      /\ file \in [Keys -> Maybe] /\ file' \in [Keys -> Maybe] /\ bytes \in Nat /\ count \in Int
      /\ a = pc[t] /\ q = reg[t] /\ l = pc'[t] /\ r = reg'[t] /\ SerialAt(a, q)
  BY DEF Goes
<1>1. ASSUME a = "idle", Kept, spawned' = spawned PROVE Rested /\ Rested'
  <2>1. q.op = "none"
    BY <1>0, <1>1 DEF Fits
  <2>2. Rested
    BY <1>0, <1>1, <2>1, RestedFrom DEF Early, Purges
  <2>3. QED
    BY <1>1, <2>2, RestedKept
<1>2. ASSUME NEW k \in Keys, Put(t, k) PROVE SerialAt(l, r)'
  <2>1. a = "idle" /\ Kept /\ spawned' = spawned
    BY <1>0, <1>2 DEF Put, Kept
  <2>2. (l = "idle" /\ r.op = "none") \/ (l = "space" /\ r.op = "put")
    <3>1. ASSUME End(t) PROVE l = "idle" /\ r.op = "none"
      BY <1>0, <3>1 DEF End, Register
    <3>2. ASSUME NEW x, NEW y, NEW z, Goto(t, "space"),
                 reg' = [reg EXCEPT ![t] =
                   [Register EXCEPT !.op = "put", !.key = x, !.obj = y, !.seq = z]]
          PROVE  l = "space" /\ r.op = "put"
      BY <1>0, <3>2 DEF Register
    <3>3. CASE ~End(t)
      <4>1. /\ Goto(t, "space")
            /\ reg' = [reg EXCEPT ![t] =
                 [Register EXCEPT !.op = "put", !.key = k, !.obj = puts', !.seq = ops']]
        BY <1>2, <3>3 DEF Put, BeginPut
      <4>2. QED
        BY <3>2, <4>1
    <3>4. QED
      BY <3>1, <3>3
  <2>3. QED
    BY <1>0, <1>1, <2>1, <2>2, RestedTo DEF Early, Purges
<1>3. ASSUME NEW k \in Keys, UpdateMeta(t, k) \/ Get(t, k) PROVE SerialAt(l, r)'
  <2>1. a = "idle" /\ Kept /\ spawned' = spawned
    BY <1>0, <1>3 DEF UpdateMeta, Get, Call, Kept
  <2>2. l \in {"revalidated", "read"} /\ r.op \in {"meta", "get"}
    <3>1. CASE UpdateMeta(t, k)
      BY <1>0, <3>1 DEF UpdateMeta, Call, Register
    <3>2. CASE Get(t, k)
      BY <1>0, <3>2 DEF Get, Call, Register
    <3>3. QED
      BY <1>3, <3>1, <3>2
  <2>3. QED
    BY <1>0, <1>1, <2>1, <2>2, RestedTo DEF Early, Purges
<1>4. Total(file') \in Nat /\ Cardinality(Full(file')) \in Nat
  BY <1>0, TotalBound, FullFinite
<1>5. ASSUME NEW k \in Keys, Remove(t, k) \/ PurgeUrls(t, k) PROVE SerialAt(l, r)'
  <2>1. a = "idle" /\ Kept /\ spawned' = spawned
    BY <1>0, <1>5 DEF Remove, PurgeUrls, Call, Kept
  <2>2. Rested /\ Rested'
    BY <1>1, <2>1
  <2>3. /\ l = "unlink" /\ r.op \in {"remove", "urls"} /\ r.victim = k /\ r.todo = {}
        /\ r.len \in {Bytes(file[k]), Bytes(entries[k])}
    <3>1. CASE Remove(t, k)
      BY <1>0, <3>1 DEF Remove, Call, Register
    <3>2. CASE PurgeUrls(t, k)
      BY <1>0, <3>2 DEF PurgeUrls, Call, Register
    <3>3. QED
      BY <1>5, <3>1, <3>2
  <2>4. r.len = Bytes(file'[k])
    BY <2>1, <2>2, <2>3 DEF Rested, Kept
  <2>5. LedgerAt(l, r)'
    BY <1>4, <2>2, <2>3, <2>4 DEF Rested, LedgerAt, Missing, Surplus, Uncounted, Overcounted
  <2>6. BudgetAt(l, r)' /\ QuotaAt(l, r)'
    BY <2>2, <2>3 DEF Rested, BudgetAt, QuotaAt
  <2>7. ListAt(l, r)'
    BY <2>3 DEF ListAt, Listed, TodoKeys
  <2>8. QED
    BY <2>3, <2>5, <2>6, <2>7 DEF SerialAt, Purges
<1>6. ASSUME NEW op \in {"sweep", "namespace", "domain"}, NEW S \in SUBSET OnDisk,
             NEW T, Walks(t, op, S, T), op \in Purges => S = OnDisk
      PROVE  SerialAt(l, r)'
  <2>1. a = "idle" /\ Kept /\ spawned' = spawned
    BY <1>0, <1>6 DEF Walks, Call, Kept
  <2>2. Rested /\ Rested'
    BY <1>1, <2>1
  <2>3. l = "loop" /\ r.op = op /\ r.todo = {<<k, Bytes(file[k])>> : k \in S}
    BY <1>0, <1>6 DEF Walks, Call, Register
  <2>4. TodoKeys(r) = S /\ file' = file
    <3>1. \A k \in S : <<k, Bytes(file[k])>> \in r.todo /\ <<k, Bytes(file[k])>>[1] = k
      BY <2>3
    <3>2. \A x \in r.todo : x[1] \in S
      BY <2>3
    <3>3. QED
      BY <2>1, <3>1, <3>2 DEF TodoKeys, Kept
  <2>5. Listed(r)'
    BY <2>3, <2>4 DEF Listed, OnDisk
  <2>6. op \in Purges => PurgeAt(l, r)'
    BY <1>6, <2>3, <2>4 DEF PurgeAt, OnDisk
  <2>7. LedgerAt(l, r)'
    BY <1>4, <2>2, <2>3 DEF Rested, LedgerAt, Missing, Surplus, Uncounted, Overcounted
  <2>8. BudgetAt(l, r)' /\ QuotaAt(l, r)'
    BY <2>2, <2>3 DEF Rested, BudgetAt, QuotaAt
  <2>9. ListAt(l, r)'
    BY <1>6, <2>3, <2>5 DEF ListAt, AtFile
  <2>10. QED
    BY <2>3, <2>6, <2>7, <2>8, <2>9 DEF SerialAt
<1>7. ASSUME Clear(t) PROVE SerialAt(l, r)'
  <2>1. PICK S \in SUBSET OnDisk, T \in SUBSET stray : Walks(t, "sweep", S, T)
    BY <1>7 DEF Clear
  <2>2. QED
    BY <1>6, <2>1 DEF Purges
<1>8. ASSUME PurgeNamespace(t) \/ PurgeDomain(t) PROVE SerialAt(l, r)'
  BY <1>6, <1>8 DEF PurgeNamespace, PurgeDomain
<1>9. QED
  BY <1>2, <1>3, <1>5, <1>7, <1>8 DEF Operation

\* Reads and revalidations.
LEMMA ReadSerial ==
  ASSUME NEW t \in Threads, NEW a, NEW q, NEW l, NEW r, Goes(t, a, q, l, r),
         Read(t) \/ Revalidated(t)
  PROVE  SerialAt(l, r)'
<1> USE DEF disk, ledger, rest, calls, marks, At, Goto
<1>0. /\ pc \in [Threads -> Labels] /\ reg \in [Threads -> Reg] /\ q \in Reg /\ Fits(a, q)
      /\ file \in [Keys -> Maybe] /\ file' \in [Keys -> Maybe] /\ bytes \in Nat /\ count \in Int
      /\ a = pc[t] /\ q = reg[t] /\ l = pc'[t] /\ r = reg'[t] /\ SerialAt(a, q)
  BY DEF Goes
<1>1. a \in {"read", "revalidated"} /\ Kept /\ spawned' = spawned
  BY <1>0 DEF Read, Revalidated, Kept
<1>2. q.op \in {"get", "meta"}
  BY <1>0, <1>1 DEF Fits
<1>3. Rested
  BY <1>0, <1>1, <1>2, RestedFrom DEF Early, Purges
<1>4. Rested'
  BY <1>1, <1>3, RestedKept
<1>5. ASSUME End(t) PROVE l = "idle" /\ r.op = "none"
  BY <1>0, <1>5 DEF End, Register
<1>6. ASSUME NEW x, NEW y, NEW z, Goto(t, "space"),
             reg' = [reg EXCEPT ![t] =
               [Register EXCEPT !.op = "put", !.key = x, !.obj = y, !.seq = z]]
      PROVE  l = "space" /\ r.op = "put"
  BY <1>0, <1>6 DEF Register
<1>7. ASSUME Goto(t, "revalidated"), Stay PROVE l = "revalidated" /\ r.op \in {"get", "meta"}
  BY <1>0, <1>2, <1>7 DEF Stay
<1>8. \/ l = "idle" /\ r.op = "none"
      \/ l = "space" /\ r.op = "put"
      \/ l = "revalidated" /\ r.op \in {"get", "meta"}
  <2>1. CASE Read(t)
    BY <1>5, <1>7, <2>1 DEF Read
  <2>2. CASE Revalidated(t) /\ ~End(t)
    <3>1. /\ Goto(t, "space")
          /\ reg' = [reg EXCEPT ![t] = [Register EXCEPT !.op = "put", !.key = reg[t].key,
                                          !.obj = reg[t].obj, !.seq = reg[t].seq]]
      BY <2>2 DEF Revalidated, BeginPut
    <3>2. QED
      BY <1>6, <3>1
  <2>3. QED
    BY <1>5, <2>1, <2>2
<1>9. QED
  BY <1>0, <1>4, <1>8, RestedTo DEF Early, Purges

\* The room for a put: it is going to replace what is there.
LEMMA SpaceSerial ==
  ASSUME NEW t \in Threads, NEW a, NEW q, NEW l, NEW r, Goes(t, a, q, l, r), Space(t)
  PROVE  SerialAt(l, r)'
<1> USE DEF disk, ledger, rest, calls, marks, At, Goto
<1>0. /\ pc \in [Threads -> Labels] /\ reg \in [Threads -> Reg] /\ q \in Reg /\ Fits(a, q)
      /\ file \in [Keys -> Maybe] /\ file' \in [Keys -> Maybe] /\ bytes \in Nat /\ count \in Int
      /\ a = pc[t] /\ q = reg[t] /\ l = pc'[t] /\ r = reg'[t] /\ SerialAt(a, q)
  BY DEF Goes
<1>1. a = "space" /\ Kept /\ spawned' = spawned
  BY <1>0 DEF Space, Kept
<1>2. q.op = "put" /\ q.key \in Keys
  BY <1>0, <1>1 DEF Fits
<1>3. Rested
  BY <1>0, <1>1, <1>2, RestedFrom DEF Early, Purges
<1>4. Rested'
  BY <1>1, <1>3, RestedKept
<1>5. CASE End(t)
  <2>1. l = "idle" /\ r.op = "none"
    BY <1>0, <1>5 DEF End, Register
  <2>2. QED
    BY <1>0, <1>4, <2>1, RestedTo DEF Early, Purges
<1>6. CASE ~End(t)
  <2>1. l \in {"walk", "write"} /\ reg' = [reg EXCEPT ![t].old = file[q.key]]
    BY <1>0, <1>6 DEF Space
  <2>2. r.op = "put" /\ r.key = q.key /\ r.old = file'[q.key]
    BY <1>0, <1>1, <1>2, <2>1 DEF Kept, Reg
  <2>3. Total(file') \in Nat /\ Cardinality(Full(file')) \in Nat
    BY <1>0, TotalBound, FullFinite
  <2>4. LedgerAt(l, r)'
    BY <1>4, <2>1, <2>3 DEF Rested, LedgerAt, Missing, Surplus, Uncounted, Overcounted
  <2>5. BudgetAt(l, r)'
    BY <1>4, <2>1, <2>2 DEF Rested, BudgetAt
  <2>6. QuotaAt(l, r)'
    BY <1>4, <2>2 DEF Rested, QuotaAt
  <2>7. ListAt(l, r)'
    BY <2>1 DEF ListAt, AtFile
  <2>8. QED
    BY <2>2, <2>4, <2>5, <2>6, <2>7 DEF SerialAt, Purges
<1>7. QED
  BY <1>5, <1>6

\* At these labels too the ledger is exact.
LEMMA ExactFrom ==
  ASSUME NEW a \in {"walk", "write", "rename", "candidates", "loop", "unlink", "check"}, NEW q,
         SerialAt(a, q), q.op \notin Purges,
         file \in [Keys -> Maybe], bytes \in Nat, count \in Int
  PROVE  /\ entries = file /\ bytes = Total(file) /\ count = Cardinality(Full(file)) /\ Room(0)
         /\ Total(file) \in Nat /\ Cardinality(Full(file)) \in Nat
<1>1. Total(file) \in Nat /\ Cardinality(Full(file)) \in Nat
  BY TotalBound, FullFinite
<1>2. LedgerAt(a, q) /\ BudgetAt(a, q)
  BY DEF SerialAt
<1>3. entries = file /\ bytes + 0 = Total(file) + 0 /\ count + 0 = Cardinality(Full(file)) + 0
  BY <1>2 DEF LedgerAt, Missing, Surplus, Uncounted, Overcounted
<1>4. Room(0)
  BY <1>2 DEF BudgetAt
<1>5. QED
  BY <1>1, <1>3, <1>4

\* The list of ensure_disk_space.
LEMMA WalkSerial ==
  ASSUME NEW t \in Threads, NEW a, NEW q, NEW l, NEW r, Goes(t, a, q, l, r), Walk(t)
  PROVE  SerialAt(l, r)'
<1> USE DEF disk, ledger, rest, calls, marks, At, Goto
<1>0. /\ pc \in [Threads -> Labels] /\ reg \in [Threads -> Reg] /\ q \in Reg /\ Fits(a, q)
      /\ file \in [Keys -> Maybe] /\ bytes \in Nat /\ count \in Int
      /\ a = pc[t] /\ q = reg[t] /\ l = pc'[t] /\ r = reg'[t] /\ SerialAt(a, q)
      /\ restarts' = restarts /\ (netted => netted')
  BY DEF Goes
<1>1. a = "walk" /\ l = "loop" /\ Kept /\ spawned' = spawned
  BY <1>0 DEF Walk, Kept
<1>2. q.op = "put"
  BY <1>0, <1>1 DEF Fits
<1>3. /\ r.op = "put" /\ r.key = q.key /\ r.old = q.old
      /\ r.todo = {<<k, Bytes(file[k])>> : k \in OnDisk}
  BY <1>0, <1>2 DEF Walk, Reg
<1>4. /\ entries = file /\ bytes = Total(file) /\ count = Cardinality(Full(file)) /\ Room(0)
      /\ Total(file) \in Nat /\ Cardinality(Full(file)) \in Nat
  BY <1>0, <1>1, <1>2, ExactFrom DEF Purges
<1>5. BudgetAt(a, q) /\ QuotaAt(a, q)
  BY <1>0 DEF SerialAt
<1>6. Listed(r)'
  BY <1>1, <1>3 DEF Listed, OnDisk, Kept
<1>7. LedgerAt(l, r)'
  BY <1>1, <1>4 DEF Kept, LedgerAt, Missing, Surplus, Uncounted, Overcounted
<1>8. BudgetAt(l, r)'
  BY <1>0, <1>1, <1>2, <1>3, <1>4, <1>5 DEF Kept, BudgetAt, Room
<1>9. QuotaAt(l, r)'
  BY <1>0, <1>1, <1>2, <1>3, <1>5 DEF Kept, QuotaAt, OverQuota
<1>10. ListAt(l, r)'
  BY <1>1, <1>3, <1>6 DEF ListAt, AtFile
<1>11. QED
  BY <1>3, <1>7, <1>8, <1>9, <1>10 DEF SerialAt, Purges

\* The temporary file.
LEMMA WriteSerial ==
  ASSUME NEW t \in Threads, NEW a, NEW q, NEW l, NEW r, Goes(t, a, q, l, r), Write(t)
  PROVE  SerialAt(l, r)'
<1> USE DEF disk, ledger, rest, calls, marks, At, Goto
<1>0. /\ pc \in [Threads -> Labels] /\ reg \in [Threads -> Reg] /\ q \in Reg /\ Fits(a, q)
      /\ file \in [Keys -> Maybe] /\ bytes \in Nat /\ count \in Int
      /\ a = pc[t] /\ q = reg[t] /\ l = pc'[t] /\ r = reg'[t] /\ SerialAt(a, q)
      /\ restarts' = restarts /\ (netted => netted') /\ ~failed'
  BY DEF Goes
<1>1. a = "write" /\ l = "rename" /\ r = q /\ Kept /\ spawned' = spawned
  BY <1>0 DEF Write, Stay, Kept
<1>2. q.op = "put"
  BY <1>0, <1>1 DEF Fits
<1>3. /\ entries = file /\ bytes = Total(file) /\ count = Cardinality(Full(file)) /\ Room(0)
      /\ Total(file) \in Nat /\ Cardinality(Full(file)) \in Nat
  BY <1>0, <1>1, <1>2, ExactFrom DEF Purges
<1>4. BudgetAt(a, q) /\ QuotaAt(a, q)
  BY <1>0 DEF SerialAt
<1>5. LedgerAt(l, r)'
  BY <1>1, <1>3 DEF Kept, LedgerAt, Missing, Surplus, Uncounted, Overcounted
<1>6. BudgetAt(l, r)'
  BY <1>0, <1>1, <1>2, <1>3, <1>4 DEF Kept, BudgetAt, Room
<1>7. QuotaAt(l, r)'
  BY <1>0, <1>1, <1>2, <1>4 DEF Kept, QuotaAt, OverQuota
<1>8. ListAt(l, r)'
  BY <1>1 DEF ListAt, AtFile
<1>9. QED
  BY <1>1, <1>2, <1>5, <1>6, <1>7, <1>8 DEF SerialAt, Purges

\* The new file.
LEMMA RenameSerial ==
  ASSUME NEW t \in Threads, NEW a, NEW q, NEW l, NEW r, Goes(t, a, q, l, r), Rename(t)
  PROVE  SerialAt(l, r)'
<1> USE DEF disk, ledger, rest, calls, marks, At, Goto
<1>0. /\ pc \in [Threads -> Labels] /\ reg \in [Threads -> Reg] /\ q \in Reg /\ Fits(a, q)
      /\ file \in [Keys -> Maybe] /\ file' \in [Keys -> Maybe] /\ total \in Nat
      /\ bytes \in Nat /\ count \in Int
      /\ a = pc[t] /\ q = reg[t] /\ l = pc'[t] /\ r = reg'[t] /\ SerialAt(a, q)
      /\ restarts' = restarts /\ (netted => netted') /\ ~failed'
  BY DEF Goes
<1>1. /\ a = "rename" /\ l = "track" /\ r = q /\ file' = [file EXCEPT ![q.key] = q.obj]
      /\ UNCHANGED <<entries, bytes, count, total, spawned>>
  BY <1>0 DEF Rename, Stay
<1>2. q.op = "put" /\ q.key \in Keys /\ q.obj \in Objects
  BY <1>0, <1>1 DEF Fits
<1>3. /\ entries = file /\ bytes = Total(file) /\ count = Cardinality(Full(file)) /\ Room(0)
      /\ Total(file) \in Nat /\ Cardinality(Full(file)) \in Nat
  BY <1>0, <1>1, <1>2, ExactFrom DEF Purges
<1>4. BudgetAt(a, q) /\ QuotaAt(a, q)
  BY <1>0 DEF SerialAt
<1>5. (\A k \in Keys : k # q.key => file[k] = file'[k]) /\ file'[q.key] = q.obj
  BY <1>0, <1>1, <1>2
<1>6. Total(file') + Bytes(file[q.key]) = Total(file) + Bytes(q.obj)
  BY <1>0, <1>2, <1>5, TotalChange
<1>7. LedgerAt(l, r)'
  BY <1>1, <1>3, <1>5 DEF LedgerAt, Elsewhere, Tallied
<1>8. BudgetAt(l, r)'
  <2>1. ~netted' => total >= Total(file) /\ file[q.key] = q.old
    BY <1>0, <1>1, <1>2, <1>3, <1>4 DEF BudgetAt, Room
  <2>2. /\ Total(file') \in Nat /\ Bytes(q.obj) \in Nat /\ Bytes(q.old) \in Nat
        /\ Bytes(file[q.key]) \in Nat
    BY <1>0, <1>2, TotalBound, BytesFacts, RegTypes
  <2>3. ~netted' => total + Bytes(q.obj) >= Total(file') + Bytes(q.old)
    BY <1>0, <1>3, <1>6, <2>1, <2>2
  <2>4. QED
    BY <1>1, <2>3 DEF BudgetAt
<1>9. QuotaAt(l, r)'
  BY <1>0, <1>1, <1>2, <1>4 DEF QuotaAt, OverQuota
<1>10. ListAt(l, r)'
  BY <1>1 DEF ListAt, AtFile
<1>11. QED
  BY <1>1, <1>2, <1>7, <1>8, <1>9, <1>10 DEF SerialAt, Purges

\* track_written.
LEMMA TrackSerial ==
  ASSUME NEW t \in Threads, NEW a, NEW q, NEW l, NEW r, Goes(t, a, q, l, r), Track(t)
  PROVE  SerialAt(l, r)'
<1> USE DEF disk, ledger, rest, calls, marks, At, Goto
<1>0. /\ pc \in [Threads -> Labels] /\ reg \in [Threads -> Reg] /\ q \in Reg /\ Fits(a, q)
      /\ file \in [Keys -> Maybe] /\ total \in Nat
      /\ a = pc[t] /\ q = reg[t] /\ l = pc'[t] /\ r = reg'[t] /\ SerialAt(a, q)
      /\ restarts' = restarts /\ (netted => netted')
  BY DEF Goes
<1>1. /\ a = "track" /\ l = "insert" /\ r = q
      /\ total' = Less(total, Bytes(q.old)) + Bytes(q.obj)
      /\ UNCHANGED <<file, entries, bytes, count, spawned>>
  BY <1>0 DEF Track, Stay
<1>2. q.op = "put"
  BY <1>0, <1>1 DEF Fits
<1>3. LedgerAt(a, q) /\ BudgetAt(a, q) /\ QuotaAt(a, q)
  BY <1>0, <1>2 DEF SerialAt, Purges
<1>4. Total(file) \in Nat /\ Bytes(q.obj) \in Nat /\ Bytes(q.old) \in Nat
  BY <1>0, TotalBound, BytesFacts, RegTypes
<1>5. LedgerAt(l, r)'
  BY <1>1, <1>3 DEF LedgerAt, Elsewhere, Tallied
<1>6. BudgetAt(l, r)'
  <2>1. ~netted' => total + Bytes(q.obj) >= Total(file) + Bytes(q.old)
    BY <1>0, <1>1, <1>3 DEF BudgetAt
  <2>2. ~netted' => total' >= Total(file) + 0
    BY <1>0, <1>1, <1>4, <2>1 DEF Less
  <2>3. QED
    BY <1>1, <2>2 DEF BudgetAt, Room
<1>7. QuotaAt(l, r)'
  BY <1>0, <1>1, <1>2, <1>3 DEF QuotaAt, OverQuota
<1>8. ListAt(l, r)'
  BY <1>1 DEF ListAt, AtFile
<1>9. QED
  BY <1>1, <1>2, <1>5, <1>6, <1>7, <1>8 DEF SerialAt, Purges

\* record_write: the entry.
LEMMA InsertSerial ==
  ASSUME NEW t \in Threads, NEW a, NEW q, NEW l, NEW r, Goes(t, a, q, l, r), Insert(t)
  PROVE  SerialAt(l, r)'
<1> USE DEF disk, ledger, rest, calls, marks, At, Goto
<1>0. /\ pc \in [Threads -> Labels] /\ reg \in [Threads -> Reg] /\ q \in Reg /\ Fits(a, q)
      /\ file \in [Keys -> Maybe] /\ entries \in [Keys -> Maybe] /\ entries' \in [Keys -> Maybe]
      /\ bytes \in Nat /\ count \in Int
      /\ a = pc[t] /\ q = reg[t] /\ l = pc'[t] /\ r = reg'[t] /\ SerialAt(a, q)
      /\ restarts' = restarts /\ (netted => netted')
  BY DEF Goes
<1>1. /\ a = "insert" /\ l = IF entries[q.key] = None THEN "add" ELSE "sub"
      /\ entries' = [entries EXCEPT ![q.key] = q.obj]
      /\ UNCHANGED <<file, bytes, count, total, spawned>>
  BY <1>0 DEF Insert
<1>2. q.op = "put" /\ q.key \in Keys /\ q.obj \in Objects
  BY <1>0, <1>1 DEF Fits
<1>3. r.op = "put" /\ r.key = q.key /\ r.obj = q.obj /\ r.prev = entries[q.key]
  BY <1>0, <1>2 DEF Insert, Reg
<1>4. LedgerAt(a, q) /\ BudgetAt(a, q) /\ QuotaAt(a, q)
  BY <1>0, <1>2 DEF SerialAt, Purges
<1>5. /\ \A k \in Keys : k # q.key => entries[k] = file[k]
      /\ file[q.key] = q.obj /\ bytes = Total(entries) /\ count = Cardinality(Full(entries))
  BY <1>1, <1>4 DEF LedgerAt, Elsewhere, Tallied
<1>6. entries' = file
  BY <1>0, <1>1, <1>2, <1>5
<1>7. Total(file) + Bytes(entries[q.key]) = Total(entries) + Bytes(q.obj)
  BY <1>0, <1>2, <1>5, TotalChange
<1>8. q.obj # None
  BY <1>2, ObjectFacts
<1>9. Cardinality(Full(file)) = Cardinality(Full(entries)) + IF entries[q.key] = None THEN 1 ELSE 0
  BY <1>2, <1>5, <1>8, FullPut
<1>10. /\ Total(file) \in Nat /\ Total(entries) \in Nat /\ Bytes(q.obj) \in Nat
       /\ Bytes(entries[q.key]) \in Nat /\ (entries[q.key] = None => Bytes(entries[q.key]) = 0)
       /\ Cardinality(Full(file)) \in Nat /\ Cardinality(Full(entries)) \in Nat
  BY <1>0, <1>2, TotalBound, BytesFacts, RegTypes, FullFinite
<1>11. LedgerAt(l, r)'
  <2>1. CASE entries[q.key] = None
    <3>1. l = "add"
      BY <1>1, <2>1
    <3>2. bytes + Bytes(q.obj) = Total(file) + 0
      BY <1>0, <1>5, <1>7, <1>10, <2>1
    <3>3. count + 1 = Cardinality(Full(file)) + 0
      BY <1>0, <1>5, <1>9, <1>10, <2>1
    <3>4. QED
      BY <1>1, <1>3, <1>6, <2>1, <3>1, <3>2, <3>3
         DEF LedgerAt, Missing, Surplus, Uncounted, Overcounted
  <2>2. CASE entries[q.key] # None
    <3>1. l = "sub"
      BY <1>1, <2>2
    <3>2. bytes + Bytes(q.obj) = Total(file) + Bytes(entries[q.key])
      BY <1>0, <1>5, <1>7, <1>10
    <3>3. count + 0 = Cardinality(Full(file)) + 0
      BY <1>0, <1>5, <1>9, <1>10, <2>2
    <3>4. QED
      BY <1>1, <1>3, <1>5, <1>6, <3>1, <3>2, <3>3
         DEF LedgerAt, Missing, Surplus, Uncounted, Overcounted
  <2>3. QED
    BY <2>1, <2>2
<1>12. BudgetAt(l, r)'
  BY <1>0, <1>1, <1>4 DEF BudgetAt, Room
<1>13. QuotaAt(l, r)'
  BY <1>0, <1>1, <1>2, <1>3, <1>4 DEF QuotaAt, OverQuota
<1>14. ListAt(l, r)'
  BY <1>1 DEF ListAt, AtFile
<1>15. QED
  BY <1>3, <1>11, <1>12, <1>13, <1>14 DEF SerialAt, Purges

\* record_write: the counts.
LEMMA CountSerial ==
  ASSUME NEW t \in Threads, NEW a, NEW q, NEW l, NEW r, Goes(t, a, q, l, r),
         Sub(t) \/ Add(t) \/ Inc(t)
  PROVE  SerialAt(l, r)'
<1> USE DEF disk, ledger, rest, calls, marks, At, Goto
<1>0. /\ pc \in [Threads -> Labels] /\ reg \in [Threads -> Reg] /\ q \in Reg /\ Fits(a, q)
      /\ file \in [Keys -> Maybe] /\ entries \in [Keys -> Maybe]
      /\ bytes \in Nat /\ count \in Int
      /\ a = pc[t] /\ q = reg[t] /\ l = pc'[t] /\ r = reg'[t] /\ SerialAt(a, q)
      /\ restarts' = restarts /\ (netted => netted')
  BY DEF Goes
<1>1. /\ a \in {"sub", "add", "inc"} /\ r = q /\ l \in {"add", "inc", "check"}
      /\ UNCHANGED <<file, entries, total, spawned>>
  BY <1>0 DEF Sub, Add, Inc, Stay
<1>2. q.op = "put" /\ q.key \in Keys /\ q.obj \in Objects
  BY <1>0, <1>1 DEF Fits
<1>3. LedgerAt(a, q) /\ BudgetAt(a, q) /\ QuotaAt(a, q)
  BY <1>0, <1>2 DEF SerialAt, Purges
<1>4. /\ Total(file) \in Nat /\ Bytes(q.obj) \in Nat /\ Bytes(q.prev) \in Nat
      /\ Cardinality(Full(file)) \in Nat /\ Quota \in Nat
  BY <1>0, TotalBound, BytesFacts, RegTypes, FullFinite, CacheAssumption
<1>5. BudgetAt(l, r)'
  BY <1>0, <1>1, <1>2, <1>3 DEF BudgetAt, Room
<1>6. ListAt(l, r)'
  BY <1>1 DEF ListAt, AtFile
<1>7. CASE Sub(t)
  <2>1. /\ a = "sub" /\ l = "add" /\ q.prev # None
        /\ bytes' = Less(bytes, Bytes(q.prev)) /\ count' = count
    BY <1>0, <1>7 DEF Sub, Fits
  <2>2. /\ entries = file /\ file[q.key] = q.obj
        /\ bytes + Bytes(q.obj) = Total(file) + Bytes(q.prev)
        /\ count + 0 = Cardinality(Full(file)) + 0
    BY <1>3, <2>1 DEF LedgerAt, Missing, Surplus, Uncounted, Overcounted
  <2>3. Bytes(q.obj) <= Total(file)
    BY <1>0, <1>2, <2>2, TotalHas
  <2>4. bytes' + Bytes(q.obj) = Total(file) + 0 /\ bytes' \in Nat /\ bytes' <= bytes
    BY <1>0, <1>4, <2>1, <2>2, <2>3 DEF Less
  <2>5. LedgerAt(l, r)'
    BY <1>1, <2>1, <2>2, <2>4 DEF LedgerAt, Missing, Surplus, Uncounted, Overcounted
  <2>6. spawned = 0 /\ restarts = 0 => ~(Quota > 0 /\ bytes > Quota)
    BY <1>2, <1>3, <2>1 DEF QuotaAt, OverQuota
  <2>7. QuotaAt(l, r)'
    BY <1>0, <1>1, <1>2, <1>4, <2>4, <2>6 DEF QuotaAt, OverQuota
  <2>8. QED
    BY <1>1, <1>2, <1>5, <1>6, <2>5, <2>7 DEF SerialAt, Purges
<1>8. CASE Add(t)
  <2>1. /\ a = "add" /\ l = IF q.prev = None THEN "inc" ELSE "check"
        /\ bytes' = bytes + Bytes(q.obj) /\ count' = count
    BY <1>0, <1>8 DEF Add
  <2>2. /\ entries = file /\ bytes + Bytes(q.obj) = Total(file) + 0
        /\ count + (IF q.prev = None THEN 1 ELSE 0) = Cardinality(Full(file)) + 0
    BY <1>3, <2>1 DEF LedgerAt, Missing, Surplus, Uncounted, Overcounted
  <2>3. bytes' + 0 = Total(file) + 0
    BY <1>0, <1>4, <2>1, <2>2
  <2>4. LedgerAt(l, r)'
    BY <1>0, <1>1, <2>1, <2>2, <2>3 DEF LedgerAt, Missing, Surplus, Uncounted, Overcounted
  <2>5. QuotaAt(l, r)'
    BY <1>1, <1>2, <2>1 DEF QuotaAt
  <2>6. QED
    BY <1>1, <1>2, <1>5, <1>6, <2>4, <2>5 DEF SerialAt, Purges
<1>9. CASE Inc(t)
  <2>1. a = "inc" /\ l = "check" /\ bytes' = bytes /\ count' = count + 1
    BY <1>0, <1>9 DEF Inc
  <2>2. /\ entries = file /\ bytes + 0 = Total(file) + 0
        /\ count + 1 = Cardinality(Full(file)) + 0
    BY <1>3, <2>1 DEF LedgerAt, Missing, Surplus, Uncounted, Overcounted
  <2>3. count' + 0 = Cardinality(Full(file)) + 0
    BY <1>0, <1>4, <2>1, <2>2
  <2>4. LedgerAt(l, r)'
    BY <1>0, <1>1, <2>1, <2>2, <2>3 DEF LedgerAt, Missing, Surplus, Uncounted, Overcounted
  <2>5. QuotaAt(l, r)'
    BY <1>1, <1>2, <2>1 DEF QuotaAt
  <2>6. QED
    BY <1>1, <1>2, <1>5, <1>6, <2>4, <2>5 DEF SerialAt, Purges
<1>10. QED
  BY <1>7, <1>8, <1>9

\* An eviction is asked for if there is need of one.
LEMMA CheckSerial ==
  ASSUME NEW t \in Threads, NEW a, NEW q, NEW l, NEW r, Goes(t, a, q, l, r), Check(t)
  PROVE  SerialAt(l, r)'
<1> USE DEF disk, ledger, rest, calls, marks, At, Goto
<1>0. /\ pc \in [Threads -> Labels] /\ reg \in [Threads -> Reg] /\ q \in Reg /\ Fits(a, q)
      /\ file \in [Keys -> Maybe] /\ file' \in [Keys -> Maybe]
      /\ bytes \in Nat /\ count \in Int /\ spawned \in Nat
      /\ a = pc[t] /\ q = reg[t] /\ l = pc'[t] /\ r = reg'[t] /\ SerialAt(a, q)
      /\ restarts' = restarts /\ (netted => netted')
  BY DEF Goes
<1>1. a = "check" /\ Kept /\ spawned' = IF OverQuota THEN spawned + 1 ELSE spawned
  BY <1>0 DEF Check, Kept
<1>2. q.op = "put" /\ l = "idle" /\ r.op = "none"
  BY <1>0, <1>1 DEF Fits, Check, End, Register
<1>3. entries = file /\ bytes = Total(file) /\ count = Cardinality(Full(file)) /\ Room(0)
  BY <1>0, <1>1, <1>2, ExactFrom DEF Purges
<1>4. spawned' = 0 => ~OverQuota
  BY <1>0, <1>1
<1>5. Rested'
  BY <1>0, <1>1, <1>3, <1>4 DEF Rested, Kept, Room, OverQuota
<1>6. QED
  BY <1>0, <1>2, <1>5, RestedTo DEF Early, Purges

\* evict_to_fit, unless there is nothing for it to do.
LEMMA EvictSerial ==
  ASSUME NEW t \in Threads, NEW a, NEW q, NEW l, NEW r, Goes(t, a, q, l, r), EvictToFit(t),
         OverQuota, ~evicting
  PROVE  SerialAt(l, r)'
<1> USE DEF disk, ledger, rest, calls, marks, At, Goto
<1>0. /\ pc \in [Threads -> Labels] /\ reg \in [Threads -> Reg] /\ q \in Reg /\ Fits(a, q)
      /\ file \in [Keys -> Maybe] /\ bytes \in Nat /\ count \in Int
      /\ a = pc[t] /\ q = reg[t] /\ l = pc'[t] /\ r = reg'[t] /\ SerialAt(a, q)
      /\ restarts' = restarts /\ (netted => netted')
  BY DEF Goes
<1>1. a = "idle" /\ l = "candidates" /\ Kept /\ reg' = [reg EXCEPT ![t].op = "evict"]
  BY <1>0 DEF EvictToFit, Kept
<1>2. q.op = "none" /\ r.op = "evict"
  BY <1>0, <1>1 DEF Fits, Reg
<1>3. Rested
  BY <1>0, <1>1, <1>2, RestedFrom DEF Early, Purges
<1>4. Total(file) \in Nat /\ Cardinality(Full(file)) \in Nat
  BY <1>0, TotalBound, FullFinite
<1>5. LedgerAt(l, r)'
  BY <1>1, <1>3, <1>4 DEF Rested, Kept, LedgerAt, Missing, Surplus, Uncounted, Overcounted
<1>6. BudgetAt(l, r)'
  BY <1>0, <1>1, <1>2, <1>3 DEF Rested, Kept, BudgetAt, Room
<1>7. QuotaAt(l, r)'
  BY <1>1, <1>2 DEF QuotaAt, OverQuota
<1>8. ListAt(l, r)'
  BY <1>1 DEF ListAt, AtFile
<1>9. QED
  BY <1>2, <1>5, <1>6, <1>7, <1>8 DEF SerialAt, Purges

\* Its candidates are enough.
LEMMA CandidatesSerial ==
  ASSUME NEW t \in Threads, NEW a, NEW q, NEW l, NEW r, Goes(t, a, q, l, r), Candidates(t)
  PROVE  SerialAt(l, r)'
<1> USE DEF disk, ledger, rest, calls, marks, At, Goto
<1>0. /\ pc \in [Threads -> Labels] /\ reg \in [Threads -> Reg] /\ q \in Reg /\ Fits(a, q)
      /\ file \in [Keys -> Maybe] /\ entries \in [Keys -> Maybe] /\ bytes \in Nat /\ count \in Int
      /\ a = pc[t] /\ q = reg[t] /\ l = pc'[t] /\ r = reg'[t] /\ SerialAt(a, q)
      /\ restarts' = restarts /\ (netted => netted')
  BY DEF Goes
<1>1. a = "candidates" /\ l = "loop" /\ Kept /\ spawned' = spawned
  BY <1>0 DEF Candidates, Kept
<1>2. q.op = "evict"
  BY <1>0, <1>1 DEF Fits
<1>3. PICK S \in SUBSET Counted :
        /\ OverQuota => Covers(S) \/ S = Counted
        /\ reg' = [reg EXCEPT ![t].todo = {<<k, 0>> : k \in S}]
  BY DEF Candidates
<1>4. r.op = "evict" /\ r.todo = {<<k, 0>> : k \in S}
  BY <1>0, <1>2, <1>3 DEF Reg
<1>5. /\ entries = file /\ bytes = Total(file) /\ count = Cardinality(Full(file)) /\ Room(0)
      /\ Total(file) \in Nat /\ Cardinality(Full(file)) \in Nat
  BY <1>0, <1>1, <1>2, ExactFrom DEF Purges
<1>6. S \in SUBSET Keys /\ Counted = Full(entries) /\ \A k \in S : file[k] # None
  BY <1>5 DEF Counted, Full
<1>7. TodoKeys(r) = S
  <2>1. \A k \in S : <<k, 0>> \in r.todo /\ <<k, 0>>[1] = k
    BY <1>4
  <2>2. \A x \in r.todo : x[1] \in S
    BY <1>4
  <2>3. QED
    BY <2>1, <2>2 DEF TodoKeys
<1>8. Listed(r)'
  BY <1>1, <1>4, <1>6 DEF Listed, Kept
<1>9. Quota > 0 /\ Quota \in Nat
  BY <1>0, <1>2, CacheAssumption DEF SerialAt, QuotaAt
<1>10. bytes <= Quota + Part(entries, S)
  <2>1. Part(entries, S) \in Nat
    BY <1>0, <1>6, PartFacts
  <2>2. CASE OverQuota /\ Covers(S)
    <3>1. Part(entries, S) >= bytes - Quota
      BY <1>0, <1>6, <2>2, CoversPart
    <3>2. QED
      BY <1>0, <1>9, <2>1, <3>1
  <2>3. CASE S = Counted
    <3>1. Part(entries, S) = bytes
      BY <1>0, <1>5, <1>6, <2>3, PartFull
    <3>2. QED
      BY <1>0, <1>9, <3>1
  <2>4. CASE ~OverQuota
    BY <1>0, <1>9, <2>1, <2>4 DEF OverQuota
  <2>5. QED
    BY <1>3, <2>2, <2>3, <2>4
<1>11. LedgerAt(l, r)'
  BY <1>1, <1>5 DEF Kept, LedgerAt, Missing, Surplus, Uncounted, Overcounted
<1>12. BudgetAt(l, r)'
  BY <1>0, <1>1, <1>4, <1>5 DEF Kept, BudgetAt, Room
<1>13. QuotaAt(l, r)'
  BY <1>1, <1>4, <1>7, <1>9, <1>10 DEF Kept, QuotaAt, Left
<1>14. ListAt(l, r)'
  BY <1>1, <1>4, <1>8 DEF ListAt, AtFile
<1>15. QED
  BY <1>4, <1>11, <1>12, <1>13, <1>14 DEF SerialAt, Purges

\* The next file of the list.
LEMMA PickSerial ==
  ASSUME NEW t \in Threads, NEW a, NEW q, NEW l, NEW r, Goes(t, a, q, l, r), Pick(t)
  PROVE  SerialAt(l, r)'
<1> USE DEF disk, ledger, rest, calls, marks, At, Goto
<1>0. /\ pc \in [Threads -> Labels] /\ reg \in [Threads -> Reg] /\ q \in Reg /\ r \in Reg
      /\ Fits(a, q)
      /\ file \in [Keys -> Maybe] /\ entries \in [Keys -> Maybe] /\ bytes \in Nat /\ count \in Int
      /\ a = pc[t] /\ q = reg[t] /\ l = pc'[t] /\ r = reg'[t] /\ SerialAt(a, q)
      /\ restarts' = restarts /\ (netted => netted')
  BY DEF Goes
<1>1. a = "loop" /\ l = "unlink" /\ Kept /\ spawned' = spawned
  BY <1>0 DEF Pick, Kept
<1>2. PICK x \in q.todo :
        reg' = [reg EXCEPT ![t].todo = @ \ {x}, ![t].victim = x[1],
                  ![t].len = IF q.op = "evict" THEN Bytes(entries[x[1]]) ELSE x[2]]
  BY <1>0 DEF Pick
<1>3. /\ r.op = q.op /\ r.key = q.key /\ r.old = q.old /\ r.todo = q.todo \ {x} /\ r.victim = x[1]
      /\ r.len = IF q.op = "evict" THEN Bytes(entries[x[1]]) ELSE x[2]
  BY <1>0, <1>2 DEF Reg
<1>4. /\ q.todo \in SUBSET (Keys \X Nat) /\ x[1] \in Keys
      /\ \A y \in q.todo : y = <<y[1], y[2]>>
      /\ TodoKeys(q) \in SUBSET Keys
  <2>1. q.todo \in SUBSET (Keys \X Nat) /\ TodoKeys(q) \in SUBSET Keys
    BY <1>0, RegTypes
  <2>2. QED
    BY <1>2, <2>1
<1>5. BudgetAt(a, q) /\ QuotaAt(a, q) /\ Listed(q) /\ q.op # "discard"
  BY <1>0, <1>1 DEF SerialAt, ListAt
<1>6. \A y \in q.todo : y[1] = x[1] => y = x
  BY <1>2, <1>4, <1>5 DEF Listed
<1>7. TodoKeys(r) = TodoKeys(q) \ {x[1]} /\ x[1] \in TodoKeys(q)
  BY <1>2, <1>3, <1>6 DEF TodoKeys
<1>8. file[x[1]] # None /\ (q.op # "evict" => r.len = Bytes(file[x[1]]))
  BY <1>2, <1>3, <1>5 DEF Listed
<1>9. Listed(r)'
  BY <1>1, <1>3, <1>5 DEF Listed, Kept
<1>10. ListAt(l, r)'
  BY <1>1, <1>3, <1>5, <1>7, <1>9 DEF ListAt, AtFile
<1>11. BudgetAt(l, r)'
  BY <1>0, <1>1, <1>3, <1>5 DEF Kept, BudgetAt, Room
<1>12. QuotaAt(l, r)'
  <2>1. CASE q.op = "evict"
    <3>1. Quota > 0 /\ bytes <= Quota + Part(entries, TodoKeys(q))
      BY <1>1, <1>5, <2>1 DEF QuotaAt, Left
    <3>2. Part(entries, TodoKeys(q)) = Bytes(entries[x[1]]) + Part(entries, TodoKeys(r))
      BY <1>0, <1>4, <1>7, PartFacts
    <3>3. TodoKeys(r) \in SUBSET Keys /\ Quota \in Nat
      BY <1>4, <1>7, CacheAssumption
    <3>4. Part(entries, TodoKeys(r)) \in Nat /\ Bytes(entries[x[1]]) \in Nat
      BY <1>0, <1>4, <3>3, PartFacts, BytesFacts
    <3>5. bytes <= Quota + Part(entries, TodoKeys(r)) + Bytes(entries[x[1]])
      BY <1>0, <3>1, <3>2, <3>3, <3>4
    <3>6. QED
      BY <1>1, <1>3, <2>1, <3>1, <3>5 DEF Kept, QuotaAt, Left
  <2>2. CASE q.op # "evict"
    BY <1>0, <1>1, <1>3, <1>5, <2>2 DEF Kept, QuotaAt, OverQuota
  <2>3. QED
    BY <2>1, <2>2
<1>13. ASSUME q.op \notin Purges PROVE LedgerAt(l, r)'
  <2>1. /\ entries = file /\ bytes = Total(file) /\ count = Cardinality(Full(file))
        /\ Total(file) \in Nat /\ Cardinality(Full(file)) \in Nat
    BY <1>0, <1>1, <1>13, ExactFrom
  <2>2. r.len = Bytes(file[x[1]])
    BY <1>3, <1>8, <2>1
  <2>3. QED
    BY <1>1, <1>3, <1>8, <2>1, <2>2
       DEF Kept, LedgerAt, Missing, Surplus, Uncounted, Overcounted
<1>14. ASSUME q.op \in Purges PROVE PurgeAt(l, r)'
  <2>1. \A k \in Keys : file[k] # None => k \in TodoKeys(q)
    BY <1>0, <1>1, <1>14 DEF SerialAt, PurgeAt
  <2>2. r.len = Bytes(file[x[1]])
    BY <1>8, <1>14 DEF Purges
  <2>3. QED
    BY <1>1, <1>3, <1>7, <1>8, <2>1, <2>2 DEF Kept, PurgeAt
<1>15. QED
  BY <1>3, <1>10, <1>11, <1>12, <1>13, <1>14 DEF SerialAt

\* remove_file.
LEMMA UnlinkSerial ==
  ASSUME NEW t \in Threads, NEW a, NEW q, NEW l, NEW r, Goes(t, a, q, l, r), Unlink(t)
  PROVE  SerialAt(l, r)'
<1> USE DEF disk, ledger, rest, calls, marks, At, Goto
<1>0. /\ pc \in [Threads -> Labels] /\ reg \in [Threads -> Reg] /\ q \in Reg /\ Fits(a, q)
      /\ file \in [Keys -> Maybe] /\ file' \in [Keys -> Maybe] /\ entries \in [Keys -> Maybe]
      /\ total \in Nat /\ bytes \in Nat /\ count \in Int
      /\ a = pc[t] /\ q = reg[t] /\ l = pc'[t] /\ r = reg'[t] /\ SerialAt(a, q)
      /\ restarts' = restarts /\ (netted => netted') /\ ~Levels /\ ~failed'
      /\ (OwnEvicted # {} => netted')
  BY DEF Goes
<1>1. a = "unlink" /\ r = q /\ UNCHANGED <<entries, bytes, count, total, spawned>>
  BY <1>0 DEF Unlink, Stay
<1>2. q.op \in Removers /\ q.victim \in Keys
  BY <1>0, <1>1 DEF Fits
<1>3. /\ BudgetAt(a, q) /\ QuotaAt(a, q) /\ Listed(q) /\ q.victim \notin TodoKeys(q)
      /\ Room(0) /\ q.op # "discard"
  BY <1>0, <1>1 DEF SerialAt, ListAt, AtFile, BudgetAt
<1>4. Found(t) <=> file[q.victim] # None
  BY <1>0 DEF Found
<1>5. q.op \in Purges => PurgeAt(a, q)
  BY <1>0 DEF SerialAt
<1>6. ASSUME q.op \notin Purges
      PROVE  /\ entries = file /\ bytes = Total(file) /\ count = Cardinality(Full(file))
             /\ q.len = Bytes(file[q.victim])
             /\ q.op \in {"put", "sweep", "evict"} => file[q.victim] # None
  <2>1. /\ q.len = Bytes(file[q.victim])
        /\ q.op \in {"put", "sweep", "evict"} => file[q.victim] # None
    BY <1>0, <1>1, <1>6 DEF SerialAt, LedgerAt
  <2>2. QED
    BY <1>0, <1>1, <1>6, <2>1, ExactFrom
<1>7. CASE file[q.victim] = None
  <2>1. q.op \notin Purges
    BY <1>1, <1>5, <1>7 DEF PurgeAt
  <2>2. q.op \in {"remove", "urls"}
    BY <1>2, <1>3, <1>6, <1>7, <2>1 DEF Removers, Purges
  <2>3. l = "unmap" /\ file' = file
    BY <1>0, <1>4, <1>7, <2>2 DEF Unlink
  <2>4. LedgerAt(l, r)'
    BY <1>1, <1>6, <1>7, <2>1, <2>3 DEF LedgerAt, Elsewhere, Tallied
  <2>5. BudgetAt(l, r)'
    BY <1>0, <1>1, <1>3, <2>2, <2>3 DEF BudgetAt, Room
  <2>6. QuotaAt(l, r)'
    BY <1>0, <1>1, <1>3, <2>2 DEF QuotaAt, OverQuota
  <2>7. ListAt(l, r)'
    BY <1>1, <1>3, <2>3 DEF ListAt, Listed
  <2>8. QED
    BY <1>1, <2>1, <2>4, <2>5, <2>6, <2>7 DEF SerialAt
<1>8. CASE file[q.victim] # None
  <2>1. /\ file' = [file EXCEPT ![q.victim] = None]
        /\ l = IF q.op \in Untracks THEN "untrack" ELSE IF q.op \in Unmaps THEN "unmap" ELSE "loop"
    BY <1>0, <1>4, <1>8 DEF Unlink
  <2>2. (\A k \in Keys : k # q.victim => file[k] = file'[k]) /\ file'[q.victim] = None
    BY <1>0, <1>2, <2>1
  <2>3. q.len = Bytes(file[q.victim])
    BY <1>1, <1>5, <1>6 DEF PurgeAt
  <2>4. /\ Total(file) \in Nat /\ Total(file') \in Nat /\ q.len \in Nat
        /\ Total(file') + q.len = Total(file)
    <3>1. Total(file') + Bytes(file[q.victim]) = Total(file) + Bytes(None)
      BY <1>0, <1>2, <2>2, TotalChange
    <3>2. Total(file) \in Nat /\ Total(file') \in Nat /\ q.len \in Nat /\ Bytes(None) = 0
      BY <1>0, TotalBound, RegTypes DEF Bytes
    <3>3. QED
      BY <2>3, <3>1, <3>2
  <2>5. q.op \notin Purges => l \in {"untrack", "unmap"}
    BY <1>2, <2>1 DEF Removers, Untracks, Unmaps, Purges
  <2>6. q.op \notin Purges => LedgerAt(l, r)'
    BY <1>1, <1>6, <2>2, <2>3, <2>5 DEF LedgerAt, Elsewhere, Tallied
  <2>7. ASSUME q.op \in Purges PROVE PurgeAt(l, r)'
    <3>1. l \in {"untrack", "loop"} /\ (l = "untrack" => q.op = "namespace")
      BY <2>1, <2>7 DEF Purges, Untracks, Unmaps
    <3>2. \A k \in Keys : file'[k] # None => k \in TodoKeys(q)
      BY <1>5, <2>2, <2>7 DEF PurgeAt
    <3>3. QED
      BY <1>1, <3>1, <3>2 DEF PurgeAt
  <2>8. BudgetAt(l, r)'
    <3>1. ~netted' => total >= Total(file') + q.len /\ total >= Total(file') + 0
      BY <1>0, <1>3, <2>4 DEF Room
    <3>2. q.op = "put" /\ ~netted' => file'[q.key] = q.old
      <4>1. SUFFICES ASSUME q.op = "put", ~netted' PROVE file'[q.key] = q.old
        OBVIOUS
      <4>2. q.key \in Keys /\ file[q.key] = q.old
        BY <1>0, <1>1, <1>3, <4>1 DEF BudgetAt, Fits
      <4>3. t \notin OwnEvicted
        BY <1>0, <4>1
      <4>4. ~(q.victim = q.key /\ file'[q.key] # file[q.key])
        BY <1>0, <1>1, <4>1, <4>3 DEF OwnEvicted
      <4>5. QED
        BY <2>2, <4>2, <4>4
    <3>3. l \in {"untrack", "unmap", "loop"}
      BY <2>1
    <3>4. QED
      BY <1>1, <3>1, <3>2, <3>3 DEF BudgetAt, Room
  <2>9. QuotaAt(l, r)'
    <3>1. q.op = "evict" => l = "unmap"
      BY <2>1 DEF Untracks, Unmaps
    <3>2. l \in {"untrack", "unmap", "loop"}
      BY <2>1
    <3>3. CASE q.op = "evict"
      <4>1. Quota > 0 /\ bytes <= Quota + Part(entries, TodoKeys(q)) + Bytes(entries[q.victim])
        BY <1>1, <1>3, <3>3 DEF QuotaAt, Left
      <4>2. QED
        BY <1>1, <3>1, <3>3, <4>1 DEF QuotaAt, Left
    <3>4. CASE q.op # "evict"
      BY <1>0, <1>1, <1>3, <3>4 DEF QuotaAt, OverQuota
    <3>5. QED
      BY <3>3, <3>4
  <2>10. Listed(r)'
    <3>1. \A x \in q.todo : x[1] \in TodoKeys(q) /\ x[1] \in Keys
      BY <1>0, RegTypes DEF TodoKeys
    <3>2. \A x \in q.todo : file'[x[1]] = file[x[1]]
      BY <1>3, <2>2, <3>1
    <3>3. QED
      BY <1>1, <1>3, <3>2 DEF Listed
  <2>11. ListAt(l, r)'
    BY <1>1, <1>3, <2>1, <2>10 DEF ListAt
  <2>12. QED
    BY <1>1, <2>6, <2>7, <2>8, <2>9, <2>11 DEF SerialAt
<1>9. QED
  BY <1>7, <1>8

\* track_removed.
LEMMA UntrackSerial ==
  ASSUME NEW t \in Threads, NEW a, NEW q, NEW l, NEW r, Goes(t, a, q, l, r), Untrack(t)
  PROVE  SerialAt(l, r)'
<1> USE DEF disk, ledger, rest, calls, marks, At, Goto
<1>0. /\ pc \in [Threads -> Labels] /\ reg \in [Threads -> Reg] /\ q \in Reg /\ Fits(a, q)
      /\ file \in [Keys -> Maybe] /\ total \in Nat /\ bytes \in Nat /\ count \in Int
      /\ a = pc[t] /\ q = reg[t] /\ l = pc'[t] /\ r = reg'[t] /\ SerialAt(a, q)
      /\ restarts' = restarts /\ (netted => netted')
  BY DEF Goes
<1>2. BudgetAt(a, q) /\ QuotaAt(a, q) /\ ListAt(a, q)
  BY <1>0 DEF SerialAt
<1>1. /\ a = "untrack" /\ r = q /\ l = IF q.op = "namespace" THEN "unheat" ELSE "unmap"
      /\ total' = Less(total, q.len) /\ UNCHANGED <<file, entries, bytes, count, spawned>>
  BY <1>0, <1>2 DEF Untrack, Stay, ListAt, AtFile
<1>3. q.op \notin Purges => LedgerAt(l, r)'
  BY <1>0, <1>1 DEF SerialAt, LedgerAt, Elsewhere, Tallied, Purges
<1>4. q.op \in Purges => PurgeAt(l, r)'
  BY <1>0, <1>1 DEF SerialAt, PurgeAt
<1>5. BudgetAt(l, r)'
  <2>1. ~netted' => total >= Total(file) + q.len
    BY <1>0, <1>1, <1>2 DEF BudgetAt, Room
  <2>2. Total(file) \in Nat /\ q.len \in Nat
    BY <1>0, TotalBound, RegTypes
  <2>3. ~netted' => total' >= Total(file) + 0
    BY <1>0, <1>1, <2>1, <2>2 DEF Less
  <2>4. q.op = "put" /\ ~netted' => file[q.key] = q.old
    BY <1>0, <1>1, <1>2 DEF BudgetAt
  <2>5. QED
    BY <1>1, <2>3, <2>4 DEF BudgetAt, Room
<1>6. QuotaAt(l, r)'
  <2>1. CASE q.op = "evict"
    <3>1. Quota > 0 /\ bytes <= Quota + Part(entries, TodoKeys(q)) + Bytes(entries[q.victim])
      BY <1>1, <1>2, <2>1 DEF QuotaAt, Left
    <3>2. QED
      BY <1>1, <2>1, <3>1 DEF QuotaAt, Left
  <2>2. CASE q.op # "evict"
    BY <1>0, <1>1, <1>2, <2>2 DEF QuotaAt, OverQuota
  <2>3. QED
    BY <2>1, <2>2
<1>7. ListAt(l, r)'
  BY <1>1, <1>2 DEF ListAt, Listed, AtFile
<1>8. QED
  BY <1>1, <1>3, <1>4, <1>5, <1>6, <1>7 DEF SerialAt

\* remove_hot: nothing that counts.
LEMMA UnheatSerial ==
  ASSUME NEW t \in Threads, NEW a, NEW q, NEW l, NEW r, Goes(t, a, q, l, r), Unheat(t)
  PROVE  SerialAt(l, r)'
<1> USE DEF disk, ledger, rest, calls, marks, At, Goto
<1>0. /\ pc \in [Threads -> Labels] /\ reg \in [Threads -> Reg] /\ q \in Reg /\ Fits(a, q)
      /\ a = pc[t] /\ q = reg[t] /\ l = pc'[t] /\ r = reg'[t] /\ SerialAt(a, q)
      /\ restarts' = restarts /\ (netted => netted')
  BY DEF Goes
<1>1. a = "unheat" /\ r = q /\ l = "loop" /\ Kept /\ spawned' = spawned
  BY <1>0 DEF Unheat, Stay, Kept
<1>2. q.op = "namespace"
  BY <1>0, <1>1 DEF Fits
<1>3. BudgetAt(a, q) /\ QuotaAt(a, q) /\ ListAt(a, q) /\ PurgeAt(a, q)
  BY <1>0, <1>2 DEF SerialAt, Purges
<1>4. PurgeAt(l, r)'
  BY <1>1, <1>3 DEF PurgeAt, Kept
<1>5. BudgetAt(l, r)'
  BY <1>0, <1>1, <1>2, <1>3 DEF BudgetAt, Room, Kept
<1>6. QuotaAt(l, r)'
  BY <1>0, <1>1, <1>2, <1>3 DEF QuotaAt, OverQuota, Kept
<1>7. ListAt(l, r)'
  BY <1>1, <1>3 DEF ListAt, Listed, AtFile, Kept
<1>8. QED
  BY <1>1, <1>2, <1>4, <1>5, <1>6, <1>7 DEF SerialAt, Purges

\* record_remove: the entry.
LEMMA UnmapSerial ==
  ASSUME NEW t \in Threads, NEW a, NEW q, NEW l, NEW r, Goes(t, a, q, l, r), Unmap(t),
         q.op \notin Purges
  PROVE  SerialAt(l, r)'
<1> USE DEF disk, ledger, rest, calls, marks, At, Goto
<1>0. /\ pc \in [Threads -> Labels] /\ reg \in [Threads -> Reg] /\ q \in Reg /\ Fits(a, q)
      /\ file \in [Keys -> Maybe] /\ entries \in [Keys -> Maybe] /\ entries' \in [Keys -> Maybe]
      /\ total \in Nat /\ bytes \in Nat /\ count \in Int
      /\ a = pc[t] /\ q = reg[t] /\ l = pc'[t] /\ r = reg'[t] /\ SerialAt(a, q)
      /\ restarts' = restarts /\ (netted => netted')
  BY DEF Goes
<1>1. /\ a = "unmap" /\ l = "free" /\ entries' = [entries EXCEPT ![q.victim] = None]
      /\ UNCHANGED <<file, bytes, count, total, spawned>>
  BY <1>0 DEF Unmap
<1>2. q.victim \in Keys
  BY <1>0, <1>1 DEF Fits
<1>3. /\ r.op = q.op /\ r.key = q.key /\ r.old = q.old /\ r.victim = q.victim /\ r.todo = q.todo
      /\ r.prev = entries[q.victim]
      /\ r.len = IF entries[q.victim] # None THEN Bytes(entries[q.victim])
                 ELSE IF q.op = "remove" THEN 0 ELSE q.len
  BY <1>0 DEF Unmap, Reg
<1>4. LedgerAt(a, q) /\ BudgetAt(a, q) /\ QuotaAt(a, q) /\ ListAt(a, q)
  BY <1>0 DEF SerialAt
<1>5. /\ \A k \in Keys : k # q.victim => entries[k] = file[k]
      /\ file[q.victim] = None /\ bytes = Total(entries) /\ count = Cardinality(Full(entries))
      /\ q.len = Bytes(entries[q.victim])
  BY <1>1, <1>4 DEF LedgerAt, Elsewhere, Tallied
<1>6. r.len = Bytes(entries[q.victim])
  BY <1>3, <1>5 DEF Bytes
<1>7. entries' = file
  BY <1>0, <1>1, <1>2, <1>5
<1>8. Total(file) + Bytes(entries[q.victim]) = Total(entries) + Bytes(None)
  BY <1>0, <1>2, <1>5, TotalChange
<1>9. Cardinality(Full(entries))
        = Cardinality(Full(file)) + IF entries[q.victim] # None THEN 1 ELSE 0
  BY <1>2, <1>5, FullRemoved
<1>10. /\ Total(file) \in Nat /\ Total(entries) \in Nat /\ Bytes(None) = 0
       /\ Bytes(entries[q.victim]) \in Nat
       /\ Cardinality(Full(file)) \in Nat /\ Cardinality(Full(entries)) \in Nat
  BY <1>0, <1>2, TotalBound, BytesFacts, FullFinite DEF Bytes
<1>11. LedgerAt(l, r)'
  <2>1. bytes + 0 = Total(file) + r.len
    BY <1>0, <1>5, <1>6, <1>8, <1>10
  <2>2. count + 0 = Cardinality(Full(file)) + IF r.prev # None THEN 1 ELSE 0
    BY <1>0, <1>3, <1>5, <1>9, <1>10
  <2>3. QED
    BY <1>1, <1>7, <2>1, <2>2 DEF LedgerAt, Missing, Surplus, Uncounted, Overcounted
<1>12. BudgetAt(l, r)'
  BY <1>0, <1>1, <1>3, <1>4 DEF BudgetAt, Room
<1>13. q.victim \notin TodoKeys(q) /\ TodoKeys(r) = TodoKeys(q) /\ TodoKeys(q) \in SUBSET Keys
  BY <1>0, <1>1, <1>3, <1>4, RegTypes DEF ListAt, AtFile, TodoKeys
<1>14. QuotaAt(l, r)'
  <2>1. CASE q.op = "evict"
    <3>1. Quota > 0 /\ bytes <= Quota + Part(entries, TodoKeys(q)) + Bytes(entries[q.victim])
      BY <1>1, <1>4, <2>1 DEF QuotaAt, Left
    <3>2. \A k \in TodoKeys(q) : entries[k] = entries'[k]
      BY <1>0, <1>1, <1>13
    <3>3. Part(entries', TodoKeys(q)) = Part(entries, TodoKeys(q))
      BY <1>0, <1>13, <3>2, PartSame
    <3>4. bytes <= Quota + Part(entries', TodoKeys(r)) + r.len
      BY <1>6, <1>13, <3>1, <3>3
    <3>5. QED
      BY <1>1, <1>3, <2>1, <3>1, <3>4 DEF QuotaAt, Left
  <2>2. CASE q.op # "evict"
    BY <1>0, <1>1, <1>3, <1>4, <2>2 DEF QuotaAt, OverQuota
  <2>3. QED
    BY <2>1, <2>2
<1>15. ListAt(l, r)'
  BY <1>1, <1>3, <1>4, <1>13 DEF ListAt, Listed, AtFile
<1>16. QED
  BY <1>3, <1>11, <1>12, <1>14, <1>15 DEF SerialAt

\* record_remove: the bytes.
LEMMA FreeSerial ==
  ASSUME NEW t \in Threads, NEW a, NEW q, NEW l, NEW r, Goes(t, a, q, l, r), Free(t),
         q.op \notin Purges
  PROVE  SerialAt(l, r)'
<1> USE DEF disk, ledger, rest, calls, marks, At, Goto
<1>0. /\ pc \in [Threads -> Labels] /\ reg \in [Threads -> Reg] /\ q \in Reg /\ Fits(a, q)
      /\ file \in [Keys -> Maybe] /\ entries \in [Keys -> Maybe]
      /\ bytes \in Nat /\ count \in Int
      /\ a = pc[t] /\ q = reg[t] /\ l = pc'[t] /\ r = reg'[t] /\ SerialAt(a, q)
      /\ restarts' = restarts /\ (netted => netted')
  BY DEF Goes
<1>1. /\ a = "free" /\ r = q /\ l = IF q.prev # None THEN "dec" ELSE "loop"
      /\ bytes' = Less(bytes, q.len) /\ UNCHANGED <<file, entries, count, total, spawned>>
  BY <1>0 DEF Free, Stay
<1>2. LedgerAt(a, q) /\ BudgetAt(a, q) /\ QuotaAt(a, q) /\ ListAt(a, q)
  BY <1>0 DEF SerialAt
<1>3. /\ entries = file /\ bytes + 0 = Total(file) + q.len
      /\ count + 0 = Cardinality(Full(file)) + IF q.prev # None THEN 1 ELSE 0
  BY <1>1, <1>2 DEF LedgerAt, Missing, Surplus, Uncounted, Overcounted
<1>4. Total(file) \in Nat /\ q.len \in Nat /\ Cardinality(Full(file)) \in Nat /\ Quota \in Nat
  BY <1>0, TotalBound, RegTypes, FullFinite, CacheAssumption
<1>5. bytes' + 0 = Total(file) + 0 /\ bytes' \in Nat /\ bytes = bytes' + q.len
  BY <1>0, <1>1, <1>3, <1>4 DEF Less
<1>6. LedgerAt(l, r)'
  BY <1>1, <1>3, <1>4, <1>5 DEF LedgerAt, Missing, Surplus, Uncounted, Overcounted
<1>7. BudgetAt(l, r)'
  BY <1>0, <1>1, <1>2 DEF BudgetAt, Room
<1>8. QuotaAt(l, r)'
  <2>1. CASE q.op = "evict"
    <3>1. Quota > 0 /\ bytes <= Quota + Part(entries, TodoKeys(q)) + q.len
      BY <1>1, <1>2, <2>1 DEF QuotaAt, Left
    <3>2. TodoKeys(q) \in SUBSET Keys
      BY <1>0, RegTypes
    <3>3. Part(entries, TodoKeys(q)) \in Nat
      BY <1>0, <3>2, PartFacts
    <3>4. bytes' <= Quota + Part(entries, TodoKeys(q))
      BY <1>4, <1>5, <3>1, <3>3
    <3>5. QED
      BY <1>1, <2>1, <3>1, <3>4 DEF QuotaAt, Left
  <2>2. CASE q.op # "evict"
    <3>1. spawned = 0 /\ restarts = 0 => ~(Quota > 0 /\ bytes > Quota)
      BY <1>1, <1>2, <2>2 DEF QuotaAt, OverQuota
    <3>2. spawned = 0 /\ restarts = 0 => ~(Quota > 0 /\ bytes' > Quota)
      BY <1>4, <1>5, <3>1
    <3>3. QED
      BY <1>0, <1>1, <2>2, <3>2 DEF QuotaAt, OverQuota
  <2>3. QED
    BY <2>1, <2>2
<1>9. ListAt(l, r)'
  BY <1>1, <1>2 DEF ListAt, Listed, AtFile
<1>10. QED
  BY <1>1, <1>6, <1>7, <1>8, <1>9 DEF SerialAt

\* record_remove: the count.
LEMMA DecSerial ==
  ASSUME NEW t \in Threads, NEW a, NEW q, NEW l, NEW r, Goes(t, a, q, l, r), Dec(t),
         q.op \notin Purges
  PROVE  SerialAt(l, r)'
<1> USE DEF disk, ledger, rest, calls, marks, At, Goto
<1>0. /\ pc \in [Threads -> Labels] /\ reg \in [Threads -> Reg]
      /\ bytes \in Nat /\ count \in Int
      /\ a = pc[t] /\ q = reg[t] /\ l = pc'[t] /\ r = reg'[t] /\ SerialAt(a, q)
      /\ restarts' = restarts /\ (netted => netted')
  BY DEF Goes
<1>1. /\ a = "dec" /\ r = q /\ l = "loop"
      /\ count' = count - 1 /\ UNCHANGED <<file, entries, bytes, total, spawned>>
  BY <1>0 DEF Dec, Stay
<1>2. LedgerAt(a, q) /\ BudgetAt(a, q) /\ QuotaAt(a, q) /\ ListAt(a, q)
  BY <1>0 DEF SerialAt
<1>3. /\ entries = file /\ bytes + 0 = Total(file) + 0
      /\ count + 0 = Cardinality(Full(file)) + 1
  BY <1>1, <1>2 DEF LedgerAt, Missing, Surplus, Uncounted, Overcounted
<1>4. Cardinality(Full(file)) \in Nat
  BY FullFinite
<1>5. count' + 0 = Cardinality(Full(file)) + 0
  BY <1>0, <1>1, <1>3, <1>4
<1>6. LedgerAt(l, r)'
  BY <1>1, <1>3, <1>5 DEF LedgerAt, Missing, Surplus, Uncounted, Overcounted
<1>7. BudgetAt(l, r)'
  BY <1>0, <1>1, <1>2 DEF BudgetAt, Room
<1>8. QuotaAt(l, r)'
  <2>1. CASE q.op = "evict"
    <3>1. Quota > 0 /\ bytes <= Quota + Part(entries, TodoKeys(q))
      BY <1>1, <1>2, <2>1 DEF QuotaAt, Left
    <3>2. QED
      BY <1>1, <2>1, <3>1 DEF QuotaAt, Left
  <2>2. CASE q.op # "evict"
    BY <1>0, <1>1, <1>2, <2>2 DEF QuotaAt, OverQuota
  <2>3. QED
    BY <2>1, <2>2
<1>9. ListAt(l, r)'
  BY <1>1, <1>2 DEF ListAt, Listed, AtFile
<1>10. QED
  BY <1>1, <1>6, <1>7, <1>8, <1>9 DEF SerialAt

\* The list is done with, or there is enough room.
LEMMA FinishSerial ==
  ASSUME NEW t \in Threads, NEW a, NEW q, NEW l, NEW r, Goes(t, a, q, l, r), Finish(t)
  PROVE  SerialAt(l, r)'
<1> USE DEF disk, ledger, rest, calls, marks, At, Goto
<1>0. /\ pc \in [Threads -> Labels] /\ reg \in [Threads -> Reg] /\ q \in Reg /\ Fits(a, q)
      /\ file \in [Keys -> Maybe] /\ file' \in [Keys -> Maybe] /\ entries \in [Keys -> Maybe]
      /\ bytes \in Nat /\ count \in Int
      /\ a = pc[t] /\ q = reg[t] /\ l = pc'[t] /\ r = reg'[t] /\ SerialAt(a, q)
      /\ restarts' = restarts /\ (netted => netted')
  BY DEF Goes
<1>1. a = "loop" /\ Kept /\ spawned' = spawned
  BY <1>0 DEF Finish, Kept
<1>2. BudgetAt(a, q) /\ QuotaAt(a, q)
  BY <1>0 DEF SerialAt
<1>3. \/ q.todo = {}
      \/ q.op = "evict" /\ ~OverQuota
      \/ q.op = "put"
  BY <1>0 DEF Finish, Enough
<1>4. q.todo = {} => TodoKeys(q) = {}
  BY DEF TodoKeys
<1>5. CASE q.op \in Purges
  <2>1. l = "clear" /\ r = q
    BY <1>0, <1>5 DEF Finish, Stay, Purges
  <2>2. \A k \in Keys : file[k] = None
    BY <1>0, <1>1, <1>3, <1>4, <1>5 DEF SerialAt, PurgeAt, Purges
  <2>3. PurgeAt(l, r)'
    BY <1>1, <2>1, <2>2 DEF PurgeAt, Kept
  <2>4. BudgetAt(l, r)'
    BY <1>0, <1>1, <1>2, <1>5, <2>1 DEF BudgetAt, Room, Kept, Purges
  <2>5. QuotaAt(l, r)'
    BY <1>0, <1>1, <1>2, <1>5, <2>1 DEF QuotaAt, OverQuota, Kept, Purges
  <2>6. ListAt(l, r)'
    BY <2>1 DEF ListAt, AtFile
  <2>7. QED
    BY <1>5, <2>1, <2>3, <2>4, <2>5, <2>6 DEF SerialAt
<1>6. ASSUME q.op \notin Purges
      PROVE  /\ entries = file /\ bytes = Total(file) /\ count = Cardinality(Full(file)) /\ Room(0)
             /\ Total(file) \in Nat /\ Cardinality(Full(file)) \in Nat
  BY <1>0, <1>1, <1>6, ExactFrom
<1>7. CASE q.op = "put"
  <2>1. l = "write" /\ r = q /\ q.op \notin Purges
    BY <1>0, <1>7 DEF Finish, Stay, Purges
  <2>2. LedgerAt(l, r)'
    BY <1>1, <1>6, <2>1 DEF LedgerAt, Missing, Surplus, Uncounted, Overcounted, Kept
  <2>3. BudgetAt(l, r)'
    BY <1>0, <1>1, <1>2, <2>1 DEF BudgetAt, Room, Kept
  <2>4. QuotaAt(l, r)'
    BY <1>0, <1>1, <1>2, <1>7, <2>1 DEF QuotaAt, OverQuota, Kept
  <2>5. ListAt(l, r)'
    BY <2>1 DEF ListAt, AtFile
  <2>6. QED
    BY <2>1, <2>2, <2>3, <2>4, <2>5 DEF SerialAt
<1>8. CASE q.op \notin Purges /\ q.op # "put"
  <2>1. l = "idle" /\ r.op = "none"
    BY <1>0, <1>8 DEF Finish, End, Register, Purges
  <2>2. spawned = 0 /\ restarts = 0 => ~OverQuota
    <3>1. CASE q.op = "evict" /\ q.todo = {}
      <4>1. Quota > 0 /\ bytes <= Quota + Part(entries, {})
        BY <1>1, <1>2, <1>4, <3>1 DEF QuotaAt, Left
      <4>2. {} \in SUBSET Keys /\ Quota \in Nat
        BY CacheAssumption
      <4>3. Part(entries, {}) = 0
        BY <1>0, <4>2, PartFacts
      <4>4. QED
        BY <1>0, <4>1, <4>2, <4>3 DEF OverQuota
    <3>2. CASE q.op # "evict"
      BY <1>1, <1>2, <3>2 DEF QuotaAt
    <3>3. QED
      BY <1>3, <1>8, <3>1, <3>2
  <2>3. Rested
    BY <1>6, <1>8, <2>2 DEF Rested
  <2>4. Rested'
    BY <1>1, <2>3, RestedKept
  <2>5. QED
    BY <1>0, <2>1, <2>4, RestedTo DEF Early, Purges
<1>9. QED
  BY <1>5, <1>7, <1>8

\* reset_domain, with nothing left on disk.
LEMMA ResetSerial ==
  ASSUME NEW t \in Threads, NEW a, NEW q, NEW l, NEW r, Goes(t, a, q, l, r),
         ClearEntries(t) \/ ZeroBytes(t) \/ ZeroCount(t)
  PROVE  SerialAt(l, r)'
<1> USE DEF disk, ledger, rest, calls, marks, At, Goto
<1>0. /\ pc \in [Threads -> Labels] /\ reg \in [Threads -> Reg] /\ q \in Reg /\ Fits(a, q)
      /\ file \in [Keys -> Maybe] /\ file' \in [Keys -> Maybe] /\ entries \in [Keys -> Maybe]
      /\ bytes \in Nat /\ count \in Int
      /\ a = pc[t] /\ q = reg[t] /\ l = pc'[t] /\ r = reg'[t] /\ SerialAt(a, q)
      /\ restarts' = restarts /\ (netted => netted')
  BY DEF Goes
<1>1. a \in {"clear", "zerobytes", "zerocount"} /\ UNCHANGED <<file, total, spawned>>
  BY <1>0 DEF ClearEntries, ZeroBytes, ZeroCount
<1>2. q.op \in Purges
  BY <1>0, <1>1 DEF Fits, Purges
<1>3. /\ BudgetAt(a, q) /\ QuotaAt(a, q) /\ PurgeAt(a, q) /\ Room(0)
      /\ \A k \in Keys : file[k] = None
  BY <1>0, <1>1, <1>2 DEF SerialAt, BudgetAt, PurgeAt
<1>4. spawned = 0 /\ restarts = 0 => ~(Quota > 0 /\ bytes > Quota)
  BY <1>1, <1>2, <1>3 DEF QuotaAt, OverQuota, Purges
<1>5. Quota \in Nat
  BY CacheAssumption
<1>6. ASSUME ~ZeroCount(t)
      PROVE  BudgetAt(l, r)' /\ ListAt(l, r)' /\ r = q /\ l \in {"zerobytes", "zerocount"}
  <2>1. r = q /\ l \in {"zerobytes", "zerocount"}
    BY <1>0, <1>6 DEF ClearEntries, ZeroBytes, Stay
  <2>2. BudgetAt(l, r)'
    BY <1>0, <1>1, <1>2, <1>3, <2>1 DEF BudgetAt, Room, Purges
  <2>3. ListAt(l, r)'
    BY <2>1 DEF ListAt, AtFile
  <2>4. QED
    BY <2>1, <2>2, <2>3
<1>7. CASE ClearEntries(t)
  <2>1. /\ a = "clear" /\ l = "zerobytes" /\ r = q
        /\ entries' = [k \in Keys |-> None] /\ bytes' = bytes
    BY <1>0, <1>7 DEF ClearEntries, Stay
  <2>2. entries' = file
    BY <1>0, <1>3, <2>1
  <2>3. PurgeAt(l, r)'
    BY <1>1, <1>3, <2>1, <2>2 DEF PurgeAt
  <2>4. QuotaAt(l, r)'
    BY <1>0, <1>1, <1>2, <1>4, <2>1 DEF QuotaAt, OverQuota, Purges
  <2>5. BudgetAt(l, r)' /\ ListAt(l, r)'
    BY <1>0, <1>6, <2>1 DEF ZeroCount
  <2>6. QED
    BY <1>2, <2>1, <2>3, <2>4, <2>5 DEF SerialAt
<1>8. CASE ZeroBytes(t)
  <2>1. a = "zerobytes" /\ l = "zerocount" /\ r = q /\ entries' = entries /\ bytes' = 0
    BY <1>0, <1>8 DEF ZeroBytes, Stay
  <2>2. PurgeAt(l, r)'
    BY <1>1, <1>3, <2>1 DEF PurgeAt
  <2>3. QuotaAt(l, r)'
    BY <1>2, <1>5, <2>1 DEF QuotaAt, OverQuota, Purges
  <2>4. BudgetAt(l, r)' /\ ListAt(l, r)'
    BY <1>0, <1>6, <2>1 DEF ZeroCount
  <2>5. QED
    BY <1>2, <2>1, <2>2, <2>3, <2>4 DEF SerialAt
<1>9. CASE ZeroCount(t)
  <2>1. a = "zerocount" /\ l = "idle" /\ r.op = "none" /\ UNCHANGED <<entries, bytes>> /\ count' = 0
    BY <1>0, <1>9 DEF ZeroCount, End, Register
  <2>2. entries = file /\ bytes = 0
    BY <1>3, <2>1 DEF PurgeAt
  <2>3. Total(file) = 0 /\ Cardinality(Full(file)) = 0
    BY <1>0, <1>3, NoneFull
  <2>4. Rested'
    BY <1>0, <1>1, <1>3, <1>4, <2>1, <2>2, <2>3 DEF Rested, Room, OverQuota
  <2>5. QED
    BY <1>0, <2>1, <2>4, RestedTo DEF Early, Purges
<1>10. QED
  BY <1>7, <1>8, <1>9

\* A temporary file that clear has listed, and that is not there any more.
LEMMA TemporarySerial ==
  ASSUME NEW t \in Threads, NEW a, NEW q, NEW l, NEW r, Goes(t, a, q, l, r), UnlinkTemporary(t)
  PROVE  SerialAt(l, r)'
<1> USE DEF disk, ledger, rest, calls, marks, At, Goto
<1>0. /\ pc \in [Threads -> Labels] /\ reg \in [Threads -> Reg] /\ q \in Reg
      /\ file \in [Keys -> Maybe] /\ bytes \in Nat /\ count \in Int
      /\ a = pc[t] /\ q = reg[t] /\ l = pc'[t] /\ r = reg'[t] /\ SerialAt(a, q)
      /\ restarts' = restarts /\ (netted => netted') /\ ~failed' /\ stray \subseteq stray'
  BY DEF Goes
<1>1. PICK x \in q.temps :
        /\ reg' = [reg EXCEPT ![t].temps = @ \ {x}, ![t].len = Bytes(x[2])]
        /\ UNCHANGED pc
  BY <1>0 DEF UnlinkTemporary
<1>2. a = "loop" /\ l = "loop" /\ q.op = "sweep" /\ Kept /\ spawned' = spawned
  BY <1>0, <1>1 DEF UnlinkTemporary, Kept
<1>3. r.op = "sweep" /\ r.todo = q.todo
  BY <1>0, <1>1, <1>2 DEF Reg
<1>4. /\ entries = file /\ bytes = Total(file) /\ count = Cardinality(Full(file)) /\ Room(0)
      /\ Total(file) \in Nat /\ Cardinality(Full(file)) \in Nat
  BY <1>0, <1>2, ExactFrom DEF Purges
<1>5. QuotaAt(a, q) /\ ListAt(a, q)
  BY <1>0 DEF SerialAt
<1>6. LedgerAt(l, r)'
  BY <1>2, <1>4 DEF Kept, LedgerAt, Missing, Surplus, Uncounted, Overcounted
<1>7. BudgetAt(l, r)'
  BY <1>0, <1>2, <1>3, <1>4 DEF Kept, BudgetAt, Room
<1>8. QuotaAt(l, r)'
  BY <1>0, <1>2, <1>3, <1>5 DEF Kept, QuotaAt, OverQuota
<1>9. ListAt(l, r)'
  BY <1>2, <1>3, <1>5 DEF Kept, ListAt, Listed, AtFile
<1>10. QED
  BY <1>3, <1>6, <1>7, <1>8, <1>9 DEF SerialAt, Purges

\* A thread's step, wherever it is.
LEMMA StepSerial ==
  ASSUME NEW t \in Threads, NEW a, NEW q, NEW l, NEW r, Goes(t, a, q, l, r), ThreadStep(t)
  PROVE  SerialAt(l, r)'
<1>1. a = pc[t] /\ SerialAt(a, q)
  BY DEF Goes
<1>2. ASSUME Unmap(t) \/ Free(t) \/ Dec(t) PROVE q.op \notin Purges
  <2>1. a \in {"unmap", "free", "dec"}
    BY <1>1, <1>2 DEF Unmap, Free, Dec, At
  <2>2. QED
    BY <1>1, <2>1 DEF SerialAt, PurgeAt
<1>3. CASE Unmap(t) \/ Free(t) \/ Dec(t)
  BY <1>2, <1>3, UnmapSerial, FreeSerial, DecSerial
<1>4. CASE Sub(t) \/ Add(t) \/ Inc(t)
  BY <1>4, CountSerial
<1>5. CASE Read(t) \/ Revalidated(t)
  BY <1>5, ReadSerial
<1>6. CASE ClearEntries(t) \/ ZeroBytes(t) \/ ZeroCount(t)
  BY <1>6, ResetSerial
<1>7. CASE \/ Space(t) \/ Write(t) \/ Rename(t) \/ Track(t) \/ Insert(t) \/ Check(t)
           \/ Walk(t)
  BY <1>7, SpaceSerial, WriteSerial, RenameSerial, TrackSerial, InsertSerial, CheckSerial, WalkSerial
<1>8. CASE Candidates(t) \/ Pick(t) \/ Unlink(t) \/ Untrack(t) \/ Unheat(t) \/ Finish(t)
  BY <1>8, CandidatesSerial, PickSerial, UnlinkSerial, UntrackSerial, UnheatSerial, FinishSerial
<1>9. CASE UnlinkTemporary(t)
  BY <1>9, TemporarySerial
<1>10. ~Corrupt(t) /\ ~UntrackTemporary(t) /\ ~FreeTemporary(t)
  <2>1. ~failed' /\ a \notin {"untracktemp", "freetemp"}
    BY <1>1 DEF Goes, SerialAt, ListAt
  <2>2. QED
    BY <1>1, <2>1 DEF Corrupt, UntrackTemporary, FreeTemporary, At
<1>11. QED
  BY <1>3, <1>4, <1>5, <1>6, <1>7, <1>8, <1>9, <1>10 DEF ThreadStep

\* A step that changes nothing of it, of another operation than the one at l.
LEMMA SerialKept ==
  ASSUME Kept, restarts' = restarts, netted => netted', NEW l, NEW r, SerialAt(l, r),
         \/ spawned' = spawned
         \/ ~OverQuota
         \/ r.op = "evict"
  PROVE  SerialAt(l, r)'
<1>1. BudgetAt(l, r) => BudgetAt(l, r)'
  BY DEF BudgetAt, Room, Kept
<1>2. QuotaAt(l, r) => QuotaAt(l, r)'
  <2>1. Left(r)' = Left(r)
    BY DEF Left, Kept
  <2>2. OverQuota' <=> OverQuota
    BY DEF OverQuota, Kept
  <2>3. QED
    BY <2>1, <2>2 DEF QuotaAt, Kept
<1>3. ListAt(l, r) => ListAt(l, r)'
  BY DEF ListAt, Listed, Kept
<1>4. LedgerAt(l, r) => LedgerAt(l, r)'
  BY DEF LedgerAt, Elsewhere, Tallied, Kept
<1>5. PurgeAt(l, r) => PurgeAt(l, r)'
  BY DEF PurgeAt, Kept
<1>6. QED
  BY <1>1, <1>2, <1>3, <1>4, <1>5 DEF SerialAt

\* No operation has registers to speak of.
LEMMA IdleSame ==
  ASSUME NEW q, NEW r, q.op = "none", r.op = "none"
  PROVE  /\ SerialAt("idle", q) => SerialAt("idle", r)
         /\ SerialAt("idle", q)' => SerialAt("idle", r)'
<1> USE DEF LedgerAt, BudgetAt, QuotaAt, ListAt, AtFile, Missing, Surplus, Uncounted, Overcounted
<1>1. /\ LedgerAt("idle", q) => LedgerAt("idle", r)
      /\ LedgerAt("idle", q)' => LedgerAt("idle", r)'
  OBVIOUS
<1>2. /\ BudgetAt("idle", q) => BudgetAt("idle", r)
      /\ BudgetAt("idle", q)' => BudgetAt("idle", r)'
  OBVIOUS
<1>3. /\ QuotaAt("idle", q) => QuotaAt("idle", r)
      /\ QuotaAt("idle", q)' => QuotaAt("idle", r)'
  OBVIOUS
<1>4. ListAt("idle", r) /\ ListAt("idle", r)'
  OBVIOUS
<1>5. QED
  BY <1>1, <1>2, <1>3, <1>4 DEF SerialAt, Purges

\* Steps of the threads restart nothing, and forget no failure.
LEMMA NoRestart ==
  ASSUME NEW t \in Threads, Operation(t) \/ EvictToFit(t) \/ ThreadStep(t)
  PROVE  restarts' = restarts /\ (~failed' => ~failed)
<1> USE DEF disk, ledger, rest, calls, marks
<1>1. CASE Operation(t)
  <2>1. ASSUME NEW k \in Keys, \/ Put(t, k) \/ UpdateMeta(t, k) \/ Get(t, k)
                               \/ Remove(t, k) \/ PurgeUrls(t, k)
        PROVE  restarts' = restarts /\ (~failed' => ~failed)
    BY <2>1 DEF Put, UpdateMeta, Get, Remove, PurgeUrls
  <2>2. ASSUME NEW op, NEW S, NEW T, Walks(t, op, S, T)
        PROVE  restarts' = restarts /\ (~failed' => ~failed)
    BY <2>2 DEF Walks
  <2>3. QED
    BY <1>1, <2>1, <2>2 DEF Operation, Clear, PurgeNamespace, PurgeDomain
<1>2. CASE EvictToFit(t)
  BY <1>2 DEF EvictToFit
<1>3. CASE \/ Space(t) \/ Write(t) \/ Rename(t) \/ Track(t) \/ Insert(t) \/ Sub(t)
           \/ Add(t) \/ Inc(t) \/ Check(t) \/ Revalidated(t) \/ Read(t) \/ Corrupt(t)
  BY <1>3 DEF Space, Write, Rename, Track, Insert, Sub, Add, Inc, Check, Revalidated, Read,
              Corrupt, BeginPut
<1>4. CASE Walk(t) \/ Candidates(t) \/ Pick(t) \/ Finish(t)
  <2>1. UNCHANGED <<restarts, failed>>
    BY <1>4, Zenon DEF Walk, Candidates, Pick, Finish
  <2>2. QED
    BY <2>1
<1>5. CASE Unlink(t)
  BY <1>5 DEF Unlink
<1>6. CASE Untrack(t) \/ Unheat(t) \/ Unmap(t) \/ Free(t) \/ Dec(t)
  BY <1>6 DEF Untrack, Unheat, Unmap, Free, Dec
<1>7. CASE ClearEntries(t) \/ ZeroBytes(t) \/ ZeroCount(t)
  BY <1>7 DEF ClearEntries, ZeroBytes, ZeroCount
<1>8. CASE UnlinkTemporary(t) \/ UntrackTemporary(t) \/ FreeTemporary(t)
  <2>1. restarts' = restarts
    BY <1>8 DEF UnlinkTemporary, UntrackTemporary, FreeTemporary
  <2>2. UNCHANGED failed \/ failed' = TRUE
    <3>1. CASE UnlinkTemporary(t)
      BY <3>1, Zenon DEF UnlinkTemporary
    <3>2. CASE UntrackTemporary(t) \/ FreeTemporary(t)
      BY <3>2 DEF UntrackTemporary, FreeTemporary
    <3>3. QED
      BY <1>8, <3>1, <3>2
  <2>3. QED
    BY <2>1, <2>2
<1>9. QED
  BY <1>1, <1>2, <1>3, <1>4, <1>5, <1>6, <1>7, <1>8 DEF ThreadStep

\* No two operations at once.
LEMMA AloneNext ==
  ASSUME Next, ~overlapped'
  PROVE  ~overlapped /\ \A t, u \in Threads : pc'[t] # "idle" /\ pc'[u] # "idle" => t = u
<1> DEFINE S == {t \in Threads : pc'[t] # "idle"}
<1>1. ~overlapped /\ ~(Cardinality(S) > 1)
  BY DEF Next
<1>2. IsFiniteSet(S) /\ Cardinality(S) \in Nat
  BY CacheAssumption, FS_Subset, FS_CardinalityType
<1>3. ASSUME NEW t \in Threads, NEW u \in Threads, pc'[t] # "idle", pc'[u] # "idle", t # u
      PROVE  FALSE
  <2>1. t \in S /\ u \in S
    BY <1>3
  <2> HIDE DEF S
  <2>2. IsFiniteSet(S \ {t}) /\ Cardinality(S \ {t}) = Cardinality(S) - 1
    BY <1>2, <2>1, FS_RemoveElement
  <2>3. S \ {t} # {}
    BY <1>3, <2>1
  <2>4. Cardinality(S \ {t}) # 0
    BY <2>2, <2>3, FS_EmptySet
  <2>5. Cardinality(S \ {t}) \in Nat
    BY <2>2, FS_CardinalityType
  <2>6. QED
    BY <1>1, <1>2, <2>2, <2>4, <2>5
<1>4. QED
  BY <1>1, <1>3

\* Two operations are never at once: the others are where they were.
LEMMA AloneStep ==
  ASSUME CacheInv, BoundInv, SerialInv, Next, ~overlapped', ~failed', ~Levels, ~swept',
         NEW t \in Threads, NEW l, NEW r, Moved(t, l, r),
         Operation(t) \/ EvictToFit(t) \/ ThreadStep(t),
         pc[t] # "idle" \/ l # "idle",
         EvictToFit(t) => OverQuota /\ ~evicting
  PROVE  SerialInv'
<1>1. ~overlapped /\ \A u, v \in Threads : pc'[u] # "idle" /\ pc'[v] # "idle" => u = v
  BY AloneNext
<1>2. restarts' = restarts /\ ~failed /\ ~swept /\ stray \subseteq stray'
  <2>1. restarts' = restarts /\ ~failed
    BY NoRestart
  <2>2. ~swept /\ stray \subseteq stray'
    BY <2>1, Zenon DEF Next
  <2>3. QED
    BY <2>1, <2>2
<1>3. /\ \A u, v \in Threads : pc[u] # "idle" /\ pc[v] # "idle" => u = v
      /\ Quiet => SerialAt("idle", Register)
      /\ \A u \in Threads : pc[u] # "idle" => SerialAt(pc[u], reg[u])
  BY <1>1, <1>2 DEF SerialInv
<1>4. /\ pc'[t] = l /\ reg'[t] = r
      /\ \A u \in Threads \ {t} : pc'[u] = pc[u] /\ reg'[u] = reg[u]
      /\ \A u \in Threads : Fits(pc'[u], reg'[u]) /\ Fits(pc[u], reg[u])
      /\ l \in Labels /\ r \in Reg
  BY MovedFacts DEF CacheInv, ShapeInv, Moved
<1>5. \A u \in Threads \ {t} : pc[u] = "idle" /\ pc'[u] = "idle"
  BY <1>1, <1>3, <1>4
<1>6. SerialAt(pc[t], reg[t])
  <2>1. CASE pc[t] # "idle"
    BY <1>3, <2>1
  <2>2. CASE pc[t] = "idle"
    <3>1. Quiet
      BY <1>5, <2>2 DEF Quiet, At
    <3>2. reg[t].op = "none" /\ Register.op = "none"
      BY <1>4, <2>2 DEF Fits, Register
    <3>3. QED
      BY <1>3, <2>2, <3>1, <3>2, IdleSame
  <2>3. QED
    BY <2>1, <2>2
<1>7. Goes(t, pc[t], reg[t], l, r)
  <2>1. (netted => netted') /\ (OwnEvicted # {} => netted')
    BY <1>2, Zenon DEF Next
  <2>2. file' \in [Keys -> Maybe] /\ entries' \in [Keys -> Maybe]
    BY StateTypes DEF Next, CacheInv
  <2>3. /\ pc \in [Threads -> Labels] /\ reg \in [Threads -> Reg]
        /\ file \in [Keys -> Maybe] /\ entries \in [Keys -> Maybe] /\ count \in Int
    BY DEF CacheInv, ShapeInv, TypeInv
  <2>4. total \in Nat /\ bytes \in Nat /\ spawned \in Nat
    BY DEF BoundInv
  <2>5. QED
    BY <1>2, <1>4, <1>6, <2>1, <2>2, <2>3, <2>4 DEF Goes
<1>8. SerialAt(l, r)'
  BY <1>7, CallSerial, EvictSerial, StepSerial
<1>9. Quiet' => SerialAt("idle", Register)'
  <2>1. SUFFICES ASSUME l = "idle" PROVE SerialAt("idle", Register)'
    BY <1>4 DEF Quiet, At
  <2>2. r.op = "none" /\ Register.op = "none"
    BY <1>4, <2>1 DEF Fits, Register
  <2>3. QED
    BY <1>8, <2>1, <2>2, IdleSame
<1>10. \A u \in Threads : pc'[u] # "idle" => SerialAt(pc[u], reg[u])'
  BY <1>4, <1>5, <1>8
<1>11. QED
  BY <1>1, <1>9, <1>10 DEF SerialInv

\* Where everyone stays where they are.
LEMMA AllStay ==
  ASSUME CacheInv, SerialInv, UNCHANGED pc, \A t \in Threads : pc[t] # "idle" => reg'[t] = reg[t],
         ~overlapped' => ~overlapped, ~failed' => ~failed, ~swept' => ~swept,
         Kept, restarts' = restarts, netted => netted',
         spawned' = spawned \/ ~OverQuota \/ evicting
  PROVE  SerialInv'
<1>1. SUFFICES ASSUME ~overlapped', ~failed', ~Levels, ~swept'
               PROVE  /\ \A t, u \in Threads : pc'[t] # "idle" /\ pc'[u] # "idle" => t = u
                      /\ Quiet' => SerialAt("idle", Register)'
                      /\ \A t \in Threads : pc'[t] # "idle" => SerialAt(pc[t], reg[t])'
  BY DEF SerialInv
<1>2. /\ \A t, u \in Threads : pc[t] # "idle" /\ pc[u] # "idle" => t = u
      /\ Quiet => SerialAt("idle", Register)
      /\ \A t \in Threads : pc[t] # "idle" => SerialAt(pc[t], reg[t])
  BY <1>1 DEF SerialInv
<1>3. evicting => \E u \in Threads : pc[u] # "idle" /\ reg[u].op = "evict"
  BY DEF CacheInv, ShapeInv, EvictInv, Evicts, Fits
<1>4. ASSUME Quiet' PROVE SerialAt("idle", Register)'
  <2>1. Quiet /\ ~evicting
    BY <1>3, <1>4 DEF Quiet, At
  <2>2. QED
    BY <1>2, <2>1, SerialKept
<1>5. ASSUME NEW t \in Threads, pc'[t] # "idle" PROVE SerialAt(pc[t], reg[t])'
  <2>1. pc[t] # "idle" /\ pc'[t] = pc[t] /\ reg'[t] = reg[t]
    BY <1>5
  <2>2. evicting => reg[t].op = "evict"
    BY <1>2, <1>3, <2>1
  <2>3. SerialAt(pc[t], reg[t])
    BY <1>2, <2>1
  <2>4. PICK l, r : l = pc[t] /\ r = reg[t]
    OBVIOUS
  <2>5. SerialAt(l, r)'
    BY <2>2, <2>3, <2>4, SerialKept
  <2>6. QED
    BY <2>1, <2>4, <2>5
<1>6. QED
  BY <1>1, <1>2, <1>4, <1>5

\* Nothing is on disk at first.
LEMMA InitSerial == Init => SerialInv
<1> SUFFICES ASSUME Init PROVE SerialInv
  OBVIOUS
<1>1. \A t \in Threads : pc[t] = "idle"
  BY DEF Init
<1>2. /\ file \in [Keys -> Maybe] /\ (\A k \in Keys : file[k] = None) /\ entries = file
      /\ bytes = 0 /\ count = 0 /\ total = 0
  BY DEF Init, Maybe
<1>3. Total(file) = 0 /\ Cardinality(Full(file)) = 0 /\ Quota \in Nat
  BY <1>2, NoneFull, CacheAssumption
<1>4. Register.op = "none"
  BY DEF Register
<1>5. LedgerAt("idle", Register)
  BY <1>2, <1>3 DEF LedgerAt, Missing, Surplus, Uncounted, Overcounted
<1>6. BudgetAt("idle", Register) /\ QuotaAt("idle", Register)
  BY <1>2, <1>3, <1>4 DEF BudgetAt, Room, QuotaAt, OverQuota
<1>7. ListAt("idle", Register)
  BY DEF ListAt, AtFile
<1>8. SerialAt("idle", Register)
  BY <1>4, <1>5, <1>6, <1>7 DEF SerialAt, Purges
<1>9. QED
  BY <1>1, <1>8 DEF SerialInv

\* A process that starts anew measures what is there.
LEMMA RestartSerial ==
  ASSUME CacheInv, BoundInv, Step, Restart PROVE SerialInv'
<1>0. stray' \in SUBSET (Nat \X Objects) /\ IsFiniteSet(stray') /\ total' \in Nat
  BY StateTypes, NextBound DEF CacheInv, BoundInv
<1>1. /\ file' = file /\ entries' = file /\ total' = Total(file) + Litter(stray')
      /\ bytes' = Total(file)
      /\ count' = Cardinality(OnDisk) /\ restarts' = restarts + 1 /\ restarts \in Nat
      /\ file \in [Keys -> Maybe] /\ \A t \in Threads : pc'[t] = "idle"
  BY DEF Restart, CacheInv, ShapeInv, TypeInv
<1>2. OnDisk = Full(file) /\ Total(file) \in Nat /\ Litter(stray') \in Nat
  BY <1>0, <1>1, TotalBound, LitterBound DEF OnDisk, Full
<1>3. restarts' # 0 /\ total' >= Total(file) + 0
  BY <1>1, <1>2
<1>4. Rested'
  BY <1>1, <1>2, <1>3 DEF Rested, Room
<1>5. Register.op = "none" /\ file' \in [Keys -> Maybe]
  BY <1>1 DEF Register
<1>6. SerialAt("idle", Register)'
  BY <1>4, <1>5, RestedTo DEF Early, Purges
<1>7. QED
  BY <1>1, <1>6 DEF SerialInv

\* Operations begin without touching the disk or the ledger.
LEMMA CallKept ==
  ASSUME NEW t \in Threads, Operation(t) PROVE Kept /\ spawned' = spawned
<1> USE DEF disk, ledger, rest, calls, marks, Kept
<1>1. ASSUME NEW k \in Keys, \/ Put(t, k) \/ UpdateMeta(t, k) \/ Get(t, k)
                             \/ Remove(t, k) \/ PurgeUrls(t, k)
      PROVE  Kept /\ spawned' = spawned
  BY <1>1 DEF Put, UpdateMeta, Get, Remove, PurgeUrls
<1>2. ASSUME NEW op, NEW S, NEW T, Walks(t, op, S, T) PROVE Kept /\ spawned' = spawned
  BY <1>2 DEF Walks
<1>3. QED
  BY <1>1, <1>2 DEF Operation, Clear, PurgeNamespace, PurgeDomain

\* Every step keeps the ledger with the operation under way.
LEMMA NextSerial ==
  ASSUME CacheInv, BoundInv, SerialInv, Next PROVE SerialInv'
<1>0. pc \in [Threads -> Labels] /\ reg \in [Threads -> Reg] /\ ShapeInv
  BY DEF CacheInv, ShapeInv, TypeInv
<1>1. CASE Restart
  BY <1>1, RestartSerial DEF Next
<1>2. restarts' = restarts => (netted => netted') /\ (~swept' => ~swept)
  BY Zenon DEF Next
<1>3. ~overlapped' => ~overlapped
  BY AloneNext
<1>4. CASE \E k \in Keys : HotDrops(k)
  <2>1. UNCHANGED <<pc, reg, restarts, failed, spawned>> /\ Kept
    BY <1>4 DEF HotDrops, Kept, ledger, calls, marks
  <2>2. (~failed' => ~failed) /\ \A t \in Threads : reg'[t] = reg[t]
    BY <2>1
  <2>3. QED
    BY <1>2, <1>3, <2>1, <2>2, AllStay
<1>5. ASSUME NEW t \in Threads, ThreadStep(t) PROVE SerialInv'
  <2>1. pc[t] # "idle"
    <3>1. CASE \/ Space(t) \/ Write(t) \/ Rename(t) \/ Track(t) \/ Insert(t) \/ Sub(t)
               \/ Add(t) \/ Inc(t) \/ Check(t) \/ Revalidated(t) \/ Read(t) \/ Corrupt(t)
      BY <3>1 DEF Space, Write, Rename, Track, Insert, Sub, Add, Inc, Check, Revalidated, Read,
                  Corrupt, At
    <3>2. CASE \/ Walk(t) \/ Candidates(t) \/ Pick(t) \/ Unlink(t) \/ Untrack(t) \/ Unheat(t)
               \/ Unmap(t) \/ Free(t) \/ Dec(t) \/ Finish(t)
      BY <3>2 DEF Walk, Candidates, Pick, Unlink, Untrack, Unheat, Unmap, Free, Dec, Finish, At
    <3>3. CASE ClearEntries(t) \/ ZeroBytes(t) \/ ZeroCount(t)
      BY <3>3 DEF ClearEntries, ZeroBytes, ZeroCount, At
    <3>4. CASE UnlinkTemporary(t) \/ UntrackTemporary(t) \/ FreeTemporary(t)
      BY <3>4 DEF UnlinkTemporary, UntrackTemporary, FreeTemporary, At
    <3>5. QED
      BY <1>5, <3>1, <3>2, <3>3, <3>4 DEF ThreadStep
  <2>2. PICK l, r : Moved(t, l, r)
    BY <1>0, <1>5, PutMoves, RemovalMoves DEF ThreadStep
  <2>3. ~EvictToFit(t)
    BY <2>1 DEF EvictToFit, At
  <2>4. CASE ~overlapped' /\ ~failed' /\ ~Levels /\ ~swept'
    BY <1>5, <2>1, <2>2, <2>3, <2>4, AloneStep
  <2>5. CASE ~(~overlapped' /\ ~failed' /\ ~Levels /\ ~swept')
    BY <2>5 DEF SerialInv
  <2>6. QED
    BY <2>4, <2>5
<1>6. ASSUME NEW t \in Threads, Operation(t) PROVE SerialInv'
  <2>1. PICK l, r : Moved(t, l, r)
    BY <1>0, <1>6, OperationMoves
  <2>2. pc[t] = "idle"
    BY <1>6 DEF Operation, Put, UpdateMeta, Get, Remove, PurgeUrls, Clear, PurgeNamespace,
                PurgeDomain, Walks, Call, At
  <2>3. CASE l = "idle"
    <3>1. UNCHANGED pc /\ \A u \in Threads : pc[u] # "idle" => reg'[u] = reg[u]
      BY <1>0, <2>1, <2>2, <2>3 DEF Moved
    <3>2. QED
      BY <1>2, <1>3, <1>6, <3>1, AllStay, CallKept, NoRestart
  <2>4. CASE l # "idle" /\ ~overlapped' /\ ~failed' /\ ~Levels /\ ~swept'
    <3>1. pc'[t] # "idle"
      BY <1>0, <2>1, <2>4 DEF Moved
    <3>2. ~EvictToFit(t) \/ spawned' = spawned - 1
      BY DEF EvictToFit
    <3>3. ~EvictToFit(t)
      BY <1>6, <3>2, CallKept DEF BoundInv
    <3>4. QED
      BY <1>6, <2>1, <2>4, <3>3, AloneStep
  <2>5. CASE ~(~overlapped' /\ ~failed' /\ ~Levels /\ ~swept')
    BY <2>5 DEF SerialInv
  <2>6. QED
    BY <2>3, <2>4, <2>5
<1>7. ASSUME NEW t \in Threads, EvictToFit(t) PROVE SerialInv'
  <2>1. CASE ~OverQuota \/ evicting
    <3>1. UNCHANGED <<pc, reg>> /\ Kept
      BY <1>7, <2>1 DEF EvictToFit, Kept, disk
    <3>2. \A u \in Threads : reg'[u] = reg[u]
      BY <3>1
    <3>3. QED
      BY <1>2, <1>3, <1>7, <2>1, <3>1, <3>2, AllStay, NoRestart
  <2>2. CASE ~(~OverQuota \/ evicting) /\ ~overlapped' /\ ~failed' /\ ~Levels /\ ~swept'
    <3>1. pc'[t] = "candidates" /\ pc[t] = "idle"
      BY <1>0, <1>7, <2>2 DEF EvictToFit, Goto, At
    <3>2. PICK l, r : Moved(t, l, r)
      BY <1>0, <1>7, <3>1, EvictMoves
    <3>3. l = "candidates"
      BY <1>0, <3>1, <3>2 DEF Moved
    <3>4. QED
      BY <1>7, <2>2, <3>2, <3>3, AloneStep
  <2>3. CASE ~(~overlapped' /\ ~failed' /\ ~Levels /\ ~swept')
    BY <2>3 DEF SerialInv
  <2>4. QED
    BY <2>1, <2>2, <2>3
<1>8. QED
  BY <1>1, <1>4, <1>5, <1>6, <1>7 DEF Next, Step

\* What the invariant says between operations.
LEMMA SerialHolds == CacheInv /\ BoundInv /\ SerialInv => SerialLedgerExact
<1> SUFFICES ASSUME CacheInv, BoundInv, SerialInv, Quiet, ~overlapped, ~failed, ~Levels,
                    ~swept
             PROVE  /\ entries = file /\ bytes = Total(file) /\ count = Cardinality(OnDisk)
                    /\ ~netted => total >= Total(file)
                    /\ spawned = 0 /\ restarts = 0 => ~OverQuota
  BY DEF SerialLedgerExact
<1>1. file \in [Keys -> Maybe] /\ count \in Int /\ bytes \in Nat
  BY DEF CacheInv, ShapeInv, TypeInv, BoundInv
<1>2. SerialAt("idle", Register) /\ Register.op = "none"
  BY DEF SerialInv, Register
<1>3. Rested
  BY <1>1, <1>2, RestedFrom DEF Early, Purges
<1>4. Full(file) = OnDisk /\ Total(file) \in Nat
  BY <1>1, TotalBound DEF Full, OnDisk
<1>5. QED
  BY <1>3, <1>4 DEF Rested, Room

\* record_write, record_remove, track_written, track_removed and the resets: the
\* ledger and the budget after any sequence of operations that neither overlap
\* nor fail, crashes included, until clear comes to a temporary file that one of
\* them has left (SerialLedgerExact), for any threads, keys, sizes, quota and budget.
THEOREM SerialLedger == Spec => []SerialLedgerExact
<1>1. SerialInv /\ UNCHANGED vars => SerialInv'
  <2> SUFFICES ASSUME SerialInv, UNCHANGED vars PROVE SerialInv'
    OBVIOUS
  <2> USE DEF vars, disk, ledger, rest, calls, marks
  <2>1. \A l, r : SerialAt(l, r) => SerialAt(l, r)'
    BY SerialKept DEF Kept
  <2>2. QED
    BY <2>1 DEF SerialInv, Quiet, At
<1>2. CacheInv /\ BoundInv /\ SerialInv /\ [Next]_vars => SerialInv'
  BY <1>1, NextSerial
<1>3. CacheInv /\ BoundInv /\ [Next]_vars => BoundInv'
  BY NextBound, StutterBound DEF CacheInv, Next
<1>4. QED
  BY <1>2, <1>3, InitBound, InitSerial, CacheInductive, SerialHolds, PTL DEF Spec
=============================================================================
