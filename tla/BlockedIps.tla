----------------------------- MODULE BlockedIps ------------------------------
(* The agent's dynamic IP blocks for one site, in memory                     *)
(* (pingwaf-agent/src/cache/mod.rs).                                         *)
(*                                                                           *)
(* Two concurrent maps are kept in step by hand: blocked_ips, keyed by       *)
(* address or CIDR, and cidr_index, the list of the CIDR entries.  Request   *)
(* threads look addresses up and block them, the control-plane stream blocks *)
(* and unblocks, syncs clear, and a timer sweeps; every operation takes one  *)
(* lock per map access and holds none in between.  The dirty flag and the    *)
(* file are RuleCachePersist's.                                              *)
EXTENDS Integers, FiniteSets

CONSTANTS Threads,
          Addrs,      \* keys that are single addresses
          Cidrs,      \* keys of CIDR shape; each covers every address
          NoKey,
          Limit,      \* MAX_BLOCKED_IP_ENTRIES
          Headroom,   \* BLOCKED_CAPACITY_HEADROOM
          MaxBlock,   \* bound: blocks issued
          Ops         \* bound: what happens besides blocks by the control plane

ASSUME BlockedAssumption ==
  /\ Addrs \cap Cidrs = {} /\ NoKey \notin Addrs \cup Cidrs
  /\ Limit \in Nat \ {0} /\ Headroom \in Nat /\ MaxBlock \in Nat
  /\ Ops \subseteq {"unblock", "cleanup", "waf", "site", "lookup", "lapse"}

VARIABLES
  \* the maps; a block is known by its stamp, the order of blocked_at
  blocked,     \* blocked_ips: the stamp of each key's entry, or NoStamp
  index,       \* cidr_index: [key, stamp, slot], in the order of the slots
  pushes,      \* entries ever pushed to it, which number the slots
  \* the blocks issued
  issued,      \* how many
  auto,        \* stamps whose reason starts with "waf: "
  lapsed,      \* stamps whose expires_at has passed; a permanent block's never
               \* does
  \* the threads
  stage, op,   \* what it is doing, and for which operation
  key, stamp,  \* the block it is about to insert
  todo, cur,   \* keys it is about to remove, and the one it is removing
  \* history
  contended    \* keys that two operations were busy with at once

maps == <<blocked, index, pushes>>
blocks == <<issued, auto, lapsed>>
threads == <<stage, op, key, stamp, todo, cur>>
blocksVars == <<maps, blocks, threads, contended>>

Keys == Addrs \cup Cidrs
NoStamp == 0
Stamps == 1..MaxBlock
Target == IF Limit - Headroom > 1 THEN Limit - Headroom ELSE 1

Present == {k \in Keys : blocked[k] # NoStamp}
Expired == {k \in Present : blocked[k] \in lapsed}
InForce == Present \ Expired

BlocksInit ==
  /\ blocked = [k \in Keys |-> NoStamp] /\ index = {} /\ pushes = 0
  /\ issued = 0 /\ auto = {} /\ lapsed = {}
  /\ stage = [t \in Threads |-> "idle"] /\ op = [t \in Threads |-> "none"]
  /\ key = [t \in Threads |-> NoKey] /\ stamp = [t \in Threads |-> NoStamp]
  /\ todo = [t \in Threads |-> {}] /\ cur = [t \in Threads |-> NoKey]
  /\ contended = {}

Goto(t, l) == stage' = [stage EXCEPT ![t] = l]
Finish(t) ==
  /\ Goto(t, "idle")
  /\ op' = [op EXCEPT ![t] = "none"]
  /\ key' = [key EXCEPT ![t] = NoKey]
  /\ stamp' = [stamp EXCEPT ![t] = NoStamp]
  /\ todo' = [todo EXCEPT ![t] = {}]
  /\ cur' = [cur EXCEPT ![t] = NoKey]

-----------------------------------------------------------------------------
(* The removal loop: keys collected earlier are taken out of the map and,    *)
(* each in turn, out of the index.                                           *)

\* What follows the loop of an operation.
After(o) == IF o = "sweep" THEN "evict"
            ELSE IF o = "evict" THEN "insert"
            ELSE IF o = "site" THEN "dropsite" ELSE "idle"

\* Operation o has collected the keys ks.
Collect(t, o, ks) ==
  /\ op' = [op EXCEPT ![t] = o]
  /\ todo' = [todo EXCEPT ![t] = ks]
  /\ Goto(t, "remove")
  /\ UNCHANGED <<maps, blocks, key, stamp, cur>>

RemoveMap(t) ==
  /\ stage[t] = "remove"
  /\ \E k \in todo[t] :
       /\ blocked' = [blocked EXCEPT ![k] = NoStamp]
       /\ todo' = [todo EXCEPT ![t] = @ \ {k}]
       /\ IF op[t] = "site"
          THEN UNCHANGED <<stage, cur>>
          ELSE cur' = [cur EXCEPT ![t] = k] /\ Goto(t, "unindex")
  /\ UNCHANGED <<index, pushes, blocks, op, key, stamp>>

\* Mutant: the index is left alone.
UnindexSkipped(t) ==
  /\ stage[t] = "unindex"
  /\ cur' = [cur EXCEPT ![t] = NoKey] /\ Goto(t, "remove")
  /\ UNCHANGED <<maps, blocks, op, key, stamp, todo>>

\* index_remove_key.
Unindex(t) ==
  /\ stage[t] = "unindex"
  /\ index' = {e \in index : e.key # cur[t]}
  /\ cur' = [cur EXCEPT ![t] = NoKey] /\ Goto(t, "remove")
  /\ UNCHANGED <<blocked, pushes, blocks, op, key, stamp, todo>>

LoopDone(t) ==
  /\ stage[t] = "remove" /\ todo[t] = {}
  /\ IF After(op[t]) = "idle" THEN Finish(t)
     ELSE Goto(t, After(op[t])) /\ UNCHANGED <<op, key, stamp, todo, cur>>
  /\ UNCHANGED <<maps, blocks>>

-----------------------------------------------------------------------------
(* block_ip *)

\* The entry is built, and the length of the map is read.
BlockIp(t, k, waf) ==
  /\ stage[t] = "idle" /\ issued < MaxBlock
  /\ issued' = issued + 1
  /\ auto' = IF waf THEN auto \cup {issued'} ELSE auto
  /\ key' = [key EXCEPT ![t] = k] /\ stamp' = [stamp EXCEPT ![t] = issued']
  /\ Goto(t, IF Cardinality(Present) >= Limit THEN "sweep" ELSE "insert")
  /\ UNCHANGED <<maps, lapsed, op, todo, cur>>

\* enforce_blocked_capacity_inner: the expired entries...
Sweep(t) == stage[t] = "sweep" /\ Collect(t, "sweep", Expired)

\* ...then the oldest, down to the headroom line.
Evict(t) ==
  /\ stage[t] = "evict"
  /\ LET surplus == Cardinality(Present) - Target
         rank(k) == Cardinality({l \in Present : blocked[l] < blocked[k]})
     IN Collect(t, "evict", {k \in Present : rank(k) < surplus})

Insert(t) ==
  /\ stage[t] = "insert"
  /\ blocked' = [blocked EXCEPT ![key[t]] = stamp[t]]
  /\ IF key[t] \in Cidrs
     THEN Goto(t, "index") /\ UNCHANGED <<op, key, stamp, todo, cur>>
     ELSE Finish(t)
  /\ UNCHANGED <<index, pushes, blocks>>

\* index_insert: an entry of the same key is overwritten where it is; a new one
\* goes to the end.
Index(t) ==
  LET old == {e \in index : e.key = key[t]} IN
  /\ stage[t] = "index"
  /\ IF old = {}
     THEN /\ pushes' = pushes + 1
          /\ index' = index \cup {[key |-> key[t], stamp |-> stamp[t], slot |-> pushes']}
     ELSE /\ UNCHANGED pushes
          /\ index' = (index \ old) \cup {[e EXCEPT !.stamp = stamp[t]] : e \in old}
  /\ Finish(t)
  /\ UNCHANGED <<blocked, blocks>>

-----------------------------------------------------------------------------
(* The other operations *)

UnblockIp(t, k) == stage[t] = "idle" /\ Collect(t, "unblock", {k})

CleanupExpiredBlocks(t) ==
  stage[t] = "idle" /\ Expired # {} /\ Collect(t, "cleanup", Expired)

ClearWafAutoBlocks(t) ==
  LET stale == {k \in InForce : blocked[k] \in auto} IN
    stage[t] = "idle" /\ stale # {} /\ Collect(t, "waf", stale)

ClearSiteBlocks(t) == stage[t] = "idle" /\ Collect(t, "site", Present)

\* index_remove_site.
DropSite(t) ==
  /\ stage[t] = "dropsite"
  /\ index' = {}
  /\ Finish(t)
  /\ UNCHANGED <<blocked, pushes, blocks>>

\* blocked_lookup of an address whose own entry has expired: it is evicted.
\* All else that blocked_lookup does is to read, see Refused.
Lookup(t, a) ==
  stage[t] = "idle" /\ a \in Expired /\ Collect(t, "lookup", {a})

\* An entry's expires_at passes.
Lapse(s) ==
  /\ s \notin lapsed
  /\ \/ \E k \in Keys : blocked[k] = s
     \/ \E t \in Threads : stamp[t] = s
     \/ \E e \in index : e.stamp = s
  /\ lapsed' = lapsed \cup {s}
  /\ UNCHANGED <<maps, issued, auto, threads>>

-----------------------------------------------------------------------------
\* The keys a thread is busy with.
Touched(t) ==
  IF op[t] = "site" THEN Keys ELSE ({key[t], cur[t]} \ {NoKey}) \cup todo[t]
Contended ==
  {k \in Keys : \E t, u \in Threads : t # u /\ k \in Touched(t) \cap Touched(u)}

Step ==
  \/ \E t \in Threads :
       \/ \E k \in Keys : BlockIp(t, k, FALSE)
       \/ "waf" \in Ops /\ \E a \in Addrs : BlockIp(t, a, TRUE)
       \/ "unblock" \in Ops /\ \E k \in Keys : UnblockIp(t, k)
       \/ "cleanup" \in Ops /\ CleanupExpiredBlocks(t)
       \/ "waf" \in Ops /\ ClearWafAutoBlocks(t)
       \/ "site" \in Ops /\ ClearSiteBlocks(t)
       \/ "lookup" \in Ops /\ \E a \in Addrs : Lookup(t, a)
       \/ Sweep(t) \/ Evict(t) \/ Insert(t) \/ Index(t)
       \/ RemoveMap(t) \/ Unindex(t) \/ LoopDone(t) \/ DropSite(t)
  \/ "lapse" \in Ops /\ \E s \in Stamps : Lapse(s)

BlocksNext == Step /\ contended' = contended \cup Contended'

BlocksSpec == BlocksInit /\ [][BlocksNext]_blocksVars

-----------------------------------------------------------------------------
\* What blocked_lookup answers at an instant: by the address's own entry, else
\* by the first entry of the index that has not expired and covers the
\* address, whose block must still be in the map.
Refused(a) ==
  \/ a \in InForce
  \/ LET hits == {e \in index : e.stamp \notin lapsed}
     IN \E e \in hits : (\A f \in hits : e.slot <= f.slot) /\ e.key \in Present

Quiet == \A t \in Threads : stage[t] = "idle"

TypeOK ==
  /\ blocked \in [Keys -> 0..MaxBlock]
  /\ index \subseteq [key : Cidrs, stamp : Stamps, slot : 1..pushes] /\ pushes \in Nat
  /\ issued \in 0..MaxBlock /\ lapsed \subseteq 1..issued
  /\ auto \subseteq 1..issued
  /\ key \in [Threads -> Keys \cup {NoKey}] /\ stamp \in [Threads -> 0..MaxBlock]
  /\ todo \in [Threads -> SUBSET Keys] /\ cur \in [Threads -> Keys \cup {NoKey}]

\* Types; and blocked_ips and cidr_index: for a CIDR that no two operations were
\* busy with at once, whatever happened to the other keys, the index and the
\* map agree, the expiry included.
IndexInStep ==
  /\ TypeOK
  /\ \A k \in Cidrs \ contended :
       (\A t \in Threads : k \notin Touched(t)) =>
         {e.stamp : e \in {e \in index : e.key = k}} = {blocked[k]} \ {NoStamp}

\* cleanup_expired_blocks, blocked_lookup and the sweep of block_ip remove
\* expired entries only.  (Violated: the entry may have been renewed between
\* the test and the removal, which is by key.)
OnlyExpiredSwept ==
  \A t \in Threads : op[t] \in {"cleanup", "sweep", "lookup"} => todo[t] \cap InForce = {}

\* blocked_lookup resolves the block that covers the address.  (Violated: an
\* operation on the same CIDR that ends last in the index but not in the map
\* leaves the block out of the index.)
LiveBlockRefuses ==
  Quiet => \A a \in Addrs : ({a} \cup Cidrs) \cap InForce # {} => Refused(a)
=============================================================================
