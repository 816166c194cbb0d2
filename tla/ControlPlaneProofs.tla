------------------------- MODULE ControlPlaneProofs --------------------------
(* The control plane.  For any number of sites, hosts and requests: that a   *)
(* host is served by its site, what a restore and a rollback keep, and that  *)
(* the history of a site stays current.  For any number of heartbeat tasks   *)
(* and any window: the throttles of the sweeps.  For any number of writes:   *)
(* the certificate row that tasks, sweep, events and operator write.         *)
EXTENDS ConfigHistory, HeartbeatSweeps, CertificateRow, FiniteSetTheorems,
        WellFoundedInduction, TLAPS

-----------------------------------------------------------------------------
(* The site index.  StableHostServed is not inductive: that a host goes to   *)
(* the site that lists it needs the control plane's guarantee that no other  *)
(* site lists it too, and speaks of the index, not of what Resolve makes of  *)
(* it.                                                                       *)

\* Types of the variables that the argument uses.
IndexTypes ==
  /\ listed \in [Sites -> SUBSET Names] /\ sites \in [Sites -> SUBSET Names]
  /\ index \in [Names -> Sites \cup {NoSite}]

\* A name belongs to one site at a time.
OneOwner == \A r, s \in Sites : r # s => listed[r] \cap listed[s] = {}

\* A name that never moved is indexed under the site that has it.
Indexed == \A s \in Sites, n \in Names : n \in sites[s] /\ n \notin moved => index[n] = s

IndexInv == IndexTypes /\ OneOwner /\ Indexed

\* What Inserted says of a listed name: its only owner.
LEMMA InsertedOwner ==
  ASSUME IndexTypes, OneOwner, NEW s \in Sites, NEW n \in Names, n \in listed[s]
  PROVE  Inserted[n] = s
<1>1. \A r \in Sites : n \in listed[r] => r = s
  BY DEF IndexTypes, OneOwner
<1>2. (CHOOSE r \in Sites : n \in listed[r]) = s
  BY <1>1
<1> QED BY <1>2 DEF Inserted

LEMMA InsertedType ==
  ASSUME IndexTypes PROVE Inserted \in [Names -> Sites \cup {NoSite}]
<1>1. ASSUME NEW n \in Names, \E s \in Sites : n \in listed[s]
      PROVE  (CHOOSE s \in Sites : n \in listed[s]) \in Sites
  BY <1>1
<1> QED BY <1>1 DEF Inserted, IndexTypes

\* The configuration starts empty.
LEMMA InitIndexInv == Init => IndexInv
BY DEF Init, IndexInv, IndexTypes, OneOwner, Indexed

\* Edit of the control plane keeps names apart and leaves the agent alone.
LEMMA EditIndexInv ==
  ASSUME IndexInv, NEW s \in Sites, NEW names \in SUBSET Names, Edit(s, names)
  PROVE  IndexInv'
<1> USE DEF IndexInv, IndexTypes
<1>1. listed' = [listed EXCEPT ![s] = names] /\ sites' = sites /\ index' = index
      /\ moved' = moved
  BY DEF Edit
<1>2. IndexTypes' BY <1>1
<1>3. OneOwner' BY <1>1 DEF OneOwner, Edit
<1>4. Indexed' BY <1>1 DEF Indexed
<1> QED BY <1>2, <1>3, <1>4

\* update_from_site_config: a name that is taken out with a ghost has moved.
LEMMA UpdateIndexInv ==
  ASSUME IndexInv, UpdateFromSiteConfig PROVE IndexInv'
<1>1. IndexTypes /\ OneOwner BY DEF IndexInv
<1>2. listed' = listed /\ sites' = listed BY DEF UpdateFromSiteConfig
<1>3. OneOwner' BY <1>1, <1>2 DEF OneOwner
<1>4. IndexTypes'
  BY <1>1, <1>2, InsertedType DEF IndexTypes, UpdateFromSiteConfig
<1>5. Indexed'
  <2> SUFFICES ASSUME NEW s \in Sites, NEW n \in Names,
                      n \in listed[s], n \notin moved'
               PROVE  index'[n] = s
    BY <1>2 DEF Indexed
  <2>1. \A g \in Ghosts : n \notin sites[g]
    <3> SUFFICES ASSUME NEW g \in Ghosts, n \in sites[g] PROVE FALSE
      OBVIOUS
    <3>1. g \in Sites /\ g # s BY DEF Ghosts
    <3>2. n \in sites[g] \cap listed[s] OBVIOUS
    <3> QED BY <3>1, <3>2 DEF UpdateFromSiteConfig
  <2>2. index'[n] = Inserted[n] BY <2>1 DEF UpdateFromSiteConfig
  <2> QED BY <1>1, <2>2, InsertedOwner
<1> QED BY <1>3, <1>4, <1>5 DEF IndexInv

\* Resolve answers with the index's entry when it names a site in use.
LEMMA IndexInvServes == IndexInv => StableHostServed
<1> SUFFICES ASSUME IndexInv PROVE StableHostServed OBVIOUS
<1>1. ASSUME NEW s \in Sites, NEW h \in Hosts, Has(s, h), h \notin moved
      PROVE  Resolve(h) = s
  <2>1. index[h] = s /\ sites[s] # {}
    BY <1>1 DEF IndexInv, Indexed, Has, Names
  <2> QED BY <2>1, SiteAssumption DEF Resolve
<1> QED BY <1>1 DEF StableHostServed, IndexInv, IndexTypes

\* update_from_site_config and get_site_rules: whatever the operators do with
\* the sites, a host that only ever had one owner is served by that owner, for
\* any sets of sites and hosts.
THEOREM StableHostsResolve == Spec => []StableHostServed
<1>1. IndexInv /\ [Next]_vars => IndexInv'
  <2> SUFFICES ASSUME IndexInv, [Next]_vars PROVE IndexInv' OBVIOUS
  <2>1. CASE UNCHANGED vars
    BY <2>1 DEF vars, IndexInv, IndexTypes, OneOwner, Indexed
  <2>2. CASE Next BY <2>2, EditIndexInv, UpdateIndexInv DEF Next
  <2> QED BY <2>1, <2>2
<1> QED BY <1>1, InitIndexInv, IndexInvServes, PTL DEF Spec

-----------------------------------------------------------------------------
(* The history: types *)

Kept == [names : SUBSET Names, rules : SUBSET Int, stamp : Nat]
Hashes == [kind : {"none", "config", "bundle"}, content : Kept]
Requests ==
  [at : {"idle", "notify", "touch", "lock", "archive", "delete", "commit", "recordRollback",
         "restore", "record"},
   kind : {"edit", "rollback", "restore"}, site : Sites \cup {NoSite}, snap : Kept,
   hash : Hashes, before : Kept, seen : Nat, id : Nat, gone : SUBSET Nat, del : SUBSET Int]
Recorders ==
  [at : {"none", "begin", "insert"}, site : Sites \cup {NoSite}, hash : Hashes, snap : Kept,
   seen : SUBSET Nat]
Versions == [id : Nat, site : Sites, hash : Hashes, snap : Kept]
Backups == [site : Sites, snap : Kept]

DbTypes ==
  /\ listed \in [Sites -> SUBSET Names] /\ rules \in [Sites -> SUBSET Int]
  /\ stamp \in [Sites -> Nat] /\ rev \in [Sites -> Nat]
KeptTypes ==
  /\ versions \subseteq Versions /\ nextId \in Nat /\ backups \subseteq Backups
  /\ count \in [Kinds -> Nat]
RequestTypes ==
  /\ op \in [Ops -> Requests] /\ \A o \in Ops : op[o].at # "idle" => op[o].site \in Sites
RecorderTypes ==
  /\ task \in [Tasks -> Recorders] /\ \A t \in Tasks : task[t].at # "none" => task[t].site \in Sites
HistoryTypes == DbTypes /\ KeptTypes /\ RequestTypes /\ RecorderTypes

LEMMA IdleType == Empty \in Kept /\ NoHash \in Hashes /\ Idle \in Requests /\ NoTask \in Recorders
<1>1. Empty \in Kept
  BY DEF Empty, Kept
<1>2. NoHash \in Hashes
  BY <1>1 DEF NoHash, Hashes
<1>3. Idle \in Requests /\ NoTask \in Recorders
  BY <1>1, <1>2 DEF Idle, Requests, NoTask, Recorders
<1>4. QED
  BY <1>1, <1>2, <1>3

\* What a fingerprint shows of rows depends on nothing else.
LEMMA ShownFacts ==
  ASSUME NEW c \in Kept
  PROVE  /\ Shown(c) \in Kept /\ Shown(c).names = c.names
         /\ Shown(c).rules = {r \in c.rules : ~(r < 0)}
<1>1. Shown(c) = [c EXCEPT !.rules = c.rules \ Hidden(c)] /\ Hidden(c) = {r \in c.rules : r < 0}
  BY DEF Shown, Hidden
<1>2. QED
  BY <1>1 DEF Kept

\* Rows of which the same is shown, and which hide the same, are the same.
LEMMA HiddenSame ==
  ASSUME NEW c \in Kept, NEW d \in Kept, Same(Shown(c), Shown(d)), Hidden(c) = Hidden(d)
  PROVE  Same(c, d)
<1>1. /\ Shown(c).names = c.names /\ Shown(c).rules = {r \in c.rules : ~(r < 0)}
      /\ Shown(d).names = d.names /\ Shown(d).rules = {r \in d.rules : ~(r < 0)}
  BY ShownFacts
<1>2. {r \in c.rules : r < 0} = {r \in d.rules : r < 0}
  BY DEF Hidden
<1>3. c.rules = d.rules
  BY <1>1, <1>2 DEF Same
<1>4. QED
  BY <1>1, <1>3 DEF Same

LEMMA ContentType ==
  ASSUME DbTypes, NEW s \in Sites
  PROVE  /\ Content(s) \in Kept /\ ConfigHash(s) \in Hashes /\ ConfigHashAfter(s) \in Hashes
         /\ ConfigHashAfter(s) = NoHash \/ ConfigHashAfter(s).kind = "bundle"
         /\ ConfigHashAfter(s).kind = "bundle" => ConfigHashAfter(s).content = Shown(Content(s))
         /\ ConfigHash(s).content = Shown(Content(s))
<1>1. Content(s) \in Kept
  BY DEF DbTypes, Content, Kept
<1>2. PICK c \in Kept : c = Shown(Content(s))
  BY <1>1, ShownFacts
<1>3. ConfigHash(s) = [kind |-> "config", content |-> c]
  BY <1>2 DEF ConfigHash, Hash
<1>4. CASE listed[s] = {}
  <2>1. ConfigHashAfter(s) = NoHash
    BY <1>4 DEF ConfigHashAfter
  <2>2. NoHash.kind = "none"
    BY DEF NoHash
  <2>3. QED
    BY <1>1, <1>2, <1>3, <2>1, <2>2, IdleType DEF Hashes
<1>5. CASE listed[s] # {}
  <2>1. ConfigHashAfter(s) = [kind |-> "bundle", content |-> c]
    BY <1>2, <1>5 DEF ConfigHashAfter, Hash
  <2>2. QED
    BY <1>1, <1>2, <1>3, <2>1 DEF Hashes
<1>6. QED
  BY <1>4, <1>5

-----------------------------------------------------------------------------
(* The history: what a restore and a rollback rely on *)

\* A restore that saw the site's last revision saw its names.
Restoring(r) ==
  r.at = "restore" => /\ r.seen <= rev[r.site]
                      /\ rev[r.site] = r.seen => r.before.names = listed[r.site]
RestoreInv == \A o \in Ops : Restoring(op[o])

\* One rollback at a time has the site's advisory lock.
Inside == {"archive", "delete", "commit"}
LockInv ==
  /\ \A o, q \in Ops : op[o].at \in Inside /\ op[q].at \in Inside /\ op[o].site = op[q].site => o = q
  /\ \A o \in Ops : op[o].at \in Inside \cup {"lock"} => op[o].kind = "rollback"

\* Unless the site was edited meanwhile, its rows are still those that the
\* rollback hashed, archived and deleted.
Faithful(r) ==
  r.kind = "rollback" /\ r.site \notin raced /\ r.at \in Inside =>
    /\ r.hash = NoHash \/ r.hash.kind = "bundle"
    /\ r.at = "archive" /\ r.hash.kind = "bundle" => Same(r.hash.content, Shown(Content(r.site)))
    /\ r.at # "archive" => Same(Shown(r.before), Shown(Content(r.site)))
    /\ r.at # "archive" /\ r.id # 0 => Same(r.before, Content(r.site))
    /\ r.at # "archive" /\ r.hash.kind = "bundle" => Same(Shown(r.before), r.hash.content)
    /\ r.at = "commit" => r.del = rules[r.site]
RollbackInv == \A o \in Ops : Faithful(op[o])

\* A version with the hash of a bundle shows the rows of that bundle.
Truthful(v) == v.site \notin raced /\ v.hash.kind = "bundle" => Same(Shown(v.snap), v.hash.content)
VersionInv ==
  /\ \A v \in versions : Truthful(v)
  /\ \A t \in Tasks : task[t].at = "insert" => Truthful(task[t])
  /\ \A v \in versions : v.id < nextId
  /\ \A o \in Ops : op[o].at \in {"delete", "commit"} => op[o].id < nextId

HistoryInv == HistoryTypes /\ IndexInv /\ RestoreInv /\ LockInv /\ RollbackInv /\ VersionInv

\* A revision for every change of a site's names.
Advances ==
  \A s \in Sites : rev'[s] > rev[s] \/ (rev'[s] = rev[s] /\ listed'[s] = listed[s])
Unedited(s) == rules'[s] = rules[s] /\ listed'[s] = listed[s]

LEMMA RestoringKept ==
  ASSUME DbTypes, DbTypes', Advances, NEW r \in Requests, r.at # "idle" => r.site \in Sites,
         Restoring(r)
  PROVE  Restoring(r)'
<1> SUFFICES ASSUME r.at = "restore"
             PROVE  /\ r.seen <= rev'[r.site]
                    /\ rev'[r.site] = r.seen => r.before.names = listed'[r.site]
  BY DEF Restoring
<1>1. PICK s \in Sites : s = r.site
  OBVIOUS
<1>2. r.seen \in Nat /\ rev[s] \in Nat /\ rev'[s] \in Nat
  BY DEF DbTypes, Requests
<1>3. r.seen <= rev[s] /\ (rev[s] = r.seen => r.before.names = listed[s])
  BY <1>1 DEF Restoring
<1>4. rev'[s] > rev[s] \/ (rev'[s] = rev[s] /\ listed'[s] = listed[s])
  BY DEF Advances
<1>5. QED
  BY <1>1, <1>2, <1>3, <1>4

LEMMA FaithfulKept ==
  ASSUME NEW r, raced \subseteq raced', Faithful(r),
         r.kind = "rollback" /\ r.site \notin raced' /\ r.at \in Inside => Unedited(r.site)
  PROVE  Faithful(r)'
<1> SUFFICES ASSUME r.kind = "rollback", r.site \notin raced', r.at \in Inside
             PROVE  /\ r.hash = NoHash \/ r.hash.kind = "bundle"
                    /\ r.at = "archive" /\ r.hash.kind = "bundle"
                         => Same(r.hash.content, Shown(Content(r.site))')
                    /\ r.at # "archive" => Same(Shown(r.before), Shown(Content(r.site))')
                    /\ r.at # "archive" /\ r.id # 0 => Same(r.before, Content(r.site)')
                    /\ r.at # "archive" /\ r.hash.kind = "bundle"
                         => Same(Shown(r.before), r.hash.content)
                    /\ r.at = "commit" => r.del = rules'[r.site]
  BY Zenon DEF Faithful, Same
<1>1. Unedited(r.site) /\ r.site \notin raced
  BY Zenon
<1>2. Content(r.site).names = Content(r.site)'.names /\ Content(r.site).rules = Content(r.site)'.rules
  BY <1>1 DEF Content, Unedited
<1>3. /\ Shown(Content(r.site)).names = Shown(Content(r.site))'.names
      /\ Shown(Content(r.site)).rules = Shown(Content(r.site))'.rules
  BY <1>1 DEF Content, Unedited, Shown, Hidden
<1>4. QED
  BY <1>1, <1>2, <1>3, Zenon DEF Faithful, Same, Unedited

\* Request o becomes r, and the others stay.
LEMMA GoFacts ==
  ASSUME RequestTypes, NEW o \in Ops, NEW r \in Requests, r.at # "idle" => r.site \in Sites, Go(o, r)
  PROVE  RequestTypes' /\ op'[o] = r /\ \A q \in Ops \ {o} : op'[q] = op[q]
BY DEF RequestTypes, Go

\* What r must be for the invariants about requests to hold on.
Fits(o, r) ==
  /\ r \in Requests /\ (r.at # "idle" => r.site \in Sites) /\ Restoring(r)' /\ Faithful(r)'
  /\ r.at \in Inside \cup {"lock"} => r.kind = "rollback"
  /\ r.at \in Inside => \A q \in Ops \ {o} : ~(op[q].at \in Inside /\ op[q].site = r.site)

LEMMA RequestsKept ==
  ASSUME HistoryInv, DbTypes', Advances, raced \subseteq raced', NEW o \in Ops, NEW r,
         Go(o, r), Fits(o, r),
         \A q \in Ops \ {o} : op[q].kind = "rollback" /\ op[q].site \notin raced' /\ op[q].at \in Inside
                                => Unedited(op[q].site)
  PROVE  RequestTypes' /\ RestoreInv' /\ LockInv' /\ RollbackInv'
<1>0. /\ DbTypes /\ RequestTypes /\ RestoreInv /\ LockInv /\ RollbackInv
  BY DEF HistoryInv, HistoryTypes
<1>1. r \in Requests /\ (r.at # "idle" => r.site \in Sites)
  BY DEF Fits
<1>2. RequestTypes' /\ op'[o] = r /\ \A q \in Ops \ {o} : op'[q] = op[q]
  BY <1>0, <1>1, GoFacts
<1>3. ASSUME NEW q \in Ops PROVE Restoring(op[q])' /\ Faithful(op[q])'
  <2>1. CASE q = o
    <3>1. Restoring(r)' /\ Faithful(r)'
      BY DEF Fits
    <3>2. QED
      BY <1>2, <2>1, <3>1 DEF Restoring, Faithful
  <2>2. CASE q # o
    <3>1. PICK x \in Requests : x = op[q]
      BY <1>0 DEF RequestTypes
    <3>2. x.at # "idle" => x.site \in Sites
      BY <1>0, <3>1 DEF RequestTypes
    <3>3. Restoring(x) /\ Faithful(x)
      BY <1>0, <3>1, Zenon DEF RestoreInv, RollbackInv
    <3>4. Restoring(x)'
      BY <1>0, <3>2, <3>3, RestoringKept
    <3>5. Faithful(x)'
      <4>1. x.kind = "rollback" /\ x.site \notin raced' /\ x.at \in Inside => Unedited(x.site)
        BY <2>2, <3>1, Zenon
      <4>2. QED
        BY <3>3, <4>1, FaithfulKept
    <3>6. op'[q] = x
      BY <1>2, <2>2, <3>1
    <3>7. QED
      BY <3>4, <3>5, <3>6 DEF Restoring, Faithful
  <2>3. QED
    BY <2>1, <2>2
<1>4. LockInv'
  <2>1. ASSUME NEW q \in Ops, op'[q].at \in Inside \cup {"lock"} PROVE op'[q].kind = "rollback"
    BY <1>0, <1>2, <2>1 DEF LockInv, Fits
  <2>2. ASSUME NEW p \in Ops, NEW q \in Ops, op'[p].at \in Inside, op'[q].at \in Inside,
               op'[p].site = op'[q].site
        PROVE  p = q
    BY <1>0, <1>2, <2>2 DEF LockInv, Fits
  <2>3. QED
    BY <2>1, <2>2 DEF LockInv
<1>5. QED
  BY <1>2, <1>3, <1>4 DEF RestoreInv, RollbackInv

\* A bounded set of numbers has a greatest one.
LEMMA BoundedMax ==
  ASSUME NEW S, S \subseteq Nat, S # {}, NEW n \in Nat, \A i \in S : i < n
  PROVE  \E m \in S : \A i \in S : i <= m
<1> DEFINE T == {n - i : i \in S}
<1>1. T \subseteq Nat /\ T # {}
  <2>1. ASSUME NEW i \in S PROVE n - i \in Nat
    <3>1. i \in Nat /\ i < n
      OBVIOUS
    <3>2. QED
      BY <3>1
  <2>2. QED
    BY <2>1
<1>2. PICK R : R = OpToRel(<, Nat)
  OBVIOUS
<1>3. IsWellFoundedOn(R, Nat)
  BY <1>2, NatLessThanWellFounded, Zenon
<1> HIDE DEF T
<1>4. PICK x \in T : \A y \in T : ~(<<y, x>> \in R)
  BY <1>1, <1>3, WFMin, Zenon
<1>5. \A y \in T : ~(y < x)
  BY <1>1, <1>2, <1>4 DEF OpToRel
<1>6. PICK m \in S : x = n - m
  BY DEF T
<1>7. ASSUME NEW i \in S PROVE i <= m
  <2>1. n - i \in T
    BY DEF T
  <2>2. ~(n - i < n - m)
    BY <1>5, <1>6, <2>1
  <2>3. i \in Nat /\ m \in Nat /\ n \in Nat
    OBVIOUS
  <2>4. QED
    BY <2>2, <2>3
<1>8. QED
  BY <1>7

\* The latest version is the one of the site's with the greatest id.
LEMMA LatestOf ==
  ASSUME HistoryTypes, VersionInv, NEW s, Of(s) # {}
  PROVE  Latest(s) \in Of(s) /\ \A w \in Of(s) : w.id <= Latest(s).id
<1>1. Ids(Of(s)) \subseteq Nat /\ Ids(Of(s)) # {} /\ nextId \in Nat
  BY DEF HistoryTypes, KeptTypes, Versions, Ids, Of
<1>2. \A i \in Ids(Of(s)) : i < nextId
  BY DEF VersionInv, Ids, Of
<1>3. PICK m \in Ids(Of(s)) : \A i \in Ids(Of(s)) : i <= m
  <2>1. \A S, n : S \subseteq Nat /\ S # {} /\ n \in Nat /\ (\A i \in S : i < n)
                    => \E m \in S : \A i \in S : i <= m
    BY BoundedMax
  <2>2. QED
    BY <1>1, <1>2, <2>1
<1>4. \E v \in Of(s) : \A w \in Of(s) : w.id <= v.id
  BY <1>3 DEF Ids
<1>5. QED
  BY <1>4 DEF Latest

-----------------------------------------------------------------------------
(* The history: what a step has to show *)

OthersUnedited(o) ==
  \A q \in Ops \ {o} :
    op[q].kind = "rollback" /\ op[q].site \notin raced' /\ op[q].at \in Inside
      => Unedited(op[q].site)

LEMMA HistoryKept ==
  ASSUME HistoryInv, DbTypes', KeptTypes', RecorderTypes', IndexInv', VersionInv', Advances,
         raced \subseteq raced', NEW o \in Ops, NEW r, Go(o, r), Fits(o, r), OthersUnedited(o)
  PROVE  HistoryInv'
<1>1. \A q \in Ops \ {o} : op[q].kind = "rollback" /\ op[q].site \notin raced' /\ op[q].at \in Inside
                             => Unedited(op[q].site)
  BY Zenon DEF OthersUnedited
<1>2. RequestTypes' /\ RestoreInv' /\ LockInv' /\ RollbackInv'
  BY <1>1, RequestsKept
<1>3. QED
  BY <1>2 DEF HistoryInv, HistoryTypes

LEMMA VersionsKept ==
  ASSUME VersionInv, KeptTypes, nextId' \in Nat, nextId <= nextId', raced \subseteq raced',
         RequestTypes,
         \A v \in versions' : v \in versions \/ (Truthful(v)' /\ v.id < nextId'),
         \A t \in Tasks : task'[t] = task[t] \/ (task'[t].at = "insert" => Truthful(task[t])'),
         \A o \in Ops : op'[o] = op[o]
                          \/ (op'[o].at \in {"delete", "commit"} => op'[o].id < nextId')
  PROVE  VersionInv'
<1>0. nextId \in Nat
  BY DEF KeptTypes
<1>1. ASSUME NEW v \in versions' PROVE Truthful(v)' /\ v.id < nextId'
  <2>1. CASE v \in versions
    <3>1. Truthful(v) /\ v.id < nextId /\ v.id \in Nat
      BY <2>1 DEF VersionInv, KeptTypes, Versions
    <3>2. Truthful(v)'
      BY <3>1 DEF Truthful
    <3>3. QED
      BY <1>0, <3>1, <3>2
  <2>2. QED
    BY <2>1
<1>2. ASSUME NEW t \in Tasks, task'[t].at = "insert" PROVE Truthful(task[t])'
  <2>1. CASE task'[t] = task[t]
    <3>1. Truthful(task[t])
      BY <1>2, <2>1 DEF VersionInv
    <3>2. QED
      BY <2>1, <3>1 DEF Truthful
  <2>2. QED
    BY <1>2, <2>1
<1>3. ASSUME NEW o \in Ops, op'[o].at \in {"delete", "commit"} PROVE op'[o].id < nextId'
  <2>1. CASE op'[o] = op[o]
    <3>1. op[o].id < nextId /\ op[o].id \in Nat
      BY <1>3, <2>1 DEF VersionInv, RequestTypes, Requests
    <3>2. QED
      BY <1>0, <2>1, <3>1
  <2>2. QED
    BY <1>3, <2>1
<1>4. QED
  BY <1>1, <1>2, <1>3, Zenon DEF VersionInv

\* A step that leaves the versions and the recorders alone.
LEMMA OnlyRequests ==
  ASSUME HistoryInv, UNCHANGED <<versions, nextId, task>>, raced \subseteq raced',
         NEW o \in Ops, NEW r, Go(o, r), r.at \notin {"delete", "commit"}
  PROVE  VersionInv' /\ RecorderTypes'
<1>1. VersionInv /\ KeptTypes /\ RequestTypes /\ RecorderTypes
  BY DEF HistoryInv, HistoryTypes
<1>2. nextId' \in Nat /\ nextId <= nextId'
  BY <1>1 DEF KeptTypes
<1>3. \A q \in Ops : op'[q] = op[q] \/ (op'[q].at \in {"delete", "commit"} => op'[q].id < nextId')
  BY <1>1 DEF Go, RequestTypes
<1>4. VersionInv'
  BY <1>1, <1>2, <1>3, VersionsKept
<1>5. QED
  BY <1>1, <1>4 DEF RecorderTypes

LEMMA QuietDb ==
  ASSUME DbTypes, UNCHANGED db
  PROVE  DbTypes' /\ Advances /\ (\A s \in Sites : Unedited(s))
BY DEF DbTypes, db, Advances, Unedited

LEMMA QuietIndex ==
  ASSUME IndexInv, UNCHANGED <<listed, edge>> PROVE IndexInv'
BY DEF IndexInv, IndexTypes, OneOwner, Indexed, edge

LEMMA CountsType ==
  ASSUME count \in [Kinds -> Nat], NEW kind \in Kinds, Counts(kind)
  PROVE  count' \in [Kinds -> Nat]
BY DEF Counts, Kinds

\* A request that is nothing to the restores and the rollbacks.
LEMMA PlainFits ==
  ASSUME NEW o, NEW r \in Requests, r.at # "idle" => r.site \in Sites,
         r.at \notin Inside, r.at # "restore", r.at = "lock" => r.kind = "rollback"
  PROVE  Fits(o, r)
BY DEF Fits, Restoring, Faithful

-----------------------------------------------------------------------------
(* The history: edits *)

LEMMA EditKept ==
  ASSUME HistoryInv, NEW o \in Ops, NEW s \in Sites, NEW l \in {"notify", "touch"}, Edits(o, s, l),
         DbTypes', Advances, IndexInv', \A q \in Sites \ {s} : Unedited(q)
  PROVE  HistoryInv'
<1>0. KeptTypes /\ RequestTypes
  BY DEF HistoryInv, HistoryTypes
<1>1. PICK r : r = [Idle EXCEPT !.at = l, !.site = s]
  OBVIOUS
<1>2. r \in Requests /\ r.at = l /\ r.site = s
  BY <1>1, IdleType DEF Requests, Idle
<1>3. Go(o, r)
  BY <1>1 DEF Edits
<1>4. Fits(o, r)
  BY <1>2, PlainFits DEF Inside
<1>5. /\ raced \subseteq raced'
      /\ \A q \in Ops : op[q].kind = "rollback" /\ op[q].site = s => s \in raced'
  BY DEF Edits, Changes
<1>6. VersionInv' /\ RecorderTypes'
  <2>1. r.at \notin {"delete", "commit"} /\ UNCHANGED <<versions, nextId, task>>
    BY <1>2 DEF Edits
  <2>2. QED
    BY <1>3, <1>5, <2>1, OnlyRequests
<1>7. KeptTypes'
  <2>1. count' \in [Kinds -> Nat]
    BY <1>0, CountsType DEF Edits, Begins, KeptTypes, Kinds
  <2>2. QED
    BY <1>0, <2>1 DEF KeptTypes, Edits
<1>8. OthersUnedited(o)
  <2> SUFFICES ASSUME NEW q \in Ops \ {o}, op[q].kind = "rollback", op[q].site \notin raced',
                      op[q].at \in Inside
               PROVE  Unedited(op[q].site)
    BY Zenon DEF OthersUnedited
  <2>1. op[q].site # s /\ op[q].site \in Sites
    BY <1>0, <1>5 DEF RequestTypes, Inside
  <2>2. QED
    BY <2>1, Zenon
<1>9. QED
  BY <1>3, <1>4, <1>5, <1>6, <1>7, <1>8, HistoryKept

LEMMA EditSiteKept ==
  ASSUME HistoryInv, NEW o \in Ops, NEW s \in Sites, NEW names \in SUBSET Names,
         EditSite(o, s, names)
  PROVE  HistoryInv'
<1>0. DbTypes /\ IndexInv
  BY DEF HistoryInv, HistoryTypes
<1>1. IndexInv'
  BY <1>0, EditIndexInv DEF EditSite
<1>2. /\ listed' = [listed EXCEPT ![s] = names]
      /\ rules' = [rules EXCEPT ![s] = IF names = {} THEN {} ELSE @]
      /\ rev' = [rev EXCEPT ![s] = @ + 1]
      /\ stamp' = [stamp EXCEPT ![s] = IF names = {} THEN 0 ELSE rev'[s]]
  BY DEF EditSite, Edit
<1>3. DbTypes'
  BY <1>0, <1>2 DEF DbTypes
<1>4. Advances
  BY <1>0, <1>2 DEF DbTypes, Advances
<1>5. \A q \in Sites \ {s} : Unedited(q)
  BY <1>0, <1>2 DEF DbTypes, Unedited
<1>6. Edits(o, s, "notify")
  BY DEF EditSite
<1>7. QED
  BY <1>1, <1>3, <1>4, <1>5, <1>6, EditKept

LEMMA RuleKept ==
  ASSUME HistoryInv, NEW o \in Ops, NEW s \in Sites, NEW r,
         AddRule(o, s) \/ UpdateRule(o, s, r) \/ DeleteRule(o, s, r)
  PROVE  HistoryInv'
<1>0. DbTypes /\ IndexInv /\ KeptTypes
  BY DEF HistoryInv, HistoryTypes
<1>1. Edits(o, s, "touch") /\ UNCHANGED <<listed, stamp, rev>>
  BY DEF AddRule, UpdateRule, DeleteRule
<1>2. UNCHANGED edge
  BY <1>1 DEF Edits, edge
<1>3. count'["edit"] \in Nat
  BY <1>0, <1>1, CountsType DEF Edits, Begins, KeptTypes, Kinds
<1>4. rules' \in [Sites -> SUBSET Int] /\ \A q \in Sites \ {s} : rules'[q] = rules[q]
  BY <1>0, <1>3 DEF AddRule, UpdateRule, DeleteRule, DbTypes
<1>5. DbTypes' /\ Advances /\ \A q \in Sites \ {s} : Unedited(q)
  BY <1>0, <1>1, <1>4 DEF DbTypes, Advances, Unedited
<1>6. IndexInv'
  BY <1>0, <1>1, <1>2, QuietIndex
<1>7. QED
  BY <1>1, <1>5, <1>6, EditKept

LEMMA TouchKept ==
  ASSUME HistoryInv, NEW o \in Ops, Touch(o) PROVE HistoryInv'
<1>0. DbTypes /\ IndexInv /\ KeptTypes /\ RequestTypes
  BY DEF HistoryInv, HistoryTypes
<1>1. PICK x \in Requests : x = op[o]
  BY <1>0 DEF RequestTypes
<1>2. x.at = "touch" /\ x.site \in Sites
  BY <1>0, <1>1 DEF RequestTypes, Touch, At
<1>3. PICK r : r = [x EXCEPT !.at = "notify"]
  OBVIOUS
<1>4. r \in Requests /\ r.at = "notify" /\ r.site \in Sites
  BY <1>2, <1>3 DEF Requests
<1>5. Go(o, r)
  BY <1>1, <1>3 DEF Touch, MoveTo
<1>6. Fits(o, r)
  BY <1>4, PlainFits DEF Inside
<1>7. PICK s \in Sites : s = op[o].site
  BY <1>1, <1>2
<1>8. UNCHANGED <<listed, deleted, rules, edge, versions, nextId, backups, task, count, raced>>
  BY DEF Touch
<1>9. DbTypes' /\ Advances
  <2>1. CASE listed[s] = {}
    BY <1>0, <1>7, <1>8, <2>1 DEF DbTypes, Advances, Touch
  <2>2. CASE listed[s] # {}
    <3>1. rev' = [rev EXCEPT ![s] = @ + 1] /\ stamp' = [stamp EXCEPT ![s] = rev'[s]]
      BY <1>7, <2>2 DEF Touch
    <3>2. QED
      BY <1>0, <1>8, <3>1 DEF DbTypes, Advances
  <2>3. QED
    BY <2>1, <2>2
<1>10. IndexInv'
  BY <1>0, <1>8, QuietIndex
<1>11. KeptTypes' /\ OthersUnedited(o)
  BY <1>0, <1>8 DEF KeptTypes, OthersUnedited, Unedited
<1>12. VersionInv' /\ RecorderTypes'
  BY <1>4, <1>5, <1>8, OnlyRequests
<1>13. QED
  BY <1>5, <1>6, <1>8, <1>9, <1>10, <1>11, <1>12, HistoryKept
-----------------------------------------------------------------------------
(* The history: recorders *)

LEMMA SpawnKept ==
  ASSUME HistoryInv, NEW o \in Ops, NEW slot \in {"own", "detached"}, NEW hash \in Hashes,
         op[o].site \in Sites, Spawn(o, slot, hash), UNCHANGED <<listed, deleted>>, IndexInv',
         NEW r, Go(o, r), Fits(o, r), r.at \notin {"delete", "commit"}
  PROVE  HistoryInv'
<1>0. DbTypes /\ KeptTypes /\ RequestTypes /\ RecorderTypes /\ VersionInv
  BY DEF HistoryInv, HistoryTypes
<1>1. UNCHANGED db /\ UNCHANGED <<versions, nextId, backups, count, raced>>
  BY DEF Spawn, db
<1>2. PICK x : x = [NoTask EXCEPT !.at = "begin", !.site = op[o].site, !.hash = hash]
  OBVIOUS
<1>3. x \in Recorders /\ x.at = "begin" /\ x.site \in Sites
  BY <1>2, IdleType DEF Recorders, NoTask
<1>4. <<o, slot>> \in Tasks
  BY DEF Tasks
<1>5. task' = [task EXCEPT ![<<o, slot>>] = x]
  BY <1>2 DEF Spawn
<1>6. RecorderTypes' /\ \A t \in Tasks : task'[t] = task[t] \/ task'[t].at # "insert"
  BY <1>0, <1>3, <1>4, <1>5 DEF RecorderTypes
<1>7. VersionInv'
  <2>1. nextId' \in Nat /\ nextId <= nextId'
    BY <1>0, <1>1 DEF KeptTypes
  <2>2. \A q \in Ops : op'[q] = op[q] \/ (op'[q].at \in {"delete", "commit"} => op'[q].id < nextId')
    BY <1>0 DEF Go, RequestTypes
  <2>3. \A t \in Tasks : task'[t] = task[t] \/ (task'[t].at = "insert" => Truthful(task[t])')
    BY <1>6
  <2>4. QED
    BY <1>0, <1>1, <2>1, <2>2, <2>3, VersionsKept
<1>8. DbTypes' /\ Advances /\ \A s \in Sites : Unedited(s)
  BY <1>0, <1>1, QuietDb
<1>9. KeptTypes'
  BY <1>0, <1>1 DEF KeptTypes
<1>10. OthersUnedited(o)
  BY <1>0, <1>8 DEF OthersUnedited, RequestTypes, Inside
<1>11. QED
  BY <1>1, <1>6, <1>7, <1>8, <1>9, <1>10, HistoryKept

LEMMA NotifyKept ==
  ASSUME HistoryInv, NEW o \in Ops, Notify(o) PROVE HistoryInv'
<1>0. DbTypes /\ IndexInv /\ RequestTypes
  BY DEF HistoryInv, HistoryTypes
<1>1. PICK x \in Requests : x = op[o]
  BY <1>0 DEF RequestTypes
<1>2. x.at = "notify" /\ x.site \in Sites
  BY <1>0, <1>1 DEF RequestTypes, Notify, At
<1>3. PICK r : r = IF op[o].kind = "restore" THEN [op[o] EXCEPT !.at = "record"] ELSE Idle
  OBVIOUS
<1>4. r \in Requests /\ r.at \in {"record", "idle"} /\ (r.at # "idle" => r.site \in Sites)
  BY <1>1, <1>2, <1>3, IdleType DEF Requests, Idle
<1>5. Go(o, r)
  BY <1>3 DEF Notify
<1>6. Fits(o, r)
  BY <1>4, PlainFits DEF Inside
<1>7. PICK h \in Hashes : h = ConfigHash(op[o].site)
  BY <1>0, <1>1, <1>2, ContentType
<1>8. Spawn(o, "detached", h)
  BY <1>7 DEF Notify
<1>9. UNCHANGED <<listed, deleted>> /\ IndexInv'
  <2>1. CASE UpdateFromSiteConfig
    BY <1>0, <2>1, UpdateIndexInv DEF UpdateFromSiteConfig
  <2>2. CASE UNCHANGED <<listed, deleted, edge>>
    BY <1>0, <2>2, QuietIndex
  <2>3. QED
    BY <2>1, <2>2 DEF Notify
<1>10. QED
  BY <1>1, <1>2, <1>4, <1>5, <1>6, <1>8, <1>9, SpawnKept

\* A step that leaves the requests, the sites and the agent alone.
LEMMA QuietKept ==
  ASSUME HistoryInv, UNCHANGED <<db, edge, op>>, raced \subseteq raced', KeptTypes',
         RecorderTypes', VersionInv'
  PROVE  HistoryInv'
<1>0. DbTypes /\ IndexInv /\ RequestTypes /\ RestoreInv /\ LockInv /\ RollbackInv
  BY DEF HistoryInv, HistoryTypes
<1>1. DbTypes' /\ IndexInv' /\ \A s \in Sites : Unedited(s)
  BY <1>0, QuietDb, QuietIndex DEF db
<1>2. RequestTypes' /\ RestoreInv' /\ LockInv'
  BY <1>0 DEF RequestTypes, RestoreInv, LockInv, Restoring, db
<1>3. ASSUME NEW o \in Ops PROVE Faithful(op[o])'
  <2>1. PICK x : x = op[o]
    OBVIOUS
  <2>2. Faithful(x) /\ (x.at \in Inside => Unedited(x.site))
    BY <1>0, <1>1, <2>1 DEF RollbackInv, RequestTypes, Inside
  <2>3. Faithful(x)'
    BY <2>2, FaithfulKept
  <2>4. op'[o] = x
    BY <2>1
  <2>5. QED
    BY <2>3, <2>4 DEF Faithful
<1>4. QED
  BY <1>1, <1>2, <1>3 DEF HistoryInv, HistoryTypes, RollbackInv

LEMMA RecordBeginKept ==
  ASSUME HistoryInv, NEW t \in Tasks, RecordBegin(t) PROVE HistoryInv'
<1>0. DbTypes /\ KeptTypes /\ RequestTypes /\ RecorderTypes /\ VersionInv
  BY DEF HistoryInv, HistoryTypes
<1>1. PICK x \in Recorders : x = task[t]
  BY <1>0 DEF RecorderTypes
<1>2. x.at = "begin" /\ x.site \in Sites
  BY <1>0, <1>1 DEF RecorderTypes, RecordBegin
<1>3. PICK c \in Kept : c = Content(x.site)
  BY <1>0, <1>2, ContentType
<1>4. PICK S \in SUBSET Nat : S = Ids(Of(x.site))
  BY <1>0 DEF KeptTypes, Versions, Ids, Of
<1>5. PICK y : y = [x EXCEPT !.at = "insert", !.snap = c, !.seen = S]
  OBVIOUS
<1>6. y \in Recorders /\ y.site = x.site /\ y.hash = x.hash /\ y.snap = c
  BY <1>5 DEF Recorders
<1>7. task' = [task EXCEPT ![t] = NoTask] \/ task' = [task EXCEPT ![t] = y]
  BY <1>1, <1>3, <1>4, <1>5 DEF RecordBegin
<1>8. raced \subseteq raced' /\ UNCHANGED <<db, edge, versions, nextId, backups, op, count>>
  BY DEF RecordBegin
<1>9. RecorderTypes' /\ \A u \in Tasks : u # t => task'[u] = task[u]
  <2>1. PICK z \in Recorders : task' = [task EXCEPT ![t] = z] /\ (z.at # "none" => z.site \in Sites)
    <3>1. NoTask \in Recorders /\ NoTask.at = "none"
      BY IdleType DEF NoTask
    <3>2. QED
      BY <1>2, <1>6, <1>7, <3>1
  <2>2. QED
    BY <1>0, <2>1 DEF RecorderTypes
<1>10. Truthful(y)'
  <2> SUFFICES ASSUME y.site \notin raced', y.hash.kind = "bundle" PROVE Same(Shown(y.snap), y.hash.content)
    BY Zenon DEF Truthful
  <2>1. ~Overtaken(t)
    BY <1>1, <1>6 DEF RecordBegin
  <2>2. Same(x.hash.content, Shown(Content(x.site)))
    BY <1>1, <1>6, <2>1 DEF Overtaken
  <2>3. QED
    BY <1>3, <1>6, <2>2 DEF Same
<1>11. VersionInv'
  <2>1. nextId' \in Nat /\ nextId <= nextId'
    BY <1>0, <1>8 DEF KeptTypes
  <2>2. task'[t] = NoTask \/ task'[t] = y
    BY <1>0, <1>7 DEF RecorderTypes
  <2>3. NoTask.at # "insert"
    BY DEF NoTask
  <2>4. task'[t].at = "insert" => Truthful(task[t])'
    BY <1>10, <2>2, <2>3 DEF Truthful
  <2>5. \A u \in Tasks : task'[u] = task[u] \/ (task'[u].at = "insert" => Truthful(task[u])')
    BY <1>9, <2>4, Zenon
  <2>6. QED
    BY <1>0, <1>8, <2>1, <2>5, VersionsKept
<1>12. KeptTypes'
  BY <1>0, <1>8 DEF KeptTypes
<1>13. QED
  BY <1>8, <1>9, <1>11, <1>12, QuietKept

\* A recorder that ends, with the versions vs there are then.
LEMMA RecorderEnds ==
  ASSUME HistoryInv, NEW t \in Tasks, task' = [task EXCEPT ![t] = NoTask]
  PROVE  RecorderTypes' /\ \A u \in Tasks : task'[u] = task[u] \/ task'[u].at # "insert"
BY IdleType DEF HistoryInv, HistoryTypes, RecorderTypes, NoTask

LEMMA RecordCommitKept ==
  ASSUME HistoryInv, NEW t \in Tasks, RecordCommit(t) PROVE HistoryInv'
<1>0. KeptTypes /\ RequestTypes /\ RecorderTypes /\ VersionInv
  BY DEF HistoryInv, HistoryTypes
<1>1. PICK x \in Recorders : x = task[t]
  BY <1>0 DEF RecorderTypes
<1>2. x.at = "insert" /\ x.site \in Sites
  BY <1>0, <1>1 DEF RecorderTypes, RecordCommit
<1>3. PICK v : v = [id |-> nextId, site |-> x.site, hash |-> x.hash, snap |-> x.snap]
  OBVIOUS
<1>4. v \in Versions /\ v.id = nextId /\ v.site = x.site /\ v.hash = x.hash /\ v.snap = x.snap
  BY <1>0, <1>2, <1>3 DEF Versions, Recorders, KeptTypes
<1>5. versions' \subseteq versions \cup {v}
  BY <1>1, <1>3 DEF RecordCommit
<1>6. UNCHANGED <<db, edge, backups, op, count, raced>> /\ nextId' = nextId + 1
  BY DEF RecordCommit
<1>7. RecorderTypes' /\ \A u \in Tasks : task'[u] = task[u] \/ task'[u].at # "insert"
  BY RecorderEnds DEF RecordCommit
<1>8. Truthful(v)'
  <2>1. Truthful(x)
    BY <1>0, <1>1, <1>2 DEF VersionInv
  <2>2. QED
    BY <1>4, <1>6, <2>1 DEF Truthful
<1>9. nextId \in Nat /\ nextId' \in Nat /\ nextId <= nextId' /\ nextId < nextId'
  BY <1>0, <1>6 DEF KeptTypes
<1>10. \A w \in versions' : w \in versions \/ (Truthful(w)' /\ w.id < nextId')
  <2> SUFFICES ASSUME NEW w \in versions', w \notin versions PROVE Truthful(w)' /\ w.id < nextId'
    OBVIOUS
  <2>1. w = v
    BY <1>5
  <2>2. QED
    BY <1>4, <1>8, <1>9, <2>1
<1>11. VersionInv'
  BY <1>0, <1>6, <1>7, <1>9, <1>10, VersionsKept
<1>12. KeptTypes'
  BY <1>0, <1>4, <1>5, <1>6, <1>9 DEF KeptTypes
<1>13. QED
  BY <1>6, <1>7, <1>11, <1>12, QuietKept

LEMMA RecordFailsKept ==
  ASSUME HistoryInv, NEW t \in Tasks, RecordFails(t) PROVE HistoryInv'
<1>0. KeptTypes /\ RequestTypes /\ VersionInv
  BY DEF HistoryInv, HistoryTypes
<1>1. UNCHANGED <<db, edge, versions, nextId, backups, op, raced>>
  BY DEF RecordFails
<1>2. RecorderTypes' /\ \A u \in Tasks : task'[u] = task[u] \/ task'[u].at # "insert"
  BY RecorderEnds DEF RecordFails
<1>3. nextId' \in Nat /\ nextId <= nextId'
  BY <1>0, <1>1 DEF KeptTypes
<1>4. VersionInv'
  BY <1>0, <1>1, <1>2, <1>3, VersionsKept
<1>5. count' \in [Kinds -> Nat]
  BY <1>0, CountsType DEF RecordFails, KeptTypes, Kinds
<1>6. KeptTypes'
  BY <1>0, <1>1, <1>5 DEF KeptTypes
<1>7. QED
  BY <1>1, <1>2, <1>4, <1>6, QuietKept

LEMMA PruneKept ==
  ASSUME HistoryInv, PruneExpired PROVE HistoryInv'
<1>0. KeptTypes /\ RequestTypes /\ VersionInv /\ RecorderTypes
  BY DEF HistoryInv, HistoryTypes
<1>1. UNCHANGED <<db, edge, nextId, backups, op, task, raced>> /\ versions' \subseteq versions
  BY DEF PruneExpired
<1>2. RecorderTypes'
  BY <1>0, <1>1 DEF RecorderTypes
<1>3. nextId' \in Nat /\ nextId <= nextId'
  BY <1>0, <1>1 DEF KeptTypes
<1>4. VersionInv'
  BY <1>0, <1>1, <1>3, VersionsKept
<1>5. count' \in [Kinds -> Nat]
  BY <1>0, CountsType DEF PruneExpired, KeptTypes, Kinds
<1>6. KeptTypes'
  BY <1>0, <1>1, <1>5 DEF KeptTypes
<1>7. QED
  BY <1>1, <1>2, <1>4, <1>6, QuietKept

LEMMA BackUpKept ==
  ASSUME HistoryInv, NEW o \in Ops, NEW s \in Sites, BackUp(o, s) PROVE HistoryInv'
<1>0. DbTypes /\ KeptTypes /\ RequestTypes /\ VersionInv /\ RecorderTypes
  BY DEF HistoryInv, HistoryTypes
<1>1. UNCHANGED <<db, edge, versions, nextId, op, task, raced>>
  BY DEF BackUp
<1>2. RecorderTypes'
  BY <1>0, <1>1 DEF RecorderTypes
<1>3. nextId' \in Nat /\ nextId <= nextId'
  BY <1>0, <1>1 DEF KeptTypes
<1>4. VersionInv'
  BY <1>0, <1>1, <1>3, VersionsKept
<1>5. count' \in [Kinds -> Nat]
  BY <1>0, CountsType DEF BackUp, KeptTypes, Kinds
<1>6. backups' \subseteq Backups
  BY <1>0, ContentType DEF BackUp, KeptTypes, Backups
<1>7. KeptTypes'
  BY <1>0, <1>1, <1>5, <1>6 DEF KeptTypes
<1>8. QED
  BY <1>1, <1>2, <1>4, <1>7, QuietKept
-----------------------------------------------------------------------------
(* The history: rollbacks and restores *)

\* A step of request o alone, which leaves the sites and the agent alone.
LEMMA OwnStepKept ==
  ASSUME HistoryInv, UNCHANGED <<db, edge, task>>, raced \subseteq raced', KeptTypes', VersionInv',
         NEW o \in Ops, NEW r, Go(o, r), Fits(o, r)
  PROVE  HistoryInv'
<1>0. DbTypes /\ IndexInv /\ RequestTypes /\ RecorderTypes
  BY DEF HistoryInv, HistoryTypes
<1>1. DbTypes' /\ Advances /\ \A s \in Sites : Unedited(s)
  BY <1>0, QuietDb
<1>2. IndexInv'
  BY <1>0, QuietIndex DEF db
<1>3. RecorderTypes'
  BY <1>0 DEF RecorderTypes
<1>4. OthersUnedited(o)
  BY <1>0, <1>1 DEF OthersUnedited, RequestTypes, Inside
<1>5. QED
  BY <1>1, <1>2, <1>3, <1>4, HistoryKept

LEMMA BeginsKept ==
  ASSUME HistoryInv, NEW o \in Ops, NEW s, NEW kind \in Kinds, Begins(o, s, kind),
         UNCHANGED <<db, edge, versions, nextId, backups, task, raced>>,
         NEW r, Go(o, r), Fits(o, r), r.at \notin {"delete", "commit"}
  PROVE  HistoryInv'
<1>0. KeptTypes
  BY DEF HistoryInv, HistoryTypes
<1>1. count' \in [Kinds -> Nat]
  BY <1>0, CountsType DEF Begins, KeptTypes
<1>2. KeptTypes'
  BY <1>0, <1>1 DEF KeptTypes
<1>3. VersionInv'
  BY OnlyRequests
<1>4. QED
  BY <1>2, <1>3, OwnStepKept

LEMMA RollbackBeginsKept ==
  ASSUME HistoryInv, NEW o \in Ops, NEW v \in versions, RollbackBegins(o, v) PROVE HistoryInv'
<1>1. v.site \in Sites /\ v.snap \in Kept
  BY DEF HistoryInv, HistoryTypes, KeptTypes, Versions
<1>2. PICK r : r = [Idle EXCEPT !.at = "lock", !.kind = "rollback", !.site = v.site, !.snap = v.snap]
  OBVIOUS
<1>3. r \in Requests /\ r.at = "lock" /\ r.site = v.site /\ r.kind = "rollback"
  BY <1>1, <1>2, IdleType DEF Requests, Idle
<1>4. Fits(o, r)
  BY <1>1, <1>3, PlainFits DEF Inside
<1>5. /\ Go(o, r) /\ Begins(o, v.site, "rollback")
      /\ UNCHANGED <<db, edge, versions, nextId, backups, task, raced>>
  BY <1>2 DEF RollbackBegins
<1>6. QED
  BY <1>3, <1>4, <1>5, BeginsKept DEF Kinds

LEMMA RestoreBeginsKept ==
  ASSUME HistoryInv, NEW o \in Ops, NEW b \in backups, RestoreBegins(o, b) PROVE HistoryInv'
<1>0. DbTypes
  BY DEF HistoryInv, HistoryTypes
<1>1. b.site \in Sites /\ b.snap \in Kept
  BY DEF HistoryInv, HistoryTypes, KeptTypes, Backups
<1>2. PICK c \in Kept : c = Content(b.site)
  BY <1>0, <1>1, ContentType
<1>3. PICK n \in Nat : n = rev[b.site]
  BY <1>0, <1>1 DEF DbTypes
<1>4. PICK r : r = [Idle EXCEPT !.at = "restore", !.kind = "restore", !.site = b.site,
                      !.snap = b.snap, !.before = c, !.seen = n]
  OBVIOUS
<1>5. r \in Requests /\ r.at = "restore" /\ r.site = b.site /\ r.before = c /\ r.seen = n
  BY <1>1, <1>4, IdleType DEF Requests, Idle
<1>6. /\ Go(o, r) /\ Begins(o, b.site, "restore")
      /\ UNCHANGED <<db, edge, versions, nextId, backups, task, raced>>
  BY <1>2, <1>3, <1>4 DEF RestoreBegins
<1>7. Fits(o, r)
  <2>1. c.names = listed[b.site]
    BY <1>2 DEF Content
  <2>2. rev' = rev /\ listed' = listed
    BY <1>6 DEF db
  <2>3. Restoring(r)'
    BY <1>3, <1>5, <2>1, <2>2 DEF Restoring
  <2>4. QED
    BY <1>1, <1>5, <2>3 DEF Fits, Faithful, Inside
<1>8. QED
  BY <1>5, <1>6, <1>7, BeginsKept DEF Kinds

\* A step of a request that changes nothing but the request.
LEMMA MoveKept ==
  ASSUME HistoryInv, UNCHANGED <<db, edge, versions, nextId, backups, task, count, raced>>,
         NEW o \in Ops, NEW r, Go(o, r), Fits(o, r),
         r.at \in {"delete", "commit"} => r.id < nextId
  PROVE  HistoryInv'
<1>0. KeptTypes /\ RequestTypes /\ VersionInv
  BY DEF HistoryInv, HistoryTypes
<1>1. KeptTypes' /\ nextId' \in Nat /\ nextId <= nextId'
  BY <1>0 DEF KeptTypes
<1>2. \A q \in Ops : op'[q] = op[q] \/ (op'[q].at \in {"delete", "commit"} => op'[q].id < nextId')
  BY <1>0 DEF Go, RequestTypes
<1>3. VersionInv'
  BY <1>0, <1>1, <1>2, VersionsKept
<1>4. QED
  BY <1>1, <1>3, OwnStepKept

\* The lock keeps other rollbacks of the site out.
LEMMA RollbackLocksKept ==
  ASSUME HistoryInv, NEW o \in Ops, RollbackLocks(o) PROVE HistoryInv'
<1>0. DbTypes /\ RequestTypes
  BY DEF HistoryInv, HistoryTypes
<1>1. PICK x \in Requests : x = op[o]
  BY <1>0 DEF RequestTypes
<1>2. x.at = "lock" /\ x.site \in Sites
  BY <1>0, <1>1 DEF RequestTypes, RollbackLocks, At
<1>3. PICK h \in Hashes : h = ConfigHashAfter(x.site)
  BY <1>0, <1>2, ContentType
<1>4. PICK c : c = Shown(Content(x.site))
  OBVIOUS
<1>5. (h = NoHash \/ h.kind = "bundle") /\ (h.kind = "bundle" => h.content = c)
  BY <1>0, <1>2, <1>3, <1>4, ContentType
<1>6. PICK r : r = [x EXCEPT !.at = "archive", !.hash = h]
  OBVIOUS
<1>7. r \in Requests /\ r.at = "archive" /\ r.site = x.site /\ r.hash = h /\ r.kind = x.kind
  BY <1>6 DEF Requests
<1>8. Go(o, r) /\ UNCHANGED <<db, edge, versions, nextId, backups, task, count, raced>>
  BY <1>1, <1>3, <1>6 DEF RollbackLocks
<1>9. \A q \in Ops \ {o} : ~(op[q].at \in Inside /\ op[q].site = r.site)
  BY <1>1, <1>7 DEF RollbackLocks, Holds, Inside
<1>10. Shown(Content(x.site))' = c
  BY <1>4, <1>8 DEF Content, db, Shown, Hidden
<1>11. Faithful(r)'
  <2> SUFFICES h.kind = "bundle" => Same(h.content, Shown(Content(x.site))')
    BY <1>5, <1>7 DEF Faithful
  <2>1. QED
    BY <1>5, <1>10 DEF Same
<1>12. r.kind = "rollback"
  BY <1>1, <1>2, <1>7 DEF HistoryInv, LockInv
<1>13. Fits(o, r)
  BY <1>2, <1>7, <1>9, <1>11, <1>12 DEF Fits, Restoring
<1>14. QED
  BY <1>7, <1>8, <1>13, MoveKept

\* The archived state is the state: that of the rows, or of a version that has
\* the hash.
LEMMA RollbackArchivesKept ==
  ASSUME HistoryInv, NEW o \in Ops, RollbackArchives(o) PROVE HistoryInv'
<1>0. /\ DbTypes /\ KeptTypes /\ RequestTypes /\ HistoryTypes /\ VersionInv /\ LockInv /\ RollbackInv
      /\ nextId \in Nat
  BY DEF HistoryInv, HistoryTypes, KeptTypes
<1>1. PICK x \in Requests : x = op[o]
  BY <1>0 DEF RequestTypes
<1>2. x.at = "archive" /\ x.site \in Sites /\ x.kind = "rollback"
  BY <1>0, <1>1 DEF RequestTypes, RollbackArchives, At, LockInv, Inside
<1>3. PICK known \in BOOLEAN : known = IsLatest(x.site, x.hash)
  BY DEF IsLatest
<1>4. PICK c \in Kept : c = Content(x.site)
  BY <1>0, <1>2, ContentType
<1>5. PICK v : v = Latest(x.site)
  OBVIOUS
<1>6. ASSUME known
      PROVE  /\ v \in Versions /\ v.site = x.site /\ v.hash = x.hash /\ x.hash # NoHash
             /\ Truthful(v)
  <2>1. Of(x.site) # {} /\ v.hash = x.hash /\ x.hash # NoHash
    BY <1>3, <1>5, <1>6 DEF IsLatest
  <2>2. v \in Of(x.site)
    BY <1>0, <1>5, <2>1, LatestOf
  <2>3. QED
    BY <1>0, <2>1, <2>2 DEF Of, KeptTypes, VersionInv
<1>7. PICK G \in SUBSET Nat : G = IF known THEN {} ELSE Pruned(Ids(Of(x.site)) \cup {nextId})
  <2>1. Ids(Of(x.site)) \subseteq Nat
    BY <1>0 DEF KeptTypes, Versions, Ids, Of
  <2>2. Pruned(Ids(Of(x.site)) \cup {nextId}) \subseteq Nat
    BY <1>0, <2>1 DEF Pruned
  <2>3. QED
    BY <2>2
<1>8. PICK b \in Kept : b = IF known THEN v.snap ELSE c
  BY <1>6 DEF Versions
<1>9. PICK i \in Nat : i = IF known THEN 0 ELSE nextId
  BY <1>0
<1>10. PICK r : r = [x EXCEPT !.at = "delete", !.before = b, !.id = i, !.gone = G]
  OBVIOUS
<1>11. /\ r \in Requests /\ r.at = "delete" /\ r.site = x.site /\ r.kind = "rollback"
       /\ r.hash = x.hash /\ r.before = b /\ r.id = i
  BY <1>2, <1>10 DEF Requests
<1>12. Go(o, r) /\ nextId' = IF known THEN nextId ELSE nextId + 1
  BY <1>1, <1>3, <1>4, <1>5, <1>7, <1>8, <1>9, <1>10 DEF RollbackArchives
<1>13. UNCHANGED <<db, edge, versions, backups, task, count, raced>>
  BY DEF RollbackArchives
<1>14. Faithful(r)'
  <2> SUFFICES ASSUME x.site \notin raced
               PROVE  /\ x.hash = NoHash \/ x.hash.kind = "bundle"
                      /\ Same(Shown(b), Shown(Content(x.site))')
                      /\ i # 0 => Same(b, Content(x.site)')
                      /\ x.hash.kind = "bundle" => Same(Shown(b), x.hash.content)
    BY <1>11, <1>13 DEF Faithful
  <2>1. Content(x.site)' = c /\ Shown(Content(x.site))' = Shown(c)
    BY <1>4, <1>13 DEF Content, db, Shown, Hidden
  <2>2. /\ x.hash = NoHash \/ x.hash.kind = "bundle"
        /\ x.hash.kind = "bundle" => Same(x.hash.content, Shown(c))
    BY <1>0, <1>1, <1>2, <1>4 DEF RollbackInv, Faithful, Inside
  <2>3. CASE known
    <3>1. x.hash.kind = "bundle" /\ Same(Shown(v.snap), x.hash.content)
      BY <1>6, <2>2, <2>3 DEF Truthful
    <3>2. b = v.snap /\ i = 0
      BY <1>8, <1>9, <2>3
    <3>3. QED
      BY <2>1, <2>2, <3>1, <3>2 DEF Same
  <2>4. CASE ~known
    <3>1. b = c
      BY <1>8, <2>4
    <3>2. QED
      BY <2>1, <2>2, <3>1 DEF Same
  <2>5. QED
    BY <2>3, <2>4
<1>15. \A q \in Ops \ {o} : ~(op[q].at \in Inside /\ op[q].site = r.site)
  BY <1>0, <1>1, <1>2, <1>11 DEF LockInv, Inside
<1>16. Fits(o, r)
  BY <1>2, <1>11, <1>14, <1>15 DEF Fits, Restoring
<1>17. nextId' \in Nat /\ nextId <= nextId' /\ KeptTypes'
  BY <1>0, <1>12, <1>13 DEF KeptTypes
<1>18. r.id < nextId'
  <2>1. nextId # 0 \/ ~known
    <3>1. ASSUME known PROVE v \in versions
      BY <1>0, <1>3, <1>5, <3>1, LatestOf DEF IsLatest, Of
    <3>2. ASSUME known PROVE v.id \in Nat /\ v.id < nextId
      BY <1>0, <3>1, <3>2 DEF VersionInv, KeptTypes, Versions
    <3>3. QED
      BY <1>0, <3>2
  <2>2. QED
    BY <1>0, <1>9, <1>11, <1>12, <2>1
<1>19. VersionInv'
  <2>1. \A q \in Ops : op'[q] = op[q] \/ (op'[q].at \in {"delete", "commit"} => op'[q].id < nextId')
    BY <1>0, <1>12, <1>18 DEF Go, RequestTypes
  <2>2. QED
    BY <1>0, <1>13, <1>17, <2>1, VersionsKept
<1>20. QED
  BY <1>12, <1>13, <1>16, <1>17, <1>19, OwnStepKept

LEMMA RollbackDeletesKept ==
  ASSUME HistoryInv, NEW o \in Ops, RollbackDeletes(o) PROVE HistoryInv'
<1>0. DbTypes /\ RequestTypes /\ VersionInv /\ LockInv /\ RollbackInv
  BY DEF HistoryInv, HistoryTypes
<1>1. PICK x \in Requests : x = op[o]
  BY <1>0 DEF RequestTypes
<1>2. x.at = "delete" /\ x.site \in Sites /\ x.kind = "rollback" /\ x.id < nextId
  BY <1>0, <1>1 DEF RequestTypes, RollbackDeletes, At, LockInv, Inside, VersionInv
<1>3. PICK D \in SUBSET Int : D = rules[x.site]
  BY <1>0, <1>2 DEF DbTypes
<1>4. PICK r : r = [x EXCEPT !.at = "commit", !.del = D]
  OBVIOUS
<1>5. /\ r \in Requests /\ r.at = "commit" /\ r.site = x.site /\ r.kind = "rollback"
      /\ r.hash = x.hash /\ r.before = x.before /\ r.id = x.id /\ r.del = D
  BY <1>2, <1>4 DEF Requests
<1>6. Go(o, r) /\ UNCHANGED <<db, edge, versions, nextId, backups, task, count, raced>>
  BY <1>1, <1>3, <1>4 DEF RollbackDeletes
<1>7. Faithful(r)'
  <2>1. Faithful(x)
    BY <1>0, <1>1 DEF RollbackInv
  <2>2. /\ Content(x.site)' = Content(x.site) /\ rules' = rules
        /\ Shown(Content(x.site))' = Shown(Content(x.site))
    BY <1>6 DEF Content, db, Shown, Hidden
  <2>3. QED
    BY <1>2, <1>3, <1>5, <1>6, <2>1, <2>2 DEF Faithful, Inside
<1>8. \A q \in Ops \ {o} : ~(op[q].at \in Inside /\ op[q].site = r.site)
  BY <1>0, <1>1, <1>2, <1>5 DEF LockInv, Inside
<1>9. Fits(o, r)
  BY <1>2, <1>5, <1>7, <1>8 DEF Fits, Restoring
<1>10. QED
  BY <1>2, <1>5, <1>6, <1>9, MoveKept

\* What Restores makes of a site; the others keep their rows.
LEMMA RestoresFacts ==
  ASSUME HistoryInv, NEW s \in Sites, NEW snap \in Kept, NEW del, Restores(s, snap, del),
         UNCHANGED edge
  PROVE  DbTypes' /\ Advances /\ IndexInv' /\ \A q \in Sites \ {s} : Unedited(q)
<1>0. DbTypes /\ IndexInv
  BY DEF HistoryInv, HistoryTypes
<1>1. snap.names \in SUBSET Names /\ snap.rules \in SUBSET Int /\ snap.stamp \in Nat
  BY DEF Kept
<1>2. rules' = [rules EXCEPT ![s] = (@ \ del) \cup snap.rules]
  BY DEF Restores
<1>3. rules' \in [Sites -> SUBSET Int] /\ \A q \in Sites \ {s} : rules'[q] = rules[q]
  BY <1>0, <1>1, <1>2 DEF DbTypes
<1>4. CASE snap.names = {}
  <2>1. UNCHANGED <<listed, stamp, rev>>
    BY <1>4 DEF Restores
  <2>2. QED
    BY <1>0, <1>3, <2>1, QuietIndex DEF DbTypes, Advances, Unedited
<1>5. CASE snap.names # {}
  <2>1. /\ listed' = [listed EXCEPT ![s] = snap.names] /\ stamp' = [stamp EXCEPT ![s] = snap.stamp]
        /\ rev' = [rev EXCEPT ![s] = @ + 1]
        /\ \A r \in Sites \ {s} : listed[r] \cap snap.names = {}
    BY <1>5 DEF Restores
  <2>2. DbTypes' /\ Advances /\ \A q \in Sites \ {s} : Unedited(q)
    BY <1>0, <1>1, <1>3, <2>1 DEF DbTypes, Advances, Unedited
  <2>3. IndexTypes' /\ Indexed'
    BY <1>0, <1>1, <2>1 DEF IndexInv, IndexTypes, Indexed, edge
  <2>4. OneOwner'
    BY <1>0, <2>1 DEF IndexInv, IndexTypes, OneOwner
  <2>5. QED
    BY <2>2, <2>3, <2>4 DEF IndexInv
<1>6. QED
  BY <1>4, <1>5

LEMMA RollbackCommitsKept ==
  ASSUME HistoryInv, NEW o \in Ops, RollbackCommits(o) PROVE HistoryInv'
<1>0. DbTypes /\ KeptTypes /\ RequestTypes /\ RecorderTypes /\ VersionInv /\ LockInv /\ RollbackInv
  BY DEF HistoryInv, HistoryTypes
<1>1. PICK x \in Requests : x = op[o]
  BY <1>0 DEF RequestTypes
<1>2. /\ x.at = "commit" /\ x.site \in Sites /\ x.kind = "rollback" /\ x.id < nextId
      /\ x.snap \in Kept
  BY <1>0, <1>1 DEF RequestTypes, RollbackCommits, At, LockInv, Inside, VersionInv, Requests
<1>3. UNCHANGED <<edge, nextId, backups, task, count, raced>>
  BY DEF RollbackCommits
<1>4. Restores(x.site, x.snap, x.del)
  BY <1>1 DEF RollbackCommits
<1>5. DbTypes' /\ Advances /\ IndexInv' /\ \A q \in Sites \ {x.site} : Unedited(q)
  BY <1>2, <1>3, <1>4, RestoresFacts
<1>6. PICK v : v = [id |-> x.id, site |-> x.site, hash |-> x.hash, snap |-> x.before]
  OBVIOUS
<1>7. /\ v \in Versions /\ v.id = x.id /\ v.site = x.site /\ v.hash = x.hash
      /\ v.snap = x.before
  BY <1>2, <1>6 DEF Versions, Requests
<1>8. versions' \subseteq versions \cup {v}
  BY <1>1, <1>6 DEF RollbackCommits
<1>9. PICK r : r = [Idle EXCEPT !.at = "recordRollback", !.kind = "rollback", !.site = x.site]
  OBVIOUS
<1>10. r \in Requests /\ r.at = "recordRollback" /\ r.site = x.site
  BY <1>2, <1>9, IdleType DEF Requests, Idle
<1>11. Go(o, r)
  BY <1>1, <1>9 DEF RollbackCommits
<1>12. Fits(o, r)
  BY <1>2, <1>10, PlainFits DEF Inside
<1>13. OthersUnedited(o)
  <2> SUFFICES ASSUME NEW q \in Ops \ {o}, op[q].at \in Inside PROVE Unedited(op[q].site)
    BY Zenon DEF OthersUnedited
  <2>1. op[q].site \in Sites /\ op[q].site # x.site
    BY <1>0, <1>1, <1>2 DEF LockInv, RequestTypes, Inside
  <2>2. QED
    BY <1>5, <2>1, Zenon
<1>14. Truthful(v)'
  <2>1. Faithful(x)
    BY <1>0, <1>1 DEF RollbackInv
  <2>2. QED
    BY <1>2, <1>3, <1>7, <2>1 DEF Truthful, Faithful, Inside
<1>15. VersionInv'
  <2>1. nextId' \in Nat /\ nextId <= nextId'
    BY <1>0, <1>3 DEF KeptTypes
  <2>2. \A w \in versions' : w \in versions \/ (Truthful(w)' /\ w.id < nextId')
    <3> SUFFICES ASSUME NEW w \in versions', w \notin versions PROVE Truthful(w)' /\ w.id < nextId'
      OBVIOUS
    <3>1. w = v
      BY <1>8
    <3>2. QED
      BY <1>2, <1>3, <1>7, <1>14, <3>1
  <2>3. \A q \in Ops : op'[q] = op[q] \/ (op'[q].at \in {"delete", "commit"} => op'[q].id < nextId')
    BY <1>0, <1>10, <1>11 DEF Go, RequestTypes
  <2>4. QED
    BY <1>0, <1>3, <2>1, <2>2, <2>3, VersionsKept
<1>16. KeptTypes' /\ RecorderTypes'
  BY <1>0, <1>3, <1>7, <1>8 DEF KeptTypes, RecorderTypes
<1>17. QED
  BY <1>3, <1>5, <1>11, <1>12, <1>13, <1>15, <1>16, HistoryKept

LEMMA RollbackRecordsKept ==
  ASSUME HistoryInv, NEW o \in Ops, RollbackRecords(o) PROVE HistoryInv'
<1>0. DbTypes /\ IndexInv /\ RequestTypes
  BY DEF HistoryInv, HistoryTypes
<1>1. PICK x \in Requests : x = op[o]
  BY <1>0 DEF RequestTypes
<1>2. x.at = "recordRollback" /\ x.site \in Sites
  BY <1>0, <1>1 DEF RequestTypes, RollbackRecords, At
<1>3. PICK r : r = [x EXCEPT !.at = "touch"]
  OBVIOUS
<1>4. r \in Requests /\ r.at = "touch" /\ r.site = x.site
  BY <1>3 DEF Requests
<1>5. PICK h \in Hashes : h = ConfigHashAfter(x.site)
  BY <1>0, <1>2, ContentType
<1>6. Go(o, r) /\ Spawn(o, "own", h) /\ UNCHANGED <<listed, deleted, edge>>
  BY <1>1, <1>3, <1>5 DEF RollbackRecords, MoveTo
<1>7. Fits(o, r)
  BY <1>2, <1>4, PlainFits DEF Inside
<1>8. IndexInv'
  BY <1>0, <1>6, QuietIndex
<1>9. QED
  BY <1>1, <1>2, <1>4, <1>6, <1>7, <1>8, SpawnKept

LEMMA RestoreCommitsKept ==
  ASSUME HistoryInv, NEW o \in Ops, RestoreCommits(o) PROVE HistoryInv'
<1>0. DbTypes /\ KeptTypes /\ RequestTypes /\ RecorderTypes
  BY DEF HistoryInv, HistoryTypes
<1>1. PICK x \in Requests : x = op[o]
  BY <1>0 DEF RequestTypes
<1>2. x.at = "restore" /\ x.site \in Sites /\ x.snap \in Kept /\ x.before \in Kept
  BY <1>0, <1>1 DEF RequestTypes, RestoreCommits, At, Requests
<1>3. UNCHANGED <<edge, versions, nextId, task, count>>
  BY DEF RestoreCommits, Restored
<1>4. Restores(x.site, x.snap, x.before.rules)
  BY <1>1 DEF RestoreCommits
<1>5. DbTypes' /\ Advances /\ IndexInv' /\ \A q \in Sites \ {x.site} : Unedited(q)
  BY <1>2, <1>3, <1>4, RestoresFacts
<1>6. PICK r : r = [Idle EXCEPT !.at = "touch", !.kind = "restore", !.site = x.site]
  OBVIOUS
<1>7. r \in Requests /\ r.at = "touch" /\ r.site = x.site
  BY <1>2, <1>6, IdleType DEF Requests, Idle
<1>8. Go(o, r)
  BY <1>1, <1>6 DEF RestoreCommits, Restored
<1>9. Fits(o, r)
  BY <1>2, <1>7, PlainFits DEF Inside
<1>10. /\ raced \subseteq raced'
       /\ \A q \in Ops : op[q].kind = "rollback" /\ op[q].site = x.site => x.site \in raced'
  BY <1>1 DEF RestoreCommits, Restored, Changes
<1>11. OthersUnedited(o)
  <2> SUFFICES ASSUME NEW q \in Ops \ {o}, op[q].kind = "rollback", op[q].site \notin raced',
                      op[q].at \in Inside
               PROVE  Unedited(op[q].site)
    BY Zenon DEF OthersUnedited
  <2>1. op[q].site # x.site /\ op[q].site \in Sites
    BY <1>0, <1>10 DEF RequestTypes, Inside
  <2>2. QED
    BY <1>5, <2>1, Zenon
<1>12. VersionInv' /\ RecorderTypes'
  BY <1>3, <1>7, <1>8, <1>10, OnlyRequests
<1>13. backups' \subseteq Backups
  BY <1>0, <1>1, <1>2 DEF RestoreCommits, Restored, KeptTypes, Backups
<1>14. KeptTypes'
  BY <1>0, <1>3, <1>13 DEF KeptTypes
<1>15. QED
  BY <1>5, <1>8, <1>9, <1>10, <1>11, <1>12, <1>14, HistoryKept

LEMMA RestoreRecordsKept ==
  ASSUME HistoryInv, NEW o \in Ops, RestoreRecords(o) PROVE HistoryInv'
<1>0. IndexInv /\ RequestTypes
  BY DEF HistoryInv, HistoryTypes
<1>1. op[o].site \in Sites
  BY <1>0 DEF RequestTypes, RestoreRecords, At
<1>2. Idle \in Requests /\ Idle.at = "idle" /\ NoHash \in Hashes
  BY IdleType DEF Idle
<1>3. Go(o, Idle) /\ Spawn(o, "own", NoHash) /\ UNCHANGED <<listed, deleted, edge>>
  BY DEF RestoreRecords
<1>4. Fits(o, Idle)
  BY <1>2, PlainFits DEF Inside
<1>5. IndexInv'
  BY <1>0, <1>3, QuietIndex
<1>6. QED
  BY <1>1, <1>2, <1>3, <1>4, <1>5, SpawnKept

\* A handler that ends, or goes on, without its recorder.
LEMMA EarlyKept ==
  ASSUME HistoryInv, NEW o \in Ops, EndsEarly(o) \/ RestoreGoesOn(o) PROVE HistoryInv'
<1>0. KeptTypes /\ RequestTypes
  BY DEF HistoryInv, HistoryTypes
<1>1. UNCHANGED <<db, edge, versions, nextId, backups, task, raced>> /\ Counts("failure")
  BY DEF EndsEarly, RestoreGoesOn
<1>2. PICK x \in Requests : x = op[o]
  BY <1>0 DEF RequestTypes
<1>3. Idle \in Requests /\ Idle.at = "idle"
  BY IdleType DEF Idle
<1>4. PICK r \in Requests :
        /\ Go(o, r) /\ r.at \in {"idle", "notify", "record"}
        /\ r.at # "idle" => r.site \in Sites
  <2>1. CASE EndsEarly(o)
    BY <1>3, <2>1 DEF EndsEarly
  <2>2. CASE RestoreGoesOn(o)
    <3>1. PICK l \in {"notify", "record"} : Go(o, [x EXCEPT !.at = l])
      BY <1>2, <2>2 DEF RestoreGoesOn, MoveTo
    <3>2. x.site \in Sites
      BY <1>0, <1>2, <2>2 DEF RestoreGoesOn, RequestTypes
    <3>3. PICK r : r = [x EXCEPT !.at = l]
      OBVIOUS
    <3>4. r \in Requests /\ r.at = l /\ r.site = x.site
      BY <3>3 DEF Requests
    <3>5. QED
      BY <3>1, <3>2, <3>3, <3>4
  <2>3. QED
    BY <2>1, <2>2
<1>5. Fits(o, r)
  BY <1>4, PlainFits DEF Inside
<1>6. count' \in [Kinds -> Nat]
  BY <1>0, <1>1, CountsType DEF KeptTypes, Kinds
<1>7. KeptTypes'
  BY <1>0, <1>1, <1>6 DEF KeptTypes
<1>8. VersionInv'
  BY <1>1, <1>4, OnlyRequests
<1>9. QED
  BY <1>1, <1>4, <1>5, <1>7, <1>8, OwnStepKept

\* A writer that is no request.
LEMMA SilentWriteKept ==
  ASSUME HistoryInv, NEW s \in Sites, SilentWrite(s) PROVE HistoryInv'
<1>0. /\ DbTypes /\ KeptTypes /\ IndexInv /\ RequestTypes /\ RecorderTypes /\ VersionInv
      /\ RestoreInv /\ LockInv /\ RollbackInv
  BY DEF HistoryInv, HistoryTypes
<1>1. UNCHANGED <<listed, stamp, rev, edge, versions, nextId, backups, op, task>>
  BY DEF SilentWrite
<1>2. count' \in [Kinds -> Nat]
  BY <1>0, CountsType DEF SilentWrite, KeptTypes, Kinds
<1>3. rules' \in [Sites -> SUBSET Int] /\ \A q \in Sites \ {s} : rules'[q] = rules[q]
  <2>1. PICK old \in SUBSET (Hidden(Content(s)) \ Locked(s)), new \in SUBSET {-count'["silent"]} :
          rules' = [rules EXCEPT ![s] = (@ \ old) \cup new]
    BY Zenon DEF SilentWrite
  <2>2. count'["silent"] \in Nat
    BY <1>2 DEF Kinds
  <2>3. new \subseteq Int
    BY <2>2
  <2>4. QED
    BY <1>0, <2>1, <2>3 DEF DbTypes
<1>4. DbTypes' /\ KeptTypes' /\ RecorderTypes' /\ RequestTypes'
  BY <1>0, <1>1, <1>2, <1>3 DEF DbTypes, KeptTypes, RecorderTypes, RequestTypes
<1>5. IndexInv'
  BY <1>0, <1>1, QuietIndex
<1>6. RestoreInv' /\ LockInv'
  BY <1>0, <1>1 DEF RestoreInv, LockInv, Restoring
<1>7. /\ raced \subseteq raced'
      /\ \A q \in Ops : op[q].kind = "rollback" /\ op[q].site = s => s \in raced'
  BY DEF SilentWrite, Changes
<1>8. ASSUME NEW q \in Ops PROVE Faithful(op[q])'
  <2>1. PICK x : x = op[q]
    OBVIOUS
  <2>2. Faithful(x)
    BY <1>0, <2>1 DEF RollbackInv
  <2>3. x.kind = "rollback" /\ x.site \notin raced' /\ x.at \in Inside => Unedited(x.site)
    <3> SUFFICES ASSUME x.kind = "rollback", x.site \notin raced', x.at \in Inside
                 PROVE  Unedited(x.site)
      OBVIOUS
    <3>1. x.site # s /\ x.site \in Sites
      BY <1>0, <1>7, <2>1 DEF RequestTypes, Inside
    <3>2. QED
      BY <1>1, <1>3, <3>1 DEF Unedited
  <2>4. Faithful(x)'
    BY <1>7, <2>2, <2>3, FaithfulKept
  <2>5. op'[q] = x
    BY <1>1, <2>1
  <2>6. QED
    BY <2>4, <2>5 DEF Faithful
<1>9. VersionInv'
  <2>1. nextId' \in Nat /\ nextId <= nextId'
    BY <1>0, <1>1 DEF KeptTypes
  <2>2. QED
    BY <1>0, <1>1, <1>7, <2>1, VersionsKept
<1>10. QED
  BY <1>4, <1>5, <1>6, <1>8, <1>9 DEF HistoryInv, HistoryTypes, RollbackInv

LEMMA AbortsKept ==
  ASSUME HistoryInv, NEW o \in Ops, Aborts(o) PROVE HistoryInv'
<1>1. Idle \in Requests /\ Idle.at = "idle"
  BY IdleType DEF Idle
<1>2. Go(o, Idle) /\ UNCHANGED <<db, edge, versions, nextId, backups, task, count, raced>>
  BY DEF Aborts
<1>3. Fits(o, Idle)
  BY <1>1, PlainFits DEF Inside
<1>4. QED
  BY <1>1, <1>2, <1>3, MoveKept
-----------------------------------------------------------------------------
(* The history: the theorems *)

LEMMA HistoryBegins == HistoryInit => HistoryInv
<1> SUFFICES ASSUME HistoryInit PROVE HistoryInv
  OBVIOUS
<1>0. First \in Sites /\ NoSite \notin Sites
  BY HistoryAssumption, SiteAssumption
<1>1. PICK h \in Hosts :
        /\ listed = [s \in Sites |-> IF s = First THEN {h} ELSE {}]
        /\ sites = listed /\ index = [n \in Names |-> IF n = h THEN First ELSE NoSite]
        /\ rules = [s \in Sites |-> {}]
        /\ rev = [s \in Sites |-> IF s = First THEN 1 ELSE 0] /\ stamp = rev
        /\ versions = {[id |-> 1, site |-> First, hash |-> ConfigHash(First), snap |-> Content(First)]}
        /\ nextId = 2 /\ backups = {} /\ op = [o \in Ops |-> Idle] /\ task = [t \in Tasks |-> NoTask]
        /\ count = [k \in Kinds |-> 0]
  BY DEF HistoryInit
<1>2. DbTypes
  BY <1>1 DEF DbTypes, Names
<1>3. PICK v : v = [id |-> 1, site |-> First, hash |-> ConfigHash(First), snap |-> Content(First)]
  OBVIOUS
<1>4. v \in Versions /\ v.id = 1 /\ v.hash.kind = "config"
  <2>1. Content(First) \in Kept /\ ConfigHash(First) \in Hashes
    BY <1>0, <1>2, ContentType
  <2>2. v \in Versions /\ v.id = 1
    BY <1>0, <1>3, <2>1 DEF Versions
  <2>3. v.hash.kind = "config"
    BY <1>3 DEF ConfigHash, Hash
  <2>4. QED
    BY <2>2, <2>3
<1>5. versions = {v}
  BY <1>1, <1>3
<1>6. KeptTypes
  BY <1>1, <1>4, <1>5 DEF KeptTypes
<1>7. RequestTypes /\ RecorderTypes
  BY <1>1, IdleType DEF RequestTypes, RecorderTypes, Idle, NoTask
<1>8. \A o \in Ops : op[o].at = "idle"
  BY <1>1 DEF Idle
<1>9. RestoreInv /\ LockInv /\ RollbackInv
  BY <1>8 DEF RestoreInv, LockInv, RollbackInv, Restoring, Faithful, Inside
<1>10. VersionInv
  <2>1. \A t \in Tasks : task[t].at = "none"
    BY <1>1 DEF NoTask
  <2>2. Truthful(v) /\ v.id < nextId
    BY <1>1, <1>4 DEF Truthful
  <2>3. QED
    BY <1>5, <1>8, <2>1, <2>2 DEF VersionInv
<1>11. IndexInv
  <2>1. IndexTypes
    BY <1>0, <1>1 DEF IndexTypes, Names
  <2>2. OneOwner /\ Indexed
    BY <1>1 DEF OneOwner, Indexed
  <2>3. QED
    BY <2>1, <2>2 DEF IndexInv
<1>12. QED
  BY <1>2, <1>6, <1>7, <1>9, <1>10, <1>11 DEF HistoryInv, HistoryTypes

LEMMA HistorySteps ==
  HistoryInv /\ [HistoryNext]_allVars => HistoryInv'
<1> SUFFICES ASSUME HistoryInv, [HistoryNext]_allVars PROVE HistoryInv'
  OBVIOUS
<1>1. CASE UNCHANGED allVars
  <2>1. /\ UNCHANGED <<db, edge, op, raced>> /\ UNCHANGED <<versions, nextId, backups, task, count>>
    BY <1>1 DEF allVars
  <2>2. KeptTypes' /\ RecorderTypes'
    BY <2>1 DEF HistoryInv, HistoryTypes, KeptTypes, RecorderTypes
  <2>3. VersionInv'
    BY <2>1 DEF HistoryInv, VersionInv, Truthful
  <2>4. QED
    BY <2>1, <2>2, <2>3, QuietKept
<1>2. ASSUME NEW o \in Ops, NEW s \in Sites, NEW names \in SUBSET Names, EditSite(o, s, names)
      PROVE  HistoryInv'
  BY <1>2, EditSiteKept
<1>3. ASSUME NEW o \in Ops, NEW s \in Sites, NEW r,
             AddRule(o, s) \/ UpdateRule(o, s, r) \/ DeleteRule(o, s, r)
      PROVE  HistoryInv'
  BY <1>3, RuleKept
<1>4. ASSUME NEW o \in Ops, NEW s \in Sites, BackUp(o, s) PROVE HistoryInv'
  BY <1>4, BackUpKept
<1>5. ASSUME NEW o \in Ops, Touch(o) \/ Notify(o) \/ EndsEarly(o) \/ RestoreGoesOn(o)
      PROVE  HistoryInv'
  BY <1>5, TouchKept, NotifyKept, EarlyKept
<1>6. ASSUME NEW o \in Ops,
             \/ \E v \in versions : RollbackBegins(o, v)
             \/ RollbackLocks(o) \/ RollbackArchives(o) \/ RollbackDeletes(o)
             \/ RollbackCommits(o) \/ RollbackRecords(o)
      PROVE  HistoryInv'
  BY <1>6, RollbackBeginsKept, RollbackLocksKept, RollbackArchivesKept, RollbackDeletesKept,
     RollbackCommitsKept, RollbackRecordsKept
<1>7. ASSUME NEW o \in Ops,
             \/ \E b \in backups : RestoreBegins(o, b)
             \/ RestoreCommits(o) \/ RestoreRecords(o) \/ Aborts(o)
      PROVE  HistoryInv'
  BY <1>7, RestoreBeginsKept, RestoreCommitsKept, RestoreRecordsKept, AbortsKept
<1>8. ASSUME NEW t \in Tasks, RecordBegin(t) \/ RecordCommit(t) \/ RecordFails(t) PROVE HistoryInv'
  BY <1>8, RecordBeginKept, RecordCommitKept, RecordFailsKept
<1>9. CASE PruneExpired
  BY <1>9, PruneKept
<1>10. ASSUME NEW s \in Sites, SilentWrite(s) PROVE HistoryInv'
  BY <1>10, SilentWriteKept
<1>11. QED
  BY <1>1, <1>2, <1>3, <1>4, <1>5, <1>6, <1>7, <1>8, <1>9, <1>10, Zenon DEF HistoryNext

\* The types, and what the index, the restores and the rollbacks rely on: the
\* inductive invariant, for any number of sites, hosts and requests and any
\* bound on what they do.
THEOREM HistoryInductive == HistorySpec => []HistoryInv
BY HistoryBegins, HistorySteps, PTL DEF HistorySpec

\* notify_config_changed and update_from_site_config: a host that only ever had
\* one owner is served by it whatever edits, rollbacks and restores made of the
\* sites.
THEOREM HistoryServes == HistorySpec => []StableHostServed
<1>1. HistoryInv => StableHostServed
  BY IndexInvServes DEF HistoryInv
<1>2. QED
  BY <1>1, HistoryInductive, PTL

\* A request that commits, and does not begin or abort, does so by this step.
LEMMA CommitSteps ==
  ASSUME HistoryInv, HistoryNext, NEW o \in Ops
  PROVE  /\ At(o, "commit") /\ op'[o].at = "recordRollback" => RollbackCommits(o)
         /\ At(o, "restore") /\ op'[o].at = "touch" => RestoreCommits(o)
<1> DEFINE Other(q) == op' = op \/ \E r : Go(q, r) /\ op[q].at \notin {"commit", "restore"}
<1>0. op \in [Ops -> Requests]
  BY DEF HistoryInv, HistoryTypes, RequestTypes
<1>1. ASSUME NEW q \in Ops, Other(q)
      PROVE  op'[o] = op[o] \/ op[o].at \notin {"commit", "restore"}
  <2>1. CASE op' = op
    BY <2>1
  <2>2. CASE \E r : Go(q, r) /\ op[q].at \notin {"commit", "restore"}
    BY <1>0, <2>2 DEF Go
  <2>3. QED
    BY <1>1, <2>1, <2>2
<1>2. ASSUME NEW q \in Ops, RollbackCommits(q) \/ RestoreCommits(q) \/ Aborts(q), q # o
      PROVE  op'[o] = op[o]
  BY <1>0, <1>2 DEF RollbackCommits, RestoreCommits, Restored, Aborts, Go
<1>3. ASSUME Aborts(o) PROVE op'[o].at = "idle"
  BY <1>0, <1>3 DEF Aborts, Go, Idle
<1>4. ASSUME RollbackCommits(o) PROVE op[o].at = "commit"
  BY <1>4 DEF RollbackCommits, At
<1>5. ASSUME RestoreCommits(o) PROVE op[o].at = "restore"
  BY <1>5 DEF RestoreCommits, At
<1>6. ASSUME NEW q \in Ops, NEW s, NEW l, Edits(q, s, l) PROVE Other(q)
  BY <1>6 DEF Edits, Begins, At
<1>7. ASSUME NEW q \in Ops, NEW s \in Sites,
             \/ \E names \in SUBSET Names : EditSite(q, s, names)
             \/ AddRule(q, s)
             \/ \E r \in rules[s] : UpdateRule(q, s, r) \/ DeleteRule(q, s, r)
      PROVE  Other(q)
  <2>1. \E l : Edits(q, s, l)
    BY <1>7 DEF EditSite, AddRule, UpdateRule, DeleteRule
  <2>2. QED
    BY <1>6, <2>1
<1>8. ASSUME NEW q \in Ops, NEW s \in Sites, BackUp(q, s) PROVE Other(q)
  BY <1>8 DEF BackUp
<1>9. ASSUME NEW q \in Ops, Touch(q) \/ Notify(q) \/ EndsEarly(q) \/ RestoreGoesOn(q)
      PROVE  Other(q)
  BY <1>9 DEF Touch, Notify, EndsEarly, RestoreGoesOn, At, MoveTo
<1>10. ASSUME NEW q \in Ops, NEW v, RollbackBegins(q, v) PROVE Other(q)
  BY <1>10 DEF RollbackBegins, Begins, At
<1>11. ASSUME NEW q \in Ops, RollbackLocks(q) PROVE Other(q)
  BY <1>11 DEF RollbackLocks, At
<1>12. ASSUME NEW q \in Ops, RollbackArchives(q) PROVE Other(q)
  BY <1>12 DEF RollbackArchives, At
<1>13. ASSUME NEW q \in Ops, RollbackDeletes(q) \/ RollbackRecords(q) PROVE Other(q)
  BY <1>13 DEF RollbackDeletes, RollbackRecords, At, MoveTo
<1>14. ASSUME NEW q \in Ops, NEW b, RestoreBegins(q, b) PROVE Other(q)
  BY <1>14 DEF RestoreBegins, Begins, At
<1>15. ASSUME NEW q \in Ops, RestoreRecords(q) PROVE Other(q)
  BY <1>15 DEF RestoreRecords, At
<1>16. ASSUME NEW t \in Tasks, RecordBegin(t) \/ RecordCommit(t) \/ RecordFails(t) PROVE op' = op
  BY <1>16 DEF RecordBegin, RecordCommit, RecordFails
<1>17. ASSUME PruneExpired \/ \E s \in Sites : SilentWrite(s) PROVE op' = op
  BY <1>17 DEF PruneExpired, SilentWrite
<1> HIDE DEF Other
<1>18. \/ \E q \in Ops : Other(q) \/ RollbackCommits(q) \/ RestoreCommits(q) \/ Aborts(q)
       \/ op' = op
  BY <1>7, <1>8, <1>9, <1>10, <1>11, <1>12, <1>13, <1>14, <1>15, <1>16, <1>17, Zenon DEF HistoryNext
<1>19. \/ op'[o] = op[o] \/ op[o].at \notin {"commit", "restore"}
       \/ RollbackCommits(o) \/ RestoreCommits(o) \/ Aborts(o)
  BY <1>1, <1>2, <1>18
<1>20. QED
  BY <1>3, <1>4, <1>5, <1>19 DEF At

\* restore_backup: for any number of requests, what a restore removes is in its
\* pre-restore record.  (The rows that it deletes are those of its view; the
\* names are those of its view because the revision is.)
THEOREM RestoresLoseNothing == HistorySpec => RestoreLosesNothing
<1> DEFINE Keeps ==
      \A o \in Ops :
        At(o, "restore") /\ op'[o].at = "touch" =>
          LET s == op[o].site IN
          /\ rules[s] \ rules'[s] \subseteq op[o].before.rules
          /\ listed'[s] # listed[s] => op[o].before.names = listed[s]
<1>1. HistoryInv /\ [HistoryNext]_allVars => [Keeps]_allVars
  <2> SUFFICES ASSUME HistoryInv, HistoryNext, NEW o \in Ops, At(o, "restore"), op'[o].at = "touch"
               PROVE  /\ rules[op[o].site] \ rules'[op[o].site] \subseteq op[o].before.rules
                      /\ op[o].before.names = listed[op[o].site]
    BY DEF allVars
  <2>1. RestoreCommits(o)
    BY CommitSteps
  <2>2. op[o].site \in Sites /\ DbTypes
    BY DEF HistoryInv, HistoryTypes, RequestTypes, At
  <2>3. rules' = [rules EXCEPT ![op[o].site] = (@ \ op[o].before.rules) \cup op[o].snap.rules]
    BY <2>1 DEF RestoreCommits, Restores
  <2>4. rules[op[o].site] \ rules'[op[o].site] \subseteq op[o].before.rules
    BY <2>2, <2>3 DEF DbTypes
  <2>5. op[o].before.names = listed[op[o].site]
    BY <2>1 DEF RestoreCommits, HistoryInv, RestoreInv, Restoring, At
  <2>6. QED
    BY <2>4, <2>5
<1>2. QED
  BY <1>1, HistoryInductive, PTL DEF HistorySpec, RestoreLosesNothing

\* rollback: for any number of requests, a rollback of a site that is not
\* edited meanwhile archives what it replaces, or as much of it as the hash
\* shows, and leaves the rows of the version.
THEOREM RollbacksAreFaithful == HistorySpec => RollbackFaithful
<1> DEFINE Replaces ==
      \A o \in Ops :
        Committed(o) /\ op[o].site \notin raced =>
          /\ Same(Shown(op[o].before), Shown(Content(op[o].site)))
          /\ op[o].id # 0 => Same(op[o].before, Content(op[o].site))
          /\ rules'[op[o].site] = op[o].snap.rules
<1>1. HistoryInv /\ [HistoryNext]_allVars => [Replaces]_allVars
  <2> SUFFICES ASSUME HistoryInv, HistoryNext, NEW o \in Ops, Committed(o), op[o].site \notin raced
               PROVE  /\ Same(Shown(op[o].before), Shown(Content(op[o].site)))
                      /\ op[o].id # 0 => Same(op[o].before, Content(op[o].site))
                      /\ rules'[op[o].site] = op[o].snap.rules
    BY DEF allVars
  <2>1. RollbackCommits(o)
    BY CommitSteps DEF Committed
  <2>2. op[o].site \in Sites /\ DbTypes
    BY DEF HistoryInv, HistoryTypes, RequestTypes, Committed, At
  <2>3. /\ Same(Shown(op[o].before), Shown(Content(op[o].site)))
        /\ op[o].id # 0 => Same(op[o].before, Content(op[o].site))
        /\ op[o].del = rules[op[o].site]
    BY DEF HistoryInv, RollbackInv, Faithful, LockInv, Inside, Committed, At
  <2>4. rules' = [rules EXCEPT ![op[o].site] = (@ \ op[o].del) \cup op[o].snap.rules]
    BY <2>1 DEF RollbackCommits, Restores
  <2>5. rules'[op[o].site] = op[o].snap.rules
    BY <2>2, <2>3, <2>4 DEF DbTypes
  <2>6. QED
    BY <2>3, <2>5
<1>2. QED
  BY <1>1, HistoryInductive, PTL DEF HistorySpec, RollbackFaithful
-----------------------------------------------------------------------------
(* The history of a site whose operations do not overlap.  What was          *)
(* changed and is not yet in the history is on its way there: in a request   *)
(* that will spawn a recorder, or in a recorder, which will insert what the  *)
(* site is, and whose transaction stands unless another one was there first. *)

\* Request o, or one of its recorders, is busy with s.
Engaged(o, s) == op[o].site = s \/ \E t \in Tasks : t[1] = o /\ task[t].site = s

AloneInv == \A s \in Sites \ disturbed : \A p, q \in Ops : Engaged(p, s) /\ Engaged(q, s) => p = q

\* When a request's own recorders may be busy with its site.
SlotOk(o) ==
  op[o].site \in Sites \ disturbed =>
    \A t \in Tasks : t[1] = o /\ task[t].site = op[o].site =>
      op[o].at = IF t[2] = "own" THEN "touch" ELSE "record"
SlotInv ==
  /\ \A o \in Ops : SlotOk(o)
  /\ \A o \in Ops : op[o].at = "restore" => op[o].kind # "rollback"

\* The versions that count as the latest are of the site as it is.
Current(s) ==
  \A v \in Of(s) : (\A w \in Of(s) : w.id <= v.id) => Same(v.snap, Content(s))
Changed == {"notify", "touch", "recordRollback"}
Pending(s) ==
  \/ \E o \in Ops : op[o].site = s /\ op[o].at \in Changed
  \/ \E t \in Tasks : task[t].site = s
CurrentInv == \A s \in Sites \ (disturbed \cup missed) : Current(s) \/ Pending(s)

\* The hash, if there is one, is of what c shows.
Tells(hash, c) == hash = NoHash \/ Same(Shown(c), hash.content)
TellsInv == \A v \in versions : v.site \notin disturbed => Tells(v.hash, v.snap)

Recording(r) ==
  r.site \notin disturbed =>
    /\ r.at = "begin" => Tells(r.hash, Content(r.site))
    /\ r.at = "insert" => Tells(r.hash, r.snap)
    /\ r.at = "insert" /\ r.site \notin missed =>
         Same(r.snap, Content(r.site)) /\ (r.seen = Ids(Of(r.site)) \/ Current(r.site))
RecordingInv == \A t \in Tasks : Recording(task[t])

Archived == {"delete", "commit"}

\* A rollback's hash is of what it archives, whatever is written that no hash
\* shows.
Archiving(r) ==
  r.site \notin disturbed =>
    /\ r.at = "archive" => Tells(r.hash, Content(r.site))
    /\ r.at \in Archived /\ r.id # 0 => Tells(r.hash, r.before)
ArchivingInv == \A o \in Ops : Archiving(op[o])

\* Ids are not used twice, and what is pruned is the site's own.
Reserved(o) == op[o].at \in Archived /\ op[o].id # 0
Owned(ids, s) ==
  /\ ids \subseteq Nat /\ \A i \in ids : i < nextId
  /\ \A v \in versions : v.id \in ids => v.site = s
  /\ \A o \in Ops : Reserved(o) => op[o].id \notin ids
IdInv ==
  /\ \A v, w \in versions : v.id = w.id => v = w
  /\ \A o \in Ops : Reserved(o) => \A v \in versions : v.id # op[o].id
  /\ \A o, q \in Ops : Reserved(o) /\ Reserved(q) /\ op[o].id = op[q].id => o = q
  /\ \A t \in Tasks : task[t].at = "insert" => Owned(task[t].seen, task[t].site)
  /\ \A o \in Ops : op[o].at \in Archived => Owned(op[o].gone, op[o].site)

SerialInv ==
  /\ AloneInv /\ SlotInv /\ CurrentInv /\ TellsInv /\ RecordingInv /\ ArchivingInv /\ IdInv

LEMMA TaskTypes ==
  /\ \A t \in Tasks : t[1] \in Ops /\ t = <<t[1], t[2]>> /\ t[2] \in {"own", "detached"}
  /\ \A o \in Ops, k \in {"own", "detached"} :
       <<o, k>> \in Tasks /\ <<o, k>>[1] = o /\ <<o, k>>[2] = k
BY DEF Tasks

LEMMA BusyEngaged ==
  ASSUME NEW s PROVE Busy(s) <=> \E o \in Ops : Engaged(o, s)
BY TaskTypes DEF Busy, Engaged

LEMMA SerialCurrent ==
  ASSUME HistoryInv, SerialInv PROVE SerialHistoryCurrent
<1> SUFFICES ASSUME NEW s \in Sites \ (disturbed \cup missed), ~Busy(s), Of(s) # {}
             PROVE  Same(Latest(s).snap, Content(s))
  BY DEF SerialHistoryCurrent
<1>1. Current(s)
  <2>1. ~Pending(s)
    BY DEF Pending, Busy
  <2>2. QED
    BY <2>1 DEF SerialInv, CurrentInv
<1>2. Latest(s) \in Of(s) /\ \A w \in Of(s) : w.id <= Latest(s).id
  BY LatestOf DEF HistoryInv
<1>3. QED
  BY <1>1, <1>2 DEF Current

-----------------------------------------------------------------------------
(* What a step has to show *)

\* The site and its versions stay.
Calm(s) == Of(s)' = Of(s) /\ Unedited(s)

LEMMA CalmCurrent ==
  ASSUME NEW s, Calm(s), Current(s) PROVE Current(s)'
<1>1. PICK V : V = Of(s)
  OBVIOUS
<1>2. Of(s)' = V
  BY <1>1 DEF Calm
<1>3. PICK c : c = Content(s)
  OBVIOUS
<1>4. PICK d : d = Content(s)'
  OBVIOUS
<1>5. c.names = d.names /\ c.rules = d.rules
  BY <1>3, <1>4 DEF Calm, Unedited, Content
<1>6. \A v \in V : (\A w \in V : w.id <= v.id) => Same(v.snap, c)
  BY <1>1, <1>3 DEF Current
<1>7. \A v \in V : (\A w \in V : w.id <= v.id) => Same(v.snap, d)
  BY <1>5, <1>6 DEF Same
<1>8. QED
  BY <1>2, <1>4, <1>7 DEF Current

\* What a hash shows of the site stays.
ShownStays(s) == Same(Shown(Content(s)), Shown(Content(s))')

LEMMA UneditedShown ==
  ASSUME NEW s, Unedited(s) PROVE ShownStays(s)
BY DEF Unedited, ShownStays, Same, Shown, Hidden, Content

LEMMA TellsKept ==
  ASSUME NEW s, ShownStays(s), NEW h, Tells(h, Content(s))
  PROVE  Tells(h, Content(s)')
<1>1. PICK c : c = Shown(Content(s))
  OBVIOUS
<1>2. PICK d : d = Shown(Content(s))'
  OBVIOUS
<1>3. c.names = d.names /\ c.rules = d.rules
  BY <1>1, <1>2 DEF ShownStays, Same
<1>4. h = NoHash \/ Same(c, h.content)
  BY <1>1 DEF Tells
<1>5. h = NoHash \/ Same(d, h.content)
  BY <1>3, <1>4 DEF Same
<1>6. QED
  BY <1>2, <1>5 DEF Tells

LEMMA RecordingKept ==
  ASSUME NEW r, Recording(r), disturbed \subseteq disturbed',
         r.at = "insert" /\ r.site \in missed => r.site \in missed',
         r.site \notin disturbed' /\ r.at \in {"begin", "insert"} => Unedited(r.site),
         r.site \notin disturbed' \cup missed' /\ r.at = "insert" =>
           \/ Calm(r.site)
           \/ Current(r.site)'
  PROVE  Recording(r)'
<1> SUFFICES ASSUME r.site \notin disturbed', r.at \in {"begin", "insert"}
             PROVE  /\ r.at = "begin" => Tells(r.hash, Content(r.site)')
                    /\ r.at = "insert" => Tells(r.hash, r.snap)
                    /\ r.at = "insert" /\ r.site \notin missed' =>
                         /\ Same(r.snap, Content(r.site)')
                         /\ r.seen = Ids(Of(r.site)') \/ Current(r.site)'
  BY Zenon DEF Recording, Tells, Same, Ids
<1>0. r.site \notin disturbed /\ Unedited(r.site)
  OBVIOUS
<1>1. PICK c : c = Content(r.site)
  OBVIOUS
<1>2. PICK d : d = Content(r.site)'
  OBVIOUS
<1>3. c.names = d.names /\ c.rules = d.rules
  BY <1>0, <1>1, <1>2 DEF Unedited, Content
<1>4. /\ r.at = "begin" => Tells(r.hash, Content(r.site))
      /\ r.at = "insert" => Tells(r.hash, r.snap)
      /\ r.at = "insert" /\ r.site \notin missed =>
           Same(r.snap, c) /\ (r.seen = Ids(Of(r.site)) \/ Current(r.site))
  BY <1>0, <1>1 DEF Recording
<1>5. r.at = "begin" => Tells(r.hash, Content(r.site)')
  BY <1>0, <1>4, TellsKept, UneditedShown
<1>6. ASSUME r.at = "insert", r.site \notin missed'
      PROVE  Same(r.snap, d) /\ (r.seen = Ids(Of(r.site)') \/ Current(r.site)')
  <2>0. Same(r.snap, c) /\ (r.seen = Ids(Of(r.site)) \/ Current(r.site))
    BY <1>4, <1>6
  <2>1. Same(r.snap, d)
    BY <1>3, <2>0 DEF Same
  <2>2. CASE Calm(r.site)
    <3>1. Of(r.site)' = Of(r.site)
      BY <2>2 DEF Calm
    <3>2. QED
      BY <2>0, <2>1, <2>2, <3>1, CalmCurrent
  <2>3. CASE Current(r.site)'
    BY <2>1, <2>3
  <2>4. QED
    BY <1>6, <2>2, <2>3
<1>7. QED
  BY <1>2, <1>4, <1>5, <1>6

\* Rollbacks that stay, at sites of which the same is shown.
LEMMA ArchivingKept ==
  ASSUME SerialInv, disturbed \subseteq disturbed',
         \A q \in Ops :
           \/ /\ op'[q] = op[q]
              /\ op[q].at = "archive" /\ op[q].site \notin disturbed' => ShownStays(op[q].site)
           \/ Archiving(op[q])'
  PROVE  ArchivingInv'
<1> SUFFICES ASSUME NEW q \in Ops, op'[q] = op[q],
                    op[q].at = "archive" /\ op[q].site \notin disturbed' => ShownStays(op[q].site)
             PROVE  Archiving(op[q])'
  BY Zenon DEF ArchivingInv
<1>1. PICK r : r = op[q]
  OBVIOUS
<1>2. Archiving(r)
  BY <1>1 DEF SerialInv, ArchivingInv
<1>3. r.site \notin disturbed' /\ r.at = "archive" => Tells(r.hash, Content(r.site)')
  BY <1>1, <1>2, TellsKept DEF Archiving
<1>4. Archiving(r)'
  BY <1>2, <1>3 DEF Archiving
<1>5. op'[q] = r
  BY <1>1
<1>6. QED
  BY <1>4, <1>5 DEF Archiving

LEMMA AloneKept ==
  ASSUME AloneInv, disturbed \subseteq disturbed', NEW o,
         \A q \in Ops, s \in Sites \ disturbed' :
           Engaged(q, s)' => Engaged(q, s) \/ (q = o /\ ~Busy(s))
  PROVE  AloneInv'
<1> SUFFICES ASSUME NEW s \in Sites \ disturbed', NEW p \in Ops, NEW q \in Ops,
                    Engaged(p, s)', Engaged(q, s)', p # q
             PROVE  FALSE
  BY Zenon DEF AloneInv
<1>1. Engaged(p, s) \/ (p = o /\ ~Busy(s))
  BY Zenon
<1>2. Engaged(q, s) \/ (q = o /\ ~Busy(s))
  BY Zenon
<1>3. Engaged(p, s) => Busy(s)
  BY BusyEngaged, Zenon
<1>4. Engaged(q, s) => Busy(s)
  BY BusyEngaged, Zenon
<1>5. s \in Sites \ disturbed
  OBVIOUS
<1>6. QED
  BY <1>1, <1>2, <1>3, <1>4, <1>5, Zenon DEF AloneInv

\* Request q does nothing, except that a recorder of its may end.
Still(q) ==
  /\ op'[q] = op[q]
  /\ \A t \in Tasks : t[1] = q => task'[t].site \in {task[t].site, NoSite}

LEMMA StillSlot ==
  ASSUME NEW q \in Ops, SlotOk(q), Still(q), disturbed \subseteq disturbed' PROVE SlotOk(q)'
<1> SUFFICES ASSUME op'[q].site \in Sites \ disturbed', NEW t \in Tasks, t[1] = q,
                    task'[t].site = op'[q].site
             PROVE  op'[q].at = IF t[2] = "own" THEN "touch" ELSE "record"
  BY Zenon DEF SlotOk
<1>1. op'[q] = op[q] /\ op[q].site \in Sites \ disturbed
  BY DEF Still
<1>2. task[t].site = op[q].site
  BY <1>1, SiteAssumption DEF Still
<1>3. QED
  BY <1>1, <1>2 DEF SlotOk

LEMMA StillEngaged ==
  ASSUME NEW q \in Ops, Still(q), NEW s \in Sites, Engaged(q, s)' PROVE Engaged(q, s)
<1>1. CASE op'[q].site = s
  BY <1>1 DEF Still, Engaged
<1>2. CASE \E t \in Tasks : t[1] = q /\ task'[t].site = s
  BY <1>2, SiteAssumption DEF Still, Engaged
<1>3. QED
  BY <1>1, <1>2 DEF Engaged

LEMMA IdsKept ==
  ASSUME IdInv, KeptTypes, nextId' \in Nat, nextId <= nextId', versions' \subseteq versions,
         \A t \in Tasks : task'[t] = task[t] \/ task'[t].at # "insert",
         \A q \in Ops : op'[q].at \in Archived =>
           /\ op[q].at \in Archived /\ op'[q].id = op[q].id
           /\ op'[q].gone = op[q].gone /\ op'[q].site = op[q].site
  PROVE  IdInv'
<1>0. nextId \in Nat
  BY DEF KeptTypes
<1>1. \A q \in Ops : Reserved(q)' => Reserved(q) /\ op'[q].id = op[q].id
  BY DEF Reserved
<1>2. ASSUME NEW ids, NEW s, Owned(ids, s) PROVE Owned(ids, s)'
  <2>1. ids \subseteq Nat /\ \A i \in ids : i < nextId'
    BY <1>0, <1>2 DEF Owned
  <2>2. \A v \in versions' : v.id \in ids => v.site = s
    BY <1>2 DEF Owned
  <2>3. \A o \in Ops : Reserved(o)' => op'[o].id \notin ids
    BY <1>1, <1>2 DEF Owned
  <2>4. QED
    BY <2>1, <2>2, <2>3 DEF Owned
<1>3. \A v, w \in versions' : v.id = w.id => v = w
  BY DEF IdInv
<1>4. \A o \in Ops : Reserved(o)' => \A v \in versions' : v.id # op'[o].id
  BY <1>1 DEF IdInv
<1>5. \A o, q \in Ops : Reserved(o)' /\ Reserved(q)' /\ op'[o].id = op'[q].id => o = q
  BY <1>1 DEF IdInv
<1>6. ASSUME NEW t \in Tasks, task'[t].at = "insert" PROVE Owned(task[t].seen, task[t].site)'
  <2>1. PICK ids : ids = task[t].seen
    OBVIOUS
  <2>2. PICK s : s = task[t].site
    OBVIOUS
  <2>3. Owned(ids, s)
    BY <1>6, <2>1, <2>2 DEF IdInv
  <2>4. Owned(ids, s)'
    BY <1>2, <2>3
  <2>5. task'[t].seen = ids /\ task'[t].site = s
    BY <1>6, <2>1, <2>2
  <2>6. QED
    BY <2>4, <2>5 DEF Owned
<1>7. ASSUME NEW o \in Ops, op'[o].at \in Archived PROVE Owned(op[o].gone, op[o].site)'
  <2>1. PICK ids : ids = op[o].gone
    OBVIOUS
  <2>2. PICK s : s = op[o].site
    OBVIOUS
  <2>3. Owned(ids, s)
    BY <1>7, <2>1, <2>2 DEF IdInv
  <2>4. Owned(ids, s)'
    BY <1>2, <2>3
  <2>5. op'[o].gone = ids /\ op'[o].site = s
    BY <1>7, <2>1, <2>2
  <2>6. QED
    BY <2>4, <2>5 DEF Owned
<1>8. QED
  BY <1>3, <1>4, <1>5, <1>6, <1>7, Zenon DEF IdInv

LEMMA SerialKept ==
  ASSUME SerialInv, disturbed \subseteq disturbed', NEW o,
         \A q \in Ops \ {o} : Still(q),
         o \in Ops => /\ \A s \in Sites \ disturbed' : Engaged(o, s)' => Engaged(o, s) \/ ~Busy(s)
                      /\ SlotOk(o)' /\ (op'[o].at = "restore" => op'[o].kind # "rollback"),
         CurrentInv', RecordingInv', ArchivingInv', IdInv',
         \A v \in versions' : v \in versions \/ v.site \in disturbed' \/ Tells(v.hash, v.snap)
  PROVE  SerialInv'
<1>0. AloneInv /\ SlotInv /\ TellsInv
  BY DEF SerialInv
<1>1. AloneInv'
  <2>1. ASSUME NEW q \in Ops, NEW s \in Sites \ disturbed', Engaged(q, s)'
        PROVE  Engaged(q, s) \/ (q = o /\ ~Busy(s))
    <3>1. CASE q = o
      BY <2>1, <3>1
    <3>2. CASE q # o
      BY <2>1, <3>2, StillEngaged
    <3>3. QED
      BY <3>1, <3>2
  <2>2. QED
    BY <1>0, <2>1, AloneKept
<1>2. SlotInv'
  <2>1. ASSUME NEW q \in Ops
        PROVE  SlotOk(q)' /\ (op'[q].at = "restore" => op'[q].kind # "rollback")
    <3>1. CASE q = o
      BY <3>1
    <3>2. CASE q # o
      <4>1. Still(q) /\ op'[q] = op[q]
        BY <3>2 DEF Still
      <4>2. SlotOk(q)'
        BY <1>0, <4>1, StillSlot DEF SlotInv
      <4>3. QED
        BY <1>0, <4>1, <4>2 DEF SlotInv
    <3>3. QED
      BY <3>1, <3>2
  <2>2. QED
    BY <2>1, Zenon DEF SlotInv
<1>3. TellsInv'
  <2> SUFFICES ASSUME NEW v \in versions', v.site \notin disturbed' PROVE Tells(v.hash, v.snap)
    BY Zenon DEF TellsInv, Tells, Same
  <2>1. QED
    BY <1>0 DEF TellsInv
<1>4. QED
  BY <1>1, <1>2, <1>3 DEF SerialInv

\* A site that two requests are not busy with has no recorder while its request
\* is not where one may run.
LEMMA NoRecorder ==
  ASSUME SerialInv, NEW o \in Ops, op[o].site \in Sites \ disturbed,
         op[o].at \notin {"touch", "record"}, NEW t \in Tasks, task[t].site = op[o].site
  PROVE  FALSE
<1>1. t[1] \in Ops
  BY TaskTypes
<1>2. Engaged(t[1], op[o].site) /\ Engaged(o, op[o].site)
  BY <1>1 DEF Engaged
<1>3. t[1] = o
  BY <1>1, <1>2 DEF SerialInv, AloneInv
<1>4. QED
  BY <1>3 DEF SerialInv, SlotInv, SlotOk

\* Sites whose rows and versions stay, and of which nothing ends, stay current.
LEMMA CurrentKept ==
  ASSUME SerialInv, disturbed \subseteq disturbed', \A s \in missed \ missed' : Pending(s)',
         \A s \in Sites \ (disturbed' \cup missed') :
           (Calm(s) /\ (Pending(s) => Pending(s)')) \/ Current(s)' \/ Pending(s)'
  PROVE  CurrentInv'
<1> SUFFICES ASSUME NEW s \in Sites \ (disturbed' \cup missed') PROVE Current(s)' \/ Pending(s)'
  BY Zenon DEF CurrentInv
<1>1. s \in missed => Pending(s)'
  BY Zenon
<1>2. s \notin missed => Current(s) \/ Pending(s)
  BY DEF SerialInv, CurrentInv
<1>3. CASE Calm(s) /\ (Pending(s) => Pending(s)')
  BY <1>1, <1>2, <1>3, CalmCurrent
<1>4. QED
  BY <1>3

\* Recorders that go on, at sites that stay.
LEMMA RecordersKept ==
  ASSUME SerialInv, disturbed \subseteq disturbed',
         \A t \in Tasks :
           \/ /\ task'[t] = task[t]
              /\ Calm(task[t].site) \/ task[t].site \in disturbed' \/ task[t].at = "none"
              /\ task[t].at = "insert" /\ task[t].site \in missed => task[t].site \in missed'
           \/ Recording(task[t])'
  PROVE  RecordingInv'
<1> SUFFICES ASSUME NEW t \in Tasks, task'[t] = task[t],
                    Calm(task[t].site) \/ task[t].site \in disturbed' \/ task[t].at = "none",
                    task[t].at = "insert" /\ task[t].site \in missed => task[t].site \in missed'
             PROVE  Recording(task[t])'
  BY Zenon DEF RecordingInv
<1>1. PICK r : r = task[t]
  OBVIOUS
<1>2. Recording(r)
  BY <1>1 DEF SerialInv, RecordingInv
<1>3. Recording(r)'
  <2>1. r.site \notin disturbed' /\ r.at \in {"begin", "insert"} => Calm(r.site) /\ Unedited(r.site)
    BY <1>1 DEF Calm
  <2>2. r.at = "insert" /\ r.site \in missed => r.site \in missed'
    BY <1>1
  <2>3. QED
    BY <1>2, <2>1, <2>2, RecordingKept
<1>4. task'[t] = r
  BY <1>1
<1>5. QED
  BY <1>3, <1>4 DEF Recording
-----------------------------------------------------------------------------
(* A request moves *)

LEMMA MoveSerial ==
  ASSUME HistoryInv, SerialInv, disturbed \subseteq disturbed', missed \subseteq missed',
         UNCHANGED <<versions, nextId, task>>, NEW o \in Ops, NEW r, Go(o, r),
         r.site \in Sites \ disturbed' => r.site = op[o].site \/ ~Busy(r.site),
         \A t \in Tasks : r.site \in Sites \ disturbed' /\ t[1] = o /\ task[t].site = r.site =>
           r.at = IF t[2] = "own" THEN "touch" ELSE "record",
         r.at = "restore" => r.kind # "rollback",
         r.at \in Archived => /\ op[o].at \in Archived /\ r.id = op[o].id
                              /\ r.gone = op[o].gone /\ r.site = op[o].site,
         Archiving(r)',
         op[o].at \in Changed => (r.site = op[o].site /\ r.at \in Changed) \/ op[o].site \in missed',
         \A s \in Sites \ disturbed' :
           \/ Unedited(s)
           \/ s = r.site /\ r.at \in Changed /\ \A t \in Tasks : task[t].site # s
  PROVE  SerialInv'
<1>0. KeptTypes /\ RequestTypes /\ RecorderTypes
  BY DEF HistoryInv, HistoryTypes
<1>1. op'[o] = r /\ \A q \in Ops \ {o} : op'[q] = op[q]
  BY <1>0 DEF Go, RequestTypes
<1>2. \A q \in Ops \ {o} : Still(q)
  BY <1>1 DEF Still
<1>3. ASSUME NEW s \in Sites \ disturbed', Engaged(o, s)' PROVE Engaged(o, s) \/ ~Busy(s)
  BY <1>1, <1>3 DEF Engaged
<1>4. SlotOk(o)'
  BY <1>1 DEF SlotOk
<1>5. ASSUME NEW s \in Sites \ (disturbed' \cup missed'), Pending(s) PROVE Pending(s)'
  <2>1. CASE \E t \in Tasks : task[t].site = s
    BY <2>1 DEF Pending
  <2>2. CASE \E q \in Ops : op[q].site = s /\ op[q].at \in Changed
    <3>1. \E q \in Ops : op'[q].site = s /\ op'[q].at \in Changed
      BY <1>1, <2>2
    <3>2. QED
      BY <3>1 DEF Pending
  <2>3. QED
    BY <1>5, <2>1, <2>2 DEF Pending
<1>6. \A s \in Sites : Unedited(s) => Calm(s)
  BY DEF Calm, Of
<1>7. CurrentInv'
  <2>1. ASSUME NEW s \in Sites \ (disturbed' \cup missed')
        PROVE  (Calm(s) /\ (Pending(s) => Pending(s)')) \/ Pending(s)'
    <3>1. CASE Unedited(s)
      BY <1>5, <1>6, <3>1
    <3>2. CASE s = r.site /\ r.at \in Changed
      BY <1>1, <3>2 DEF Pending
    <3>3. QED
      BY <3>1, <3>2
  <2>2. QED
    BY <2>1, CurrentKept
<1>8. RecordingInv'
  <2>1. ASSUME NEW t \in Tasks
        PROVE  Calm(task[t].site) \/ task[t].site \in disturbed' \/ task[t].at = "none"
    BY <1>0, <1>6 DEF RecorderTypes
  <2>2. QED
    BY <2>1, RecordersKept
<1>9. IdInv'
  <2>1. nextId' \in Nat /\ nextId <= nextId' /\ IdInv
    BY <1>0 DEF KeptTypes, SerialInv
  <2>2. \A q \in Ops : op'[q].at \in Archived =>
           /\ op[q].at \in Archived /\ op'[q].id = op[q].id
           /\ op'[q].gone = op[q].gone /\ op'[q].site = op[q].site
    BY <1>1
  <2>3. QED
    BY <1>0, <2>1, <2>2, IdsKept
<1>10. ArchivingInv'
  <2>1. ASSUME NEW q \in Ops \ {o}, op[q].at = "archive", op[q].site \notin disturbed'
        PROVE  ShownStays(op[q].site)
    <3>1. PICK s \in Sites \ disturbed' : s = op[q].site
      BY <1>0, <2>1 DEF RequestTypes
    <3>2. Engaged(q, s) /\ Busy(s)
      BY <3>1, BusyEngaged DEF Engaged
    <3>3. ASSUME s = r.site PROVE FALSE
      <4>1. Engaged(o, s)
        BY <3>2, <3>3 DEF Engaged
      <4>2. QED
        BY <3>2, <4>1 DEF SerialInv, AloneInv
    <3>4. Unedited(s)
      BY <3>3
    <3>5. QED
      BY <3>1, <3>4, UneditedShown
  <2>2. Archiving(op[o])'
    BY <1>1 DEF Archiving
  <2>3. QED
    BY <1>1, <2>1, <2>2, ArchivingKept
<1>11. QED
  BY <1>1, <1>2, <1>3, <1>4, <1>7, <1>8, <1>9, <1>10, SerialKept

\* Nothing changes that matters here.
LEMMA SameSerial ==
  ASSUME SerialInv, HistoryInv, UNCHANGED <<db, versions, nextId, op, task, missed, disturbed>>
  PROVE  SerialInv'
<1>0. KeptTypes /\ RequestTypes /\ RecorderTypes
  BY DEF HistoryInv, HistoryTypes
<1>1. \A s \in Sites : Calm(s) /\ (Pending(s) => Pending(s)')
  BY DEF Calm, Of, Unedited, db, Pending
<1>2. \A q \in Ops : Still(q)
  BY DEF Still
<1>3. CurrentInv'
  BY <1>1, CurrentKept
<1>4. RecordingInv'
  <2>1. \A t \in Tasks : Calm(task[t].site) \/ task[t].at = "none"
    BY <1>0, <1>1 DEF RecorderTypes
  <2>2. QED
    BY <2>1, RecordersKept
<1>5. IdInv'
  <2>1. nextId' \in Nat /\ nextId <= nextId' /\ IdInv
    BY <1>0 DEF KeptTypes, SerialInv
  <2>2. QED
    BY <1>0, <2>1, IdsKept
<1>6. \A q \in Ops : SlotOk(q)' /\ (op'[q].at = "restore" => op'[q].kind # "rollback")
  BY DEF SerialInv, SlotInv, SlotOk
<1>7. \A q \in Ops : \A s : Engaged(q, s)' => Engaged(q, s)
  BY DEF Engaged
<1>8. ArchivingInv'
  <2>1. \A s : Unedited(s)
    BY DEF Unedited, db
  <2>2. QED
    BY <2>1, ArchivingKept, UneditedShown
<1>9. QED
  BY <1>2, <1>3, <1>4, <1>5, <1>6, <1>7, <1>8, SerialKept

LEMMA EditSerial ==
  ASSUME HistoryInv, SerialInv, NEW o \in Ops, NEW s \in Sites, NEW l \in {"notify", "touch"},
         Edits(o, s, l), \A q \in Sites \ {s} : Unedited(q)
  PROVE  SerialInv'
<1>0. RequestTypes /\ op[o].at = "idle"
  BY DEF HistoryInv, HistoryTypes, Edits, Begins, At
<1>1. PICK r : r = [Idle EXCEPT !.at = l, !.site = s]
  OBVIOUS
<1>2. r.at = l /\ r.site = s /\ Go(o, r)
  BY <1>1 DEF Edits, Idle
<1>3. disturbed \subseteq disturbed' /\ (s \in disturbed' \/ ~Busy(s))
  BY DEF Edits, Begins
<1>4. Archiving(r)' /\ missed \subseteq missed'
  BY <1>2 DEF Archiving, Archived, Edits
<1>5. s \in disturbed' \/ \A t \in Tasks : task[t].site # s
  BY <1>3 DEF Busy
<1>6. UNCHANGED <<versions, nextId, task>>
  BY DEF Edits
<1>7. r.at \notin Archived /\ r.at # "restore" /\ r.at \in Changed /\ op[o].at \notin Changed
  BY <1>0, <1>2 DEF Archived, Changed
<1>8. QED
  BY <1>2, <1>3, <1>4, <1>5, <1>6, <1>7, MoveSerial

LEMMA EditsSerial ==
  ASSUME HistoryInv, SerialInv, NEW o \in Ops, NEW s \in Sites,
         \/ \E names \in SUBSET Names : EditSite(o, s, names)
         \/ AddRule(o, s) \/ \E r \in rules[s] : UpdateRule(o, s, r) \/ DeleteRule(o, s, r)
  PROVE  SerialInv'
<1>0. DbTypes
  BY DEF HistoryInv, HistoryTypes
<1>1. Edits(o, s, "notify") \/ Edits(o, s, "touch")
  BY DEF EditSite, AddRule, UpdateRule, DeleteRule
<1>2. \A q \in Sites \ {s} : Unedited(q)
  <2>1. CASE \E names \in SUBSET Names : EditSite(o, s, names)
    BY <1>0, <2>1 DEF EditSite, Edit, DbTypes, Unedited
  <2>2. CASE AddRule(o, s) \/ \E r \in rules[s] : UpdateRule(o, s, r) \/ DeleteRule(o, s, r)
    BY <1>0, <2>2 DEF AddRule, UpdateRule, DeleteRule, DbTypes, Unedited
  <2>3. QED
    BY <2>1, <2>2
<1>3. QED
  BY <1>1, <1>2, EditSerial

LEMMA TouchSerial ==
  ASSUME HistoryInv, SerialInv, NEW o \in Ops, Touch(o) PROVE SerialInv'
<1>0. RequestTypes /\ op[o].at = "touch" /\ op[o].site \in Sites
  BY DEF HistoryInv, HistoryTypes, RequestTypes, Touch, At
<1>1. PICK r : r = [op[o] EXCEPT !.at = "notify"]
  OBVIOUS
<1>2. r.at = "notify" /\ r.site = op[o].site /\ Go(o, r)
  BY <1>0, <1>1 DEF Touch, MoveTo, RequestTypes, Requests
<1>3. UNCHANGED <<versions, nextId, task, missed, disturbed>> /\ \A s : Unedited(s)
  BY DEF Touch, Unedited
<1>4. ASSUME NEW t \in Tasks, t[1] = o, task[t].site = op[o].site, op[o].site \notin disturbed PROVE FALSE
  <2>1. op[o].at = IF t[2] = "own" THEN "touch" ELSE "record"
    BY <1>0, <1>4 DEF SerialInv, SlotInv, SlotOk
  <2>2. t = <<o, "own">>
    BY <1>0, <1>4, <2>1, TaskTypes
  <2>3. task[t].site = NoSite
    BY <2>2 DEF Touch, NoTask
  <2>4. QED
    BY <1>0, <1>4, <2>3, SiteAssumption
<1>5. r.at \notin Archived /\ r.at # "restore" /\ r.at \in Changed /\ Archiving(r)'
  BY <1>2 DEF Archived, Changed, Archiving
<1>6. QED
  BY <1>2, <1>3, <1>4, <1>5, MoveSerial

\* A request that begins, and changes nothing yet.
LEMMA BeginsSerial ==
  ASSUME HistoryInv, SerialInv, NEW o \in Ops, NEW s \in Sites, NEW kind, Begins(o, s, kind),
         UNCHANGED <<db, versions, nextId, task, missed>>, NEW r, Go(o, r), r.site = s,
         r.at \in {"lock", "restore"}, r.at = "restore" => r.kind # "rollback"
  PROVE  SerialInv'
<1>1. op[o].at = "idle" /\ disturbed \subseteq disturbed' /\ (s \in disturbed' \/ ~Busy(s))
  BY DEF Begins, At
<1>2. s \in disturbed' \/ \A t \in Tasks : task[t].site # s
  BY <1>1 DEF Busy
<1>3. \A q \in Sites : Unedited(q)
  BY DEF db, Unedited
<1>4. r.at \notin Archived /\ op[o].at \notin Changed /\ Archiving(r)'
  BY <1>1 DEF Archived, Changed, Archiving
<1>5. QED
  BY <1>1, <1>2, <1>3, <1>4, MoveSerial

LEMMA RollbackBeginsSerial ==
  ASSUME HistoryInv, SerialInv, NEW o \in Ops, NEW v \in versions, RollbackBegins(o, v)
  PROVE  SerialInv'
<1>1. v.site \in Sites
  BY DEF HistoryInv, HistoryTypes, KeptTypes, Versions
<1>2. PICK r : r = [Idle EXCEPT !.at = "lock", !.kind = "rollback", !.site = v.site, !.snap = v.snap]
  OBVIOUS
<1>3. r.at = "lock" /\ r.site = v.site
  BY <1>2 DEF Idle
<1>4. /\ Go(o, r) /\ Begins(o, v.site, "rollback") /\ UNCHANGED <<db, versions, nextId, task, missed>>
  BY <1>2 DEF RollbackBegins
<1>5. QED
  BY <1>1, <1>3, <1>4, BeginsSerial

LEMMA RestoreBeginsSerial ==
  ASSUME HistoryInv, SerialInv, NEW o \in Ops, NEW b \in backups, RestoreBegins(o, b)
  PROVE  SerialInv'
<1>1. b.site \in Sites
  BY DEF HistoryInv, HistoryTypes, KeptTypes, Backups
<1>2. PICK r : r = [Idle EXCEPT !.at = "restore", !.kind = "restore", !.site = b.site,
                      !.snap = b.snap, !.before = Content(b.site), !.seen = rev[b.site]]
  OBVIOUS
<1>3. r.at = "restore" /\ r.site = b.site /\ r.kind = "restore"
  BY <1>2 DEF Idle
<1>4. /\ Go(o, r) /\ Begins(o, b.site, "restore") /\ UNCHANGED <<db, versions, nextId, task, missed>>
  BY <1>2 DEF RestoreBegins
<1>5. QED
  BY <1>1, <1>3, <1>4, BeginsSerial

\* A rollback that goes on with the same ids, or a request that gives up.
LEMMA StaysSerial ==
  ASSUME HistoryInv, SerialInv, NEW o \in Ops,
         UNCHANGED <<db, versions, nextId, task, missed, disturbed>>, NEW r, Go(o, r), Archiving(r)',
         op[o].at \in {"lock", "archive", "delete", "commit", "restore"},
         \/ r = Idle
         \/ /\ r.site = op[o].site /\ r.at \in Inside
            /\ r.at \in Archived => op[o].at \in Archived /\ r.id = op[o].id /\ r.gone = op[o].gone
  PROVE  SerialInv'
<1>1. r = Idle => r.at = "idle" /\ r.site \notin Sites
  BY SiteAssumption DEF Idle
<1>2. \A q \in Sites : Unedited(q)
  BY DEF db, Unedited
<1>3. ASSUME NEW t \in Tasks, r.site \in Sites \ disturbed', task[t].site = r.site PROVE FALSE
  BY <1>1, <1>3, NoRecorder
<1>4. op[o].at \notin Changed /\ (r.at \in Archived => r.at \in Inside) /\ r.at # "restore"
  BY <1>1 DEF Changed, Archived, Inside
<1>5. "idle" \notin Archived
  BY DEF Archived
<1>6. QED
  BY <1>1, <1>2, <1>3, <1>4, <1>5, MoveSerial

LEMMA RollbackStaysSerial ==
  ASSUME HistoryInv, SerialInv, NEW o \in Ops, RollbackLocks(o) \/ RollbackDeletes(o) \/ Aborts(o)
  PROVE  SerialInv'
<1>0. op[o] \in Requests /\ (op[o].at # "idle" => op[o].site \in Sites) /\ DbTypes
  BY DEF HistoryInv, HistoryTypes, RequestTypes
<1>1. UNCHANGED <<db, versions, nextId, task, missed, disturbed>>
  BY DEF RollbackLocks, RollbackDeletes, Aborts
<1>2. CASE RollbackLocks(o)
  <2>1. PICK r : r = [op[o] EXCEPT !.at = "archive", !.hash = ConfigHashAfter(op[o].site)]
    OBVIOUS
  <2>2. r.site = op[o].site /\ r.at = "archive" /\ r.hash = ConfigHashAfter(r.site)
    BY <1>0, <2>1 DEF Requests
  <2>3. Go(o, r) /\ op[o].at = "lock"
    BY <1>2, <2>1 DEF RollbackLocks, At
  <2>4. Tells(r.hash, Content(r.site)) /\ Unedited(r.site)
    BY <1>0, <1>1, <2>2, <2>3, ContentType DEF Tells, Same, Unedited, db
  <2>5. Tells(r.hash, Content(r.site)')
    BY <2>4, TellsKept, UneditedShown
  <2>6. Archiving(r)'
    BY <2>2, <2>5 DEF Archiving, Archived
  <2>7. QED
    BY <1>1, <2>2, <2>3, <2>6, StaysSerial DEF Inside, Archived
<1>3. CASE RollbackDeletes(o)
  <2>1. PICK r : r = [op[o] EXCEPT !.at = "commit", !.del = rules[op[o].site]]
    OBVIOUS
  <2>2. /\ r.site = op[o].site /\ r.at = "commit" /\ r.id = op[o].id /\ r.gone = op[o].gone
        /\ r.hash = op[o].hash /\ r.before = op[o].before
    BY <1>0, <2>1 DEF Requests
  <2>3. Go(o, r) /\ op[o].at = "delete"
    BY <1>3, <2>1 DEF RollbackDeletes, At
  <2>4. Archiving(op[o])
    BY DEF SerialInv, ArchivingInv
  <2>5. Archiving(r)'
    BY <1>1, <2>2, <2>3, <2>4 DEF Archiving, Archived
  <2>6. QED
    BY <1>1, <2>2, <2>3, <2>5, StaysSerial DEF Inside, Archived
<1>4. CASE Aborts(o)
  <2>1. Archiving(Idle)'
    BY DEF Archiving, Archived, Idle
  <2>2. QED
    BY <1>1, <1>4, <2>1, StaysSerial DEF Aborts
<1>5. QED
  BY <1>2, <1>3, <1>4

LEMMA RestoreCommitsSerial ==
  ASSUME HistoryInv, SerialInv, NEW o \in Ops, RestoreCommits(o) PROVE SerialInv'
<1>0. RequestTypes /\ DbTypes
  BY DEF HistoryInv, HistoryTypes
<1>1. PICK s \in Sites : s = op[o].site
  BY <1>0 DEF RequestTypes, RestoreCommits, At
<1>2. op[o].at = "restore" /\ op[o].kind # "rollback"
  BY DEF RestoreCommits, At, SerialInv, SlotInv
<1>3. PICK r : r = [Idle EXCEPT !.at = "touch", !.kind = "restore", !.site = s]
  OBVIOUS
<1>4. r.at = "touch" /\ r.site = s /\ Go(o, r)
  BY <1>1, <1>3 DEF RestoreCommits, Restored, Idle
<1>5. UNCHANGED <<versions, nextId, task, disturbed>>
  BY DEF RestoreCommits, Restored
<1>6. \A q \in Sites \ {s} : Unedited(q)
  BY <1>0, <1>1 DEF RestoreCommits, Restores, DbTypes, Unedited
<1>7. s \in disturbed \/ \A t \in Tasks : task[t].site # s
  BY <1>1, <1>2, NoRecorder
<1>8. Archiving(r)' /\ missed \subseteq missed'
  BY <1>4 DEF Archiving, Archived, RestoreCommits, Restored
<1>9. r.at \in Changed /\ r.at \notin Archived /\ r.at # "restore" /\ op[o].at \notin Changed
  BY <1>2, <1>4 DEF Changed, Archived
<1>10. QED
  BY <1>1, <1>4, <1>5, <1>6, <1>7, <1>8, <1>9, MoveSerial

-----------------------------------------------------------------------------
(* A recorder is spawned *)

LEMMA SpawnSerial ==
  ASSUME HistoryInv, SerialInv, NEW o \in Ops, NEW slot \in {"own", "detached"}, NEW hash,
         Spawn(o, slot, hash), op[o].site \in Sites, UNCHANGED listed,
         Tells(hash, Content(op[o].site)), NEW r, Go(o, r),
         \/ r = Idle
         \/ /\ r.site = op[o].site /\ r.at = IF slot = "own" THEN "touch" ELSE "record"
            /\ op[o].at \notin {"touch", "record"}
  PROVE  SerialInv'
<1>0. KeptTypes /\ RequestTypes /\ RecorderTypes
  BY DEF HistoryInv, HistoryTypes
<1>1. PICK s \in Sites : s = op[o].site
  OBVIOUS
<1>2. PICK k \in Tasks : k = <<o, slot>>
  BY TaskTypes
<1>3. k[1] = o /\ k[2] = slot
  BY <1>2
<1>4. PICK x : x = [NoTask EXCEPT !.at = "begin", !.site = s, !.hash = hash]
  OBVIOUS
<1>5. x.at = "begin" /\ x.site = s /\ x.hash = hash
  BY <1>4 DEF NoTask
<1>6. task[k] = NoTask /\ task' = [task EXCEPT ![k] = x]
  BY <1>1, <1>2, <1>4 DEF Spawn
<1>7. task'[k] = x /\ \A t \in Tasks \ {k} : task'[t] = task[t]
  BY <1>0, <1>6 DEF RecorderTypes
<1>8. op'[o] = r /\ \A q \in Ops \ {o} : op'[q] = op[q]
  BY <1>0 DEF Go, RequestTypes
<1>9. /\ UNCHANGED <<versions, nextId, missed, disturbed>>
      /\ \A q \in Sites : Unedited(q) /\ Calm(q)
  BY DEF Spawn, Unedited, Calm, Of
<1>10. \A q \in Ops \ {o} : Still(q)
  BY <1>3, <1>7, <1>8 DEF Still
<1>11. r.at \notin Archived /\ r.at # "restore" /\ (r.site = s \/ r.site \notin Sites)
  BY <1>1, SiteAssumption DEF Idle, Archived
<1>12. ASSUME NEW q \in Sites, Engaged(o, q)' PROVE Engaged(o, q)
  <2>1. CASE op'[o].site = q
    BY <1>1, <1>8, <1>11, <2>1 DEF Engaged
  <2>2. CASE \E t \in Tasks : t[1] = o /\ task'[t].site = q
    BY <1>1, <1>5, <1>7, <2>2 DEF Engaged
  <2>3. QED
    BY <1>12, <2>1, <2>2 DEF Engaged
<1>13. SlotOk(o)'
  <2> SUFFICES ASSUME r.site \in Sites \ disturbed, NEW t \in Tasks, t[1] = o, task'[t].site = r.site
               PROVE  r.at = IF t[2] = "own" THEN "touch" ELSE "record"
    BY <1>8, <1>9 DEF SlotOk
  <2>1. CASE t = k
    BY <1>3, <1>11, <2>1, SiteAssumption DEF Idle
  <2>2. CASE t # k
    <3>1. task[t].site = s /\ s \notin disturbed /\ op[o].at \notin {"touch", "record"}
      BY <1>7, <1>11, <2>2, SiteAssumption DEF Idle
    <3>2. QED
      BY <1>1, <3>1, NoRecorder
  <2>3. QED
    BY <2>1, <2>2
<1>14. CurrentInv'
  <2>1. ASSUME NEW q \in Sites \ disturbed', Pending(q) PROVE Pending(q)'
    <3>1. CASE q = s
      BY <1>5, <1>7, <3>1 DEF Pending
    <3>2. CASE q # s
      <4>1. CASE \E p \in Ops : op[p].site = q /\ op[p].at \in Changed
        BY <1>1, <1>8, <3>2, <4>1 DEF Pending
      <4>2. CASE \E t \in Tasks : task[t].site = q
        <5>1. task[k].site \notin Sites
          BY <1>6, SiteAssumption DEF NoTask
        <5>2. QED
          BY <1>7, <4>2, <5>1 DEF Pending
      <4>3. QED
        BY <2>1, <4>1, <4>2 DEF Pending
    <3>3. QED
      BY <3>1, <3>2
  <2>2. QED
    BY <1>9, <2>1, CurrentKept
<1>15. RecordingInv'
  <2>1. Recording(x)'
    <3>1. Tells(hash, Content(s)')
      BY <1>1, <1>9, TellsKept, UneditedShown
    <3>2. QED
      BY <1>5, <3>1 DEF Recording
  <2>2. ASSUME NEW t \in Tasks
        PROVE  \/ task'[t] = task[t] /\ (Calm(task[t].site) \/ task[t].at = "none")
               \/ Recording(task[t])'
    <3>1. CASE t = k
      BY <1>7, <2>1, <3>1 DEF Recording
    <3>2. CASE t # k
      BY <1>0, <1>7, <1>9, <3>2 DEF RecorderTypes
    <3>3. QED
      BY <3>1, <3>2
  <2>3. QED
    BY <1>9, <2>2, RecordersKept
<1>16. IdInv'
  <2>1. nextId' \in Nat /\ nextId <= nextId' /\ IdInv
    BY <1>0, <1>9 DEF KeptTypes, SerialInv
  <2>2. \A t \in Tasks : task'[t] = task[t] \/ task'[t].at # "insert"
    BY <1>5, <1>7
  <2>3. \A q \in Ops : op'[q].at \in Archived => op'[q] = op[q]
    BY <1>8, <1>11
  <2>4. QED
    BY <1>0, <1>9, <2>1, <2>2, <2>3, IdsKept
<1>17. ArchivingInv'
  <2>1. ASSUME NEW q \in Ops \ {o}, op[q].at = "archive" PROVE ShownStays(op[q].site)
    BY <1>0, <1>9, <2>1, UneditedShown DEF RequestTypes
  <2>2. Archiving(op[o])'
    <3>1. r.at # "archive"
      BY DEF Idle
    <3>2. QED
      BY <1>8, <1>11, <3>1 DEF Archiving
  <2>3. QED
    BY <1>8, <1>9, <2>1, <2>2, ArchivingKept
<1>18. QED
  BY <1>8, <1>9, <1>10, <1>11, <1>12, <1>13, <1>14, <1>15, <1>16, <1>17, SerialKept

LEMMA NotifySerial ==
  ASSUME HistoryInv, SerialInv, NEW o \in Ops, Notify(o) PROVE SerialInv'
<1>0. op[o] \in Requests /\ op[o].at = "notify" /\ op[o].site \in Sites /\ DbTypes
  BY DEF HistoryInv, HistoryTypes, RequestTypes, Notify, At
<1>1. PICK h : h = ConfigHash(op[o].site)
  OBVIOUS
<1>2. Tells(h, Content(op[o].site))
  BY <1>0, <1>1, ContentType DEF Tells, Same
<1>3. PICK r : r = IF op[o].kind = "restore" THEN [op[o] EXCEPT !.at = "record"] ELSE Idle
  OBVIOUS
<1>4. r = Idle \/ (r.site = op[o].site /\ r.at = "record")
  BY <1>0, <1>3 DEF Requests
<1>5. Spawn(o, "detached", h) /\ Go(o, r) /\ UNCHANGED listed
  BY <1>1, <1>3 DEF Notify, UpdateFromSiteConfig
<1>6. QED
  BY <1>0, <1>2, <1>4, <1>5, SpawnSerial

LEMMA RollbackRecordsSerial ==
  ASSUME HistoryInv, SerialInv, NEW o \in Ops, RollbackRecords(o) PROVE SerialInv'
<1>0. /\ op[o] \in Requests /\ op[o].at = "recordRollback" /\ op[o].site \in Sites
      /\ DbTypes
  BY DEF HistoryInv, HistoryTypes, RequestTypes, RollbackRecords, At
<1>1. PICK h : h = ConfigHashAfter(op[o].site)
  OBVIOUS
<1>2. Tells(h, Content(op[o].site))
  <2>1. h = NoHash \/ h.content = Shown(Content(op[o].site))
    BY <1>0, <1>1, ContentType
  <2>2. QED
    BY <2>1 DEF Tells, Same
<1>3. PICK r : r = [op[o] EXCEPT !.at = "touch"]
  OBVIOUS
<1>4. r.site = op[o].site /\ r.at = "touch"
  BY <1>0, <1>3 DEF Requests
<1>5. Spawn(o, "own", h) /\ Go(o, r) /\ UNCHANGED listed
  BY <1>1, <1>3 DEF RollbackRecords, MoveTo
<1>6. QED
  BY <1>0, <1>2, <1>4, <1>5, SpawnSerial

LEMMA RestoreRecordsSerial ==
  ASSUME HistoryInv, SerialInv, NEW o \in Ops, RestoreRecords(o) PROVE SerialInv'
<1>1. op[o].site \in Sites
  BY DEF HistoryInv, HistoryTypes, RequestTypes, RestoreRecords, At
<1>2. Go(o, Idle) /\ Spawn(o, "own", NoHash) /\ UNCHANGED listed
  BY DEF RestoreRecords
<1>3. Tells(NoHash, Content(op[o].site))
  BY DEF Tells
<1>4. QED
  BY <1>1, <1>2, <1>3, SpawnSerial

-----------------------------------------------------------------------------
(* A recorder looks, inserts, or fails *)

\* The recorder that finds its hash at the latest version has nothing to add.
LEMMA KnownCurrent ==
  ASSUME HistoryInv, SerialInv, NEW s \in Sites \ disturbed, NEW h, IsLatest(s, h),
         Tells(h, Content(s)), Hidden(Latest(s).snap) = Hidden(Content(s))
  PROVE  Current(s)
<1>0. HistoryTypes /\ VersionInv /\ KeptTypes /\ DbTypes
  BY DEF HistoryInv, HistoryTypes
<1>1. PICK v : v = Latest(s)
  OBVIOUS
<1>2. Of(s) # {} /\ v.hash = h /\ h # NoHash
  BY <1>1 DEF IsLatest
<1>3. v \in Of(s) /\ \A w \in Of(s) : w.id <= v.id
  BY <1>0, <1>1, <1>2, LatestOf
<1>4. Same(v.snap, Content(s))
  <2>1. v \in versions /\ v.site = s
    BY <1>3 DEF Of
  <2>2. Tells(v.hash, v.snap)
    BY <2>1 DEF SerialInv, TellsInv
  <2>3. v.snap \in Kept /\ Content(s) \in Kept
    BY <1>0, <2>1, ContentType DEF KeptTypes, Versions
  <2>4. Same(Shown(v.snap), Shown(Content(s)))
    BY <1>2, <2>2 DEF Tells, Same
  <2>5. QED
    BY <1>1, <2>3, <2>4, HiddenSame
<1>5. ASSUME NEW u \in Of(s), \A w \in Of(s) : w.id <= u.id PROVE u = v
  <2>1. u \in versions /\ v \in versions /\ u.id \in Nat /\ v.id \in Nat
    BY <1>0, <1>3 DEF Of, KeptTypes, Versions
  <2>2. u.id <= v.id /\ v.id <= u.id
    BY <1>3, <1>5
  <2>3. u.id = v.id
    BY <2>1, <2>2
  <2>4. QED
    BY <2>1, <2>3 DEF SerialInv, IdInv
<1>6. QED
  BY <1>4, <1>5 DEF Current

\* The versions of a site are its own.
LEMMA OwnIds ==
  ASSUME KeptTypes, VersionInv, IdInv, NEW s PROVE Owned(Ids(Of(s)), s)
<1>1. PICK S : S = Ids(Of(s))
  OBVIOUS
<1>2. S \subseteq Nat /\ \A i \in S : i < nextId
  BY <1>1 DEF Ids, Of, KeptTypes, Versions, VersionInv
<1>3. \A v \in versions : v.id \in S => v.site = s
  BY <1>1 DEF Ids, Of, IdInv
<1>4. \A o \in Ops : Reserved(o) => op[o].id \notin S
  BY <1>1 DEF Ids, Of, IdInv
<1>5. QED
  BY <1>1, <1>2, <1>3, <1>4 DEF Owned

LEMMA RecordBeginSerial ==
  ASSUME HistoryInv, SerialInv, NEW t \in Tasks, RecordBegin(t) PROVE SerialInv'
<1>0. DbTypes /\ KeptTypes /\ RequestTypes /\ RecorderTypes /\ VersionInv /\ IdInv
  BY DEF HistoryInv, HistoryTypes, SerialInv
<1>1. PICK x \in Recorders : x = task[t]
  BY <1>0 DEF RecorderTypes
<1>2. PICK s \in Sites : s = x.site
  BY <1>0, <1>1 DEF RecorderTypes, RecordBegin
<1>3. PICK c : c = Content(s)
  OBVIOUS
<1>4. PICK S : S = Ids(Of(s))
  OBVIOUS
<1>5. PICK y : y = [x EXCEPT !.at = "insert", !.snap = c, !.seen = S]
  OBVIOUS
<1>6. y.at = "insert" /\ y.site = s /\ y.hash = x.hash /\ y.snap = c /\ y.seen = S
  BY <1>2, <1>5 DEF Recorders
<1>7. task' = [task EXCEPT ![t] = IF IsLatest(s, x.hash) THEN NoTask ELSE y]
  BY <1>1, <1>2, <1>3, <1>4, <1>5 DEF RecordBegin
<1>8. /\ task'[t] = IF IsLatest(s, x.hash) THEN NoTask ELSE y
      /\ \A u \in Tasks \ {t} : task'[u] = task[u]
  BY <1>0, <1>7 DEF RecorderTypes
<1>9. /\ UNCHANGED <<versions, nextId, op, disturbed>>
      /\ \A q \in Sites : Unedited(q) /\ Calm(q)
      /\ Content(s)' = Content(s) /\ Of(s)' = Of(s)
  BY DEF RecordBegin, Unedited, Calm, Of, db, Content
<1>10. s \notin disturbed => Tells(x.hash, Content(s))
  BY <1>1, <1>2 DEF SerialInv, RecordingInv, Recording, RecordBegin
<1>11. /\ \A q \in missed \ missed' : q = s /\ ~IsLatest(s, x.hash) /\ Inserting(s) = {}
       /\ s \notin missed' /\ IsLatest(s, x.hash) => Hidden(Latest(s).snap) = Hidden(Content(s))
  BY <1>1, <1>2 DEF RecordBegin
<1>12. NoTask.site = NoSite /\ NoTask.at = "none"
  BY DEF NoTask
<1>13. \A q \in Ops : Still(q)
  BY <1>1, <1>2, <1>6, <1>8, <1>9, <1>12 DEF Still
<1>14. CurrentInv'
  <2>1. ASSUME NEW q \in Sites \ (disturbed' \cup missed')
        PROVE  (Calm(q) /\ (Pending(q) => Pending(q)')) \/ Current(q)'
    <3>1. CASE IsLatest(s, x.hash) /\ q = s
      <4>1. Current(s)
        BY <1>9, <1>10, <1>11, <3>1, KnownCurrent
      <4>2. QED
        BY <1>9, <3>1, <4>1, CalmCurrent
    <3>2. CASE ~(IsLatest(s, x.hash) /\ q = s)
      <4>1. ASSUME NEW u \in Tasks, task[u].site = q PROVE task'[u].site = q
        BY <1>1, <1>2, <1>6, <1>8, <3>2, <4>1
      <4>2. QED
        BY <1>9, <4>1 DEF Pending
    <3>3. QED
      BY <3>1, <3>2
  <2>2. \A q \in missed \ missed' : Pending(q)'
    BY <1>6, <1>8, <1>11 DEF Pending
  <2>3. QED
    BY <1>9, <2>1, <2>2, CurrentKept
<1>15. RecordingInv'
  <2>1. Recording(NoTask)'
    BY <1>12 DEF Recording
  <2>2. Recording(y)'
    <3>1. s \notin disturbed => Tells(x.hash, c)
      BY <1>3, <1>10
    <3>2. Same(c, Content(s)') /\ S = Ids(Of(s)')
      BY <1>3, <1>4, <1>9 DEF Same
    <3>3. QED
      BY <1>6, <1>9, <3>1, <3>2 DEF Recording, Ids, Same, Tells
  <2>3. ASSUME NEW u \in Tasks
        PROVE  \/ /\ task'[u] = task[u] /\ (Calm(task[u].site) \/ task[u].at = "none")
                  /\ task[u].at = "insert" /\ task[u].site \in missed => task[u].site \in missed'
               \/ Recording(task[u])'
    <3>1. CASE u = t
      BY <1>8, <2>1, <2>2, <3>1 DEF Recording
    <3>2. CASE u # t
      <4>1. task[u].at = "insert" /\ task[u].site \in missed => task[u].site \in missed'
        BY <1>11 DEF Inserting
      <4>2. QED
        BY <1>0, <1>8, <1>9, <3>2, <4>1 DEF RecorderTypes
    <3>3. QED
      BY <3>1, <3>2
  <2>4. QED
    BY <1>9, <2>3, RecordersKept
<1>16. IdInv'
  <2>1. Owned(S, s)
    BY <1>0, <1>4, OwnIds
  <2>2. \A ids, q : Owned(ids, q)' <=> Owned(ids, q)
    BY <1>9 DEF Owned, Reserved
  <2>3. ASSUME NEW u \in Tasks, task'[u].at = "insert" PROVE Owned(task'[u].seen, task'[u].site)
    <3>1. CASE u = t
      BY <1>6, <1>8, <1>12, <2>1, <2>3, <3>1
    <3>2. CASE u # t
      BY <1>0, <1>8, <2>3, <3>2 DEF IdInv
    <3>3. QED
      BY <3>1, <3>2
  <2>4. ASSUME NEW u \in Tasks, task'[u].at = "insert" PROVE Owned(task[u].seen, task[u].site)'
    <3>1. PICK ids : ids = task'[u].seen
      OBVIOUS
    <3>2. PICK q : q = task'[u].site
      OBVIOUS
    <3>3. Owned(ids, q)'
      BY <2>2, <2>3, <2>4, <3>1, <3>2
    <3>4. QED
      BY <3>1, <3>2, <3>3 DEF Owned
  <2>5. ASSUME NEW o \in Ops, op'[o].at \in Archived PROVE Owned(op[o].gone, op[o].site)'
    <3>1. PICK ids : ids = op[o].gone
      OBVIOUS
    <3>2. PICK q : q = op[o].site
      OBVIOUS
    <3>3. Owned(ids, q)
      BY <1>0, <1>9, <2>5, <3>1, <3>2 DEF IdInv
    <3>4. Owned(ids, q)' /\ op'[o] = op[o]
      BY <1>9, <2>2, <3>3
    <3>5. QED
      BY <3>1, <3>2, <3>4 DEF Owned
  <2>6. /\ \A v, w \in versions' : v.id = w.id => v = w
        /\ \A o \in Ops : Reserved(o)' => \A v \in versions' : v.id # op'[o].id
        /\ \A o, q \in Ops : Reserved(o)' /\ Reserved(q)' /\ op'[o].id = op'[q].id => o = q
    BY <1>0, <1>9 DEF IdInv, Reserved
  <2>7. QED
    BY <2>4, <2>5, <2>6, Zenon DEF IdInv
<1>17. QED
  <2>1. \A q \in Ops : /\ \A p \in Sites : Engaged(q, p)' => Engaged(q, p)
                       /\ SlotOk(q)' /\ (op'[q].at = "restore" => op'[q].kind # "rollback")
    BY <1>9, <1>13, StillEngaged, StillSlot DEF SerialInv, SlotInv
  <2>2. ArchivingInv'
    <3>1. \A q \in Ops : op[q].at = "archive" => ShownStays(op[q].site)
      BY <1>0, <1>9, UneditedShown DEF RequestTypes
    <3>2. QED
      BY <1>9, <3>1, ArchivingKept
  <2>3. QED
    BY <1>9, <1>13, <1>14, <1>15, <1>16, <2>1, <2>2, SerialKept

LEMMA IdsStep ==
  ASSUME IdInv, \A ids, s : Owned(ids, s) => Owned(ids, s)',
         \A v, w \in versions' : v.id = w.id => v = w,
         \A o \in Ops : Reserved(o)' => \A v \in versions' : v.id # op'[o].id,
         \A o, q \in Ops : Reserved(o)' /\ Reserved(q)' /\ op'[o].id = op'[q].id => o = q,
         \A t \in Tasks : task'[t] = task[t] \/ task'[t].at # "insert",
         \A o \in Ops : op'[o].at \in Archived =>
           \/ op'[o] = op[o]
           \/ Owned(op'[o].gone, op'[o].site)
  PROVE  IdInv'
<1>1. ASSUME NEW u \in Tasks, task'[u].at = "insert" PROVE Owned(task[u].seen, task[u].site)'
  <2>1. PICK ids : ids = task[u].seen
    OBVIOUS
  <2>2. PICK q : q = task[u].site
    OBVIOUS
  <2>3. Owned(ids, q)
    BY <1>1, <2>1, <2>2 DEF IdInv
  <2>4. Owned(ids, q)' /\ task'[u] = task[u]
    BY <1>1, <2>3
  <2>5. QED
    BY <2>1, <2>2, <2>4 DEF Owned
<1>2. ASSUME NEW o \in Ops, op'[o].at \in Archived PROVE Owned(op[o].gone, op[o].site)'
  <2>1. PICK ids : ids = op'[o].gone
    OBVIOUS
  <2>2. PICK q : q = op'[o].site
    OBVIOUS
  <2>3. Owned(ids, q)
    BY <1>2, <2>1, <2>2 DEF IdInv
  <2>4. Owned(ids, q)'
    BY <2>3
  <2>5. QED
    BY <2>1, <2>2, <2>4 DEF Owned
<1>3. QED
  BY <1>1, <1>2, Zenon DEF IdInv

\* prune_scope keeps the newest version, whichever it sees.
LEMMA NewestKept ==
  ASSUME NEW ids, NEW n, \A i \in ids : i <= n, ids \subseteq Nat, n \in Nat
  PROVE  n \notin Pruned(ids)
<1>1. {j \in ids : j > n} = {}
  <2>1. ASSUME NEW j \in ids PROVE ~(j > n)
    <3>1. j \in Nat /\ n \in Nat /\ j <= n
      OBVIOUS
    <3>2. QED
      BY ONLY <3>1
  <2>2. QED
    BY <2>1
<1>2. Cardinality({j \in ids : j > n}) = 0
  BY <1>1, FS_EmptySet
<1>3. Keep \in Nat \ {0}
  BY HistoryAssumption
<1>4. QED
  BY <1>2, <1>3 DEF Pruned

LEMMA PrunedOwn ==
  ASSUME KeptTypes, NEW ids, NEW s, Owned(ids, s)
  PROVE  /\ Pruned(ids \cup {nextId}) \subseteq ids
         /\ Owned(Pruned(ids \cup {nextId}), s)
<1>1. nextId \in Nat /\ ids \subseteq Nat /\ \A i \in ids : i < nextId
  BY DEF KeptTypes, Owned
<1>2. nextId \notin Pruned(ids \cup {nextId})
  <2>1. \A i \in ids \cup {nextId} : i <= nextId
    BY <1>1
  <2>2. ids \cup {nextId} \subseteq Nat
    BY <1>1
  <2>3. QED
    BY <1>1, <2>1, <2>2, NewestKept
<1>3. Pruned(ids \cup {nextId}) \subseteq ids
  BY <1>2 DEF Pruned
<1>4. QED
  BY <1>3 DEF Owned

LEMMA RecordCommitSerial ==
  ASSUME HistoryInv, SerialInv, NEW t \in Tasks, RecordCommit(t) PROVE SerialInv'
<1>0. KeptTypes /\ RequestTypes /\ RecorderTypes /\ VersionInv /\ IdInv /\ nextId \in Nat
  BY DEF HistoryInv, HistoryTypes, SerialInv, KeptTypes
<1>1. PICK x \in Recorders : x = task[t]
  BY <1>0 DEF RecorderTypes
<1>2. PICK s \in Sites : s = x.site
  BY <1>0, <1>1 DEF RecorderTypes, RecordCommit
<1>3. x.at = "insert"
  BY <1>1 DEF RecordCommit
<1>4. PICK G : G = Pruned(x.seen \cup {nextId})
  OBVIOUS
<1>5. Owned(x.seen, s) /\ G \subseteq x.seen /\ Owned(G, s)
  <2>1. Owned(x.seen, s)
    BY <1>0, <1>1, <1>2, <1>3 DEF IdInv
  <2>2. QED
    BY <1>0, <1>4, <2>1, PrunedOwn
<1>6. PICK n : n = [id |-> nextId, site |-> s, hash |-> x.hash, snap |-> x.snap]
  OBVIOUS
<1>7. n.id = nextId /\ n.site = s /\ n.hash = x.hash /\ n.snap = x.snap
  BY <1>6
<1>8. \/ versions' = {v \in versions : v.id \notin G} \cup {n}
      \/ versions' = versions /\ ~(G \subseteq Ids(versions))
  BY <1>1, <1>2, <1>4, <1>6 DEF RecordCommit
<1>9. task' = [task EXCEPT ![t] = NoTask] /\ NoTask.site = NoSite /\ NoTask.at = "none"
  BY DEF RecordCommit, NoTask
<1>10. task'[t] = NoTask /\ \A u \in Tasks \ {t} : task'[u] = task[u]
  BY <1>0, <1>9 DEF RecorderTypes
<1>11. /\ UNCHANGED <<op, missed, disturbed>> /\ nextId' = nextId + 1
       /\ (\A q \in Sites : Unedited(q)) /\ Content(s)' = Content(s)
  BY DEF RecordCommit, Unedited, db, Content
<1>12. ASSUME NEW q \in Sites \ {s} PROVE Calm(q)
  <2>1. Of(q)' = Of(q)
    <3>1. \A v \in versions : v.site = q => v.id \notin G
      BY <1>5 DEF Owned
    <3>2. {v \in versions' : v.site = q} = {v \in versions : v.site = q}
      BY <1>7, <1>8, <3>1
    <3>3. QED
      BY <3>2 DEF Of
  <2>2. QED
    BY <1>11, <2>1 DEF Calm
<1>13. /\ s \notin disturbed => Tells(x.hash, x.snap)
       /\ s \notin disturbed \cup missed =>
            Same(x.snap, Content(s)) /\ (x.seen = Ids(Of(s)) \/ Current(s))
  BY <1>1, <1>2, <1>3 DEF SerialInv, RecordingInv, Recording
<1>14. ASSUME s \notin disturbed \cup missed PROVE Current(s)'
  <2>1. CASE versions' = versions /\ ~(G \subseteq Ids(versions))
    <3>1. Ids(Of(s)) \subseteq Ids(versions)
      BY DEF Ids, Of
    <3>2. Current(s)
      BY <1>5, <1>13, <1>14, <2>1, <3>1
    <3>3. Calm(s)
      BY <1>11, <2>1 DEF Calm, Of
    <3>4. QED
      BY <3>2, <3>3, CalmCurrent
  <2>2. CASE versions' = {v \in versions : v.id \notin G} \cup {n}
    <3>1. PICK V : V = Of(s)'
      OBVIOUS
    <3>2. n \in V /\ \A v \in V : v = n \/ v \in versions
      BY <1>7, <2>2, <3>1 DEF Of
    <3>3. ASSUME NEW v \in V, \A w \in V : w.id <= v.id PROVE v = n
      <4>1. nextId <= v.id
        BY <1>7, <3>2, <3>3
      <4>2. ASSUME v \in versions PROVE FALSE
        <5>1. v.id \in Nat /\ v.id < nextId
          BY <1>0, <4>2 DEF KeptTypes, Versions, VersionInv
        <5>2. QED
          BY <1>0, <4>1, <5>1
      <4>3. QED
        BY <3>2, <4>2
    <3>4. Same(n.snap, Content(s)')
      BY <1>7, <1>11, <1>13, <1>14
    <3>5. QED
      BY <3>1, <3>3, <3>4 DEF Current
  <2>3. QED
    BY <1>8, <2>1, <2>2
<1>15. CurrentInv'
  <2>1. ASSUME NEW q \in Sites \ (disturbed' \cup missed')
        PROVE  (Calm(q) /\ (Pending(q) => Pending(q)')) \/ Current(q)'
    <3>1. CASE q = s
      BY <1>11, <1>14, <3>1
    <3>2. CASE q # s
      <4>1. ASSUME NEW u \in Tasks, task[u].site = q PROVE task'[u].site = q
        BY <1>1, <1>2, <1>10, <3>2, <4>1
      <4>2. QED
        BY <1>11, <1>12, <3>2, <4>1 DEF Pending
    <3>3. QED
      BY <3>1, <3>2
  <2>2. QED
    BY <1>11, <2>1, CurrentKept
<1>16. RecordingInv'
  <2>1. ASSUME NEW u \in Tasks
        PROVE  \/ /\ task'[u] = task[u]
                  /\ Calm(task[u].site) \/ task[u].site \in disturbed' \/ task[u].at = "none"
               \/ Recording(task[u])'
    <3>1. CASE u = t
      BY <1>9, <1>10, <3>1 DEF Recording
    <3>2. CASE u # t /\ task[u].site # s
      BY <1>0, <1>10, <1>12, <3>2 DEF RecorderTypes
    <3>3. CASE u # t /\ task[u].site = s
      <4>1. CASE s \in disturbed
        BY <1>10, <1>11, <3>3, <4>1
      <4>2. CASE s \notin disturbed
        <5>1. PICK r : r = task[u]
          OBVIOUS
        <5>2. Recording(r) /\ r.site = s
          BY <3>3, <5>1 DEF SerialInv, RecordingInv
        <5>3. Recording(r)'
          BY <1>11, <1>14, <4>2, <5>2, RecordingKept
        <5>4. QED
          BY <1>10, <3>3, <5>1, <5>3 DEF Recording
      <4>3. QED
        BY <4>1, <4>2
    <3>4. QED
      BY <3>1, <3>2, <3>3
  <2>2. QED
    BY <1>11, <2>1, RecordersKept
<1>17. \A v \in versions' : v = n \/ v \in versions
  BY <1>8
<1>18. IdInv'
  <2>1. \A v \in versions : v.id \in Nat /\ v.id < nextId
    BY <1>0 DEF KeptTypes, Versions, VersionInv
  <2>2. \A o \in Ops : Reserved(o)' => Reserved(o) /\ op'[o].id = op[o].id /\ op[o].id < nextId
    BY <1>0, <1>11 DEF Reserved, VersionInv, Archived
  <2>3. ASSUME NEW ids, NEW q, Owned(ids, q) PROVE Owned(ids, q)'
    <3>1. ids \subseteq Nat /\ \A i \in ids : i < nextId
      BY <2>3 DEF Owned
    <3>2. \A i \in ids : i < nextId'
      BY <1>0, <1>11, <3>1
    <3>3. nextId \notin ids
      BY <1>0, <3>1
    <3>4. \A v \in versions' : v.id \in ids => v.site = q
      BY <1>7, <1>17, <2>3, <3>3 DEF Owned
    <3>5. \A o \in Ops : Reserved(o)' => op'[o].id \notin ids
      BY <2>2, <2>3 DEF Owned
    <3>6. QED
      BY <3>1, <3>2, <3>4, <3>5 DEF Owned
  <2>4. \A v, w \in versions' : v.id = w.id => v = w
    <3>1. \A v, w \in versions : v.id = w.id => v = w
      BY <1>0 DEF IdInv
    <3>2. \A v \in versions : v.id # n.id
      BY <1>0, <1>7, <2>1
    <3>3. QED
      BY <1>17, <3>1, <3>2
  <2>5. ASSUME NEW o \in Ops, Reserved(o)', NEW v \in versions' PROVE v.id # op'[o].id
    <3>1. CASE v \in versions
      BY <1>0, <2>2, <2>5, <3>1 DEF IdInv
    <3>2. CASE v = n
      <4>1. op[o].id < nextId /\ op'[o].id = op[o].id /\ op[o].id \in Nat
        BY <1>0, <2>2, <2>5 DEF RequestTypes, Requests
      <4>2. QED
        BY <1>0, <1>7, <3>2, <4>1
    <3>3. QED
      BY <1>17, <3>1, <3>2
  <2>6. \A o, q \in Ops : Reserved(o)' /\ Reserved(q)' /\ op'[o].id = op'[q].id => o = q
    BY <1>0, <2>2 DEF IdInv
  <2>7. \A u \in Tasks : task'[u] = task[u] \/ task'[u].at # "insert"
    BY <1>9, <1>10
  <2>8. QED
    BY <1>0, <1>11, <2>3, <2>4, <2>5, <2>6, <2>7, IdsStep
<1>19. \A q \in Ops : Still(q)
  BY <1>9, <1>10, <1>11 DEF Still
<1>20. \A v \in versions' : v \in versions \/ v.site \in disturbed' \/ Tells(v.hash, v.snap)
  BY <1>7, <1>11, <1>13, <1>17
<1>21. \A q \in Ops : /\ \A p \in Sites : Engaged(q, p)' => Engaged(q, p)
                      /\ SlotOk(q)' /\ (op'[q].at = "restore" => op'[q].kind # "rollback")
  BY <1>11, <1>19, StillEngaged, StillSlot DEF SerialInv, SlotInv
<1>22. ArchivingInv'
  <2>1. \A q \in Ops : op[q].at = "archive" => ShownStays(op[q].site)
    BY <1>0, <1>11, UneditedShown DEF RequestTypes
  <2>2. QED
    BY <1>11, <2>1, ArchivingKept
<1>23. QED
  BY <1>11, <1>15, <1>16, <1>18, <1>19, <1>20, <1>21, <1>22, SerialKept

LEMMA RecordFailsSerial ==
  ASSUME HistoryInv, SerialInv, NEW t \in Tasks, RecordFails(t) PROVE SerialInv'
<1>0. KeptTypes /\ RequestTypes /\ RecorderTypes /\ IdInv /\ nextId \in Nat
  BY DEF HistoryInv, HistoryTypes, SerialInv, KeptTypes
<1>1. PICK s : s = task[t].site
  OBVIOUS
<1>2. task' = [task EXCEPT ![t] = NoTask] /\ NoTask.site = NoSite /\ NoTask.at = "none"
  BY DEF RecordFails, NoTask
<1>3. task'[t] = NoTask /\ \A u \in Tasks \ {t} : task'[u] = task[u]
  BY <1>0, <1>2 DEF RecorderTypes
<1>4. /\ UNCHANGED <<versions, nextId, op, missed>> /\ disturbed' = disturbed \cup {s}
      /\ \A q \in Sites : Calm(q) /\ Unedited(q)
  BY <1>1 DEF RecordFails, Unedited, Calm, Of, db
<1>5. CurrentInv'
  <2>1. ASSUME NEW q \in Sites \ disturbed' PROVE Calm(q) /\ (Pending(q) => Pending(q)')
    <3>1. ASSUME NEW u \in Tasks, task[u].site = q PROVE task'[u].site = q
      BY <1>1, <1>3, <1>4, <3>1
    <3>2. QED
      BY <1>4, <3>1 DEF Pending
  <2>2. QED
    BY <1>4, <2>1, CurrentKept
<1>6. RecordingInv'
  <2>1. ASSUME NEW u \in Tasks
        PROVE  \/ task'[u] = task[u] /\ (Calm(task[u].site) \/ task[u].at = "none")
               \/ Recording(task[u])'
    <3>1. CASE u = t
      BY <1>2, <1>3, <3>1 DEF Recording
    <3>2. CASE u # t
      BY <1>0, <1>3, <1>4, <3>2 DEF RecorderTypes
    <3>3. QED
      BY <3>1, <3>2
  <2>2. QED
    BY <1>4, <2>1, RecordersKept
<1>7. IdInv'
  <2>1. \A u \in Tasks : task'[u] = task[u] \/ task'[u].at # "insert"
    BY <1>2, <1>3
  <2>2. QED
    BY <1>0, <1>4, <2>1, IdsKept
<1>8. \A q \in Ops : Still(q)
  BY <1>2, <1>3, <1>4 DEF Still
<1>9. \A q \in Ops : /\ \A p \in Sites : Engaged(q, p)' => Engaged(q, p)
                     /\ SlotOk(q)' /\ (op'[q].at = "restore" => op'[q].kind # "rollback")
  BY <1>4, <1>8, StillEngaged, StillSlot DEF SerialInv, SlotInv
<1>10. ArchivingInv'
  <2>1. \A q \in Ops : op[q].at = "archive" => ShownStays(op[q].site)
    BY <1>0, <1>4, UneditedShown DEF RequestTypes
  <2>2. QED
    BY <1>4, <2>1, ArchivingKept
<1>11. QED
  BY <1>4, <1>5, <1>6, <1>7, <1>8, <1>9, <1>10, SerialKept

\* prune_expired leaves a site its latest version, or none.
LEMMA PruneSerial ==
  ASSUME HistoryInv, SerialInv, PruneExpired PROVE SerialInv'
<1>0. HistoryTypes /\ KeptTypes /\ RequestTypes /\ RecorderTypes /\ VersionInv /\ IdInv /\ nextId \in Nat
  BY DEF HistoryInv, HistoryTypes, SerialInv, KeptTypes
<1>1. PICK oldest \in Ids(versions) :
        /\ versions' = {v \in versions : v.id > oldest /\ v.id \notin Pruned(Ids(Of(v.site)))}
        /\ disturbed' = disturbed \cup {task[t].site : t \in {u \in Tasks : task[u].at = "insert"}}
        /\ UNCHANGED <<db, edge, nextId, backups, op, task, missed>>
  BY DEF PruneExpired
<1>2. oldest \in Nat /\ \A v \in versions : v.id \in Nat
  BY <1>0 DEF KeptTypes, Versions, Ids
<1>3. /\ versions' \subseteq versions /\ disturbed \subseteq disturbed'
      /\ \A s \in Sites : Unedited(s) /\ Content(s)' = Content(s)
  BY <1>1 DEF Unedited, db, Content
<1>4. ASSUME NEW s \in Sites, Current(s) PROVE Current(s)'
  <2>1. PICK V : V = Of(s)
    OBVIOUS
  <2>2. PICK W : W = Of(s)'
    OBVIOUS
  <2>3. PICK c : c = Content(s)
    OBVIOUS
  <2>4. W = {v \in V : v.id > oldest /\ v.id \notin Pruned(Ids(V))}
    BY <1>1, <2>1, <2>2 DEF Of
  <2>5. \A v \in V : (\A w \in V : w.id <= v.id) => Same(v.snap, c)
    BY <1>4, <2>1, <2>3 DEF Current
  <2>6. ASSUME NEW v \in W, \A w \in W : w.id <= v.id PROVE Same(v.snap, c)
    <3>1. V # {} /\ v \in V
      BY <2>4
    <3>2. PICK m \in V : \A w \in V : w.id <= m.id
      BY <1>0, <2>1, <3>1, LatestOf
    <3>3. m.id \in Nat /\ \A w \in V : w.id \in Nat
      BY <1>2, <2>1, <3>2 DEF Of
    <3>4. m \in W
      <4>1. m.id > oldest
        <5>1. v.id \in Nat /\ v.id > oldest /\ v.id <= m.id
          BY <2>4, <3>1, <3>2, <3>3
        <5>2. QED
          BY <1>2, <3>3, <5>1
      <4>2. m.id \notin Pruned(Ids(V))
        <5>1. PICK i \in Nat : i = m.id
          BY <3>3
        <5>2. Ids(V) \subseteq Nat /\ \A j \in Ids(V) : j <= i
          BY <3>2, <3>3, <5>1 DEF Ids
        <5>3. QED
          BY <5>1, <5>2, NewestKept
      <4>3. QED
        BY <2>4, <4>1, <4>2
    <3>5. v.id = m.id
      BY <2>6, <3>1, <3>2, <3>3, <3>4
    <3>6. QED
      BY <2>5, <3>1, <3>2, <3>5
  <2>7. c = Content(s)'
    BY <1>3, <2>3
  <2>8. QED
    BY <2>2, <2>6, <2>7 DEF Current
<1>5. CurrentInv'
  <2> SUFFICES ASSUME NEW s \in Sites \ (disturbed' \cup missed') PROVE Current(s)' \/ Pending(s)'
    BY Zenon DEF CurrentInv
  <2>1. Current(s) \/ Pending(s)
    BY <1>1, <1>3 DEF SerialInv, CurrentInv
  <2>2. Pending(s) => Pending(s)'
    BY <1>1 DEF Pending
  <2>3. QED
    BY <1>4, <2>1, <2>2
<1>6. RecordingInv'
  <2>1. ASSUME NEW t \in Tasks PROVE Recording(task[t])'
    <3>1. PICK r : r = task[t]
      OBVIOUS
    <3>2. Recording(r) /\ (r.at = "begin" => r.site \in Sites)
      BY <1>0, <3>1 DEF SerialInv, RecordingInv, RecorderTypes
    <3>3. r.at = "insert" => r.site \in disturbed'
      BY <1>1, <3>1
    <3>4. Recording(r)'
      BY <1>1, <1>3, <3>2, <3>3, RecordingKept
    <3>5. QED
      BY <1>1, <3>1, <3>4 DEF Recording
  <2>2. QED
    BY <2>1 DEF RecordingInv
<1>7. IdInv'
  BY <1>0, <1>1, <1>3, IdsKept
<1>8. \A q \in Ops : Still(q)
  BY <1>1 DEF Still
<1>9. \A q \in Ops : /\ \A p \in Sites : Engaged(q, p)' => Engaged(q, p)
                     /\ SlotOk(q)' /\ (op'[q].at = "restore" => op'[q].kind # "rollback")
  BY <1>1, <1>3, <1>8, StillEngaged, StillSlot DEF SerialInv, SlotInv
<1>10. ArchivingInv'
  <2>1. \A q \in Ops : op[q].at = "archive" => ShownStays(op[q].site)
    BY <1>0, <1>3, UneditedShown DEF RequestTypes
  <2>2. QED
    BY <1>1, <1>3, <2>1, ArchivingKept
<1>11. QED
  BY <1>3, <1>5, <1>6, <1>7, <1>8, <1>9, <1>10, SerialKept
-----------------------------------------------------------------------------
(* A rollback archives and commits *)

LEMMA RollbackArchivesSerial ==
  ASSUME HistoryInv, SerialInv, NEW o \in Ops, RollbackArchives(o) PROVE SerialInv'
<1>0. KeptTypes /\ RequestTypes /\ RecorderTypes /\ VersionInv /\ IdInv /\ nextId \in Nat
  BY DEF HistoryInv, HistoryTypes, SerialInv, KeptTypes
<1>1. PICK x \in Requests : x = op[o]
  BY <1>0 DEF RequestTypes
<1>2. x.at = "archive" /\ x.site \in Sites
  BY <1>0, <1>1 DEF RequestTypes, RollbackArchives, At
<1>3. PICK known \in BOOLEAN : known = IsLatest(x.site, x.hash)
  BY DEF IsLatest
<1>4. PICK G : G = IF known THEN {} ELSE Pruned(Ids(Of(x.site)) \cup {nextId})
  OBVIOUS
<1>5. PICK i : i = IF known THEN 0 ELSE nextId
  OBVIOUS
<1>6. PICK b : b = IF known THEN Latest(x.site).snap ELSE Content(x.site)
  OBVIOUS
<1>7. PICK r : r = [x EXCEPT !.at = "delete", !.before = b, !.id = i, !.gone = G]
  OBVIOUS
<1>8. /\ r.at = "delete" /\ r.site = x.site /\ r.id = i /\ r.gone = G
      /\ r.hash = x.hash /\ r.before = b
  BY <1>7 DEF Requests
<1>9. Go(o, r) /\ nextId' = IF known THEN nextId ELSE nextId + 1
  BY <1>1, <1>3, <1>4, <1>5, <1>6, <1>7 DEF RollbackArchives
<1>10. op'[o] = r /\ \A q \in Ops \ {o} : op'[q] = op[q]
  BY <1>0, <1>9 DEF Go, RequestTypes
<1>11. /\ UNCHANGED <<versions, task, missed, disturbed>>
       /\ \A q \in Sites : Calm(q) /\ Unedited(q)
  BY DEF RollbackArchives, db, Calm, Of, Unedited
<1>12. nextId' \in Nat /\ nextId <= nextId'
  BY <1>0, <1>9
<1>13. CurrentInv'
  <2>1. "archive" \notin Changed
    BY DEF Changed
  <2>2. \A q \in Sites : Pending(q) => Pending(q)'
    BY <1>1, <1>2, <1>10, <1>11, <2>1 DEF Pending
  <2>3. QED
    BY <1>11, <2>2, CurrentKept
<1>14. RecordingInv'
  <2>1. \A t \in Tasks : Calm(task[t].site) \/ task[t].at = "none"
    BY <1>0, <1>11 DEF RecorderTypes
  <2>2. QED
    BY <1>11, <2>1, RecordersKept
<1>15. IdInv'
  <2>1. Owned(G, x.site)
    <3>1. CASE known
      BY <1>4, <3>1 DEF Owned
    <3>2. CASE ~known
      <4>1. Owned(Ids(Of(x.site)), x.site)
        BY <1>0, OwnIds
      <4>2. QED
        BY <1>0, <1>4, <3>2, <4>1, PrunedOwn
    <3>3. QED
      BY <3>1, <3>2
  <2>2. ASSUME NEW q \in Ops, Reserved(q)'
        PROVE  \/ q = o /\ op'[q].id = nextId /\ nextId' = nextId + 1
               \/ q # o /\ Reserved(q) /\ op'[q].id = op[q].id
    BY <1>5, <1>8, <1>9, <1>10, <2>2 DEF Reserved
  <2>3. \A q \in Ops : Reserved(q) => op[q].id \in Nat /\ op[q].id < nextId
    BY <1>0 DEF Reserved, VersionInv, Archived, RequestTypes, Requests
  <2>4. ASSUME NEW ids, NEW q, Owned(ids, q) PROVE Owned(ids, q)'
    <3>1. ids \subseteq Nat /\ \A j \in ids : j < nextId
      BY <2>4 DEF Owned
    <3>2. (\A j \in ids : j < nextId') /\ nextId \notin ids
      BY <1>0, <1>12, <3>1
    <3>3. \A p \in Ops : Reserved(p)' => op'[p].id \notin ids
      BY <2>2, <2>4, <3>2 DEF Owned
    <3>4. \A v \in versions' : v.id \in ids => v.site = q
      BY <1>11, <2>4 DEF Owned
    <3>5. QED
      BY <3>1, <3>2, <3>3, <3>4 DEF Owned
  <2>5. \A v, w \in versions' : v.id = w.id => v = w
    BY <1>0, <1>11 DEF IdInv
  <2>6. ASSUME NEW q \in Ops, Reserved(q)', NEW v \in versions' PROVE v.id # op'[q].id
    <3>1. CASE q # o
      BY <1>0, <1>11, <2>2, <2>6, <3>1 DEF IdInv
    <3>2. CASE q = o
      <4>1. v.id \in Nat /\ v.id < nextId /\ op'[q].id = nextId
        BY <1>0, <1>11, <2>2, <2>6, <3>2 DEF KeptTypes, Versions, VersionInv
      <4>2. QED
        BY <1>0, <4>1
    <3>3. QED
      BY <3>1, <3>2
  <2>7. ASSUME NEW p \in Ops, NEW q \in Ops, Reserved(p)', Reserved(q)', op'[p].id = op'[q].id
        PROVE  p = q
    <3>1. CASE p # o /\ q # o
      BY <1>0, <2>2, <2>7, <3>1 DEF IdInv
    <3>2. CASE p = o /\ q # o
      BY <1>0, <2>2, <2>3, <2>7, <3>2
    <3>3. CASE p # o /\ q = o
      BY <1>0, <2>2, <2>3, <2>7, <3>3
    <3>4. QED
      BY <3>1, <3>2, <3>3
  <2>8. \A q \in Ops : op'[q] = op[q] \/ Owned(op'[q].gone, op'[q].site)
    BY <1>8, <1>10, <2>1
  <2>9. QED
    BY <1>0, <1>11, <2>4, <2>5, <2>6, <2>7, <2>8, IdsStep
<1>16. \A q \in Ops \ {o} : Still(q)
  BY <1>10, <1>11 DEF Still
<1>17. \A s \in Sites : Engaged(o, s)' => Engaged(o, s)
  BY <1>1, <1>8, <1>10, <1>11 DEF Engaged
<1>18. SlotOk(o)'
  <2>1. ASSUME NEW t \in Tasks, x.site \in Sites \ disturbed, task[t].site = x.site PROVE FALSE
    BY <1>1, <1>2, <2>1, NoRecorder
  <2>2. QED
    BY <1>8, <1>10, <1>11, <2>1 DEF SlotOk
<1>19. ArchivingInv'
  <2>1. \A q \in Ops \ {o} : op[q].at = "archive" => ShownStays(op[q].site)
    BY <1>0, <1>11, UneditedShown DEF RequestTypes
  <2>2. ASSUME x.site \notin disturbed, i # 0 PROVE Tells(x.hash, b)
    <3>1. Archiving(x)
      BY <1>1 DEF SerialInv, ArchivingInv
    <3>2. Tells(x.hash, Content(x.site))
      BY <1>2, <2>2, <3>1 DEF Archiving
    <3>3. b = Content(x.site)
      BY <1>5, <1>6, <2>2
    <3>4. QED
      BY <3>2, <3>3
  <2>3. Archiving(r)'
    BY <1>8, <1>11, <2>2 DEF Archiving
  <2>4. Archiving(op[o])'
    BY <1>10, <2>3 DEF Archiving
  <2>5. QED
    BY <1>10, <1>11, <2>1, <2>4, ArchivingKept
<1>20. QED
  BY <1>8, <1>10, <1>11, <1>13, <1>14, <1>15, <1>16, <1>17, <1>18, <1>19, SerialKept

LEMMA RollbackCommitsSerial ==
  ASSUME HistoryInv, SerialInv, NEW o \in Ops, RollbackCommits(o) PROVE SerialInv'
<1>0. /\ DbTypes /\ KeptTypes /\ RequestTypes /\ RecorderTypes /\ VersionInv /\ LockInv
      /\ RollbackInv /\ IdInv /\ nextId \in Nat
  BY DEF HistoryInv, HistoryTypes, SerialInv, KeptTypes
<1>1. PICK x \in Requests : x = op[o]
  BY <1>0 DEF RequestTypes
<1>2. PICK s \in Sites : s = x.site
  BY <1>0, <1>1 DEF RequestTypes, RollbackCommits, At
<1>3. x.at = "commit" /\ x.kind = "rollback" /\ x.snap \in Kept
  BY <1>0, <1>1 DEF RollbackCommits, At, LockInv, Inside, Requests
<1>4. Owned(x.gone, s)
  BY <1>0, <1>1, <1>2, <1>3 DEF IdInv, Archived
<1>5. PICK n : n = [id |-> x.id, site |-> s, hash |-> x.hash, snap |-> x.before]
  OBVIOUS
<1>6. n.id = x.id /\ n.site = s /\ n.hash = x.hash /\ n.snap = x.before
  BY <1>5
<1>7. versions' = {v \in versions : v.id \notin x.gone} \cup (IF x.id = 0 THEN {} ELSE {n})
  BY <1>1, <1>2, <1>5 DEF RollbackCommits
<1>8. PICK r : r = [Idle EXCEPT !.at = "recordRollback", !.kind = "rollback", !.site = s]
  OBVIOUS
<1>9. r.at = "recordRollback" /\ r.site = s /\ Go(o, r)
  BY <1>1, <1>2, <1>8 DEF RollbackCommits, Idle
<1>10. op'[o] = r /\ \A q \in Ops \ {o} : op'[q] = op[q]
  BY <1>0, <1>9 DEF Go, RequestTypes
<1>11. UNCHANGED <<edge, nextId, task, missed, disturbed>>
  BY DEF RollbackCommits
<1>12. ASSUME NEW q \in Sites \ {s} PROVE Calm(q)
  <2>1. Unedited(q)
    <3>1. Restores(s, x.snap, x.del)
      BY <1>1, <1>2 DEF RollbackCommits
    <3>2. QED
      BY <1>3, <1>11, <3>1, RestoresFacts
  <2>2. \A v \in versions : v.site = q => v.id \notin x.gone
    BY <1>4 DEF Owned
  <2>3. {v \in versions' : v.site = q} = {v \in versions : v.site = q}
    BY <1>6, <1>7, <2>2
  <2>4. QED
    BY <2>1, <2>3 DEF Calm, Of
<1>13. ASSUME NEW t \in Tasks, task[t].site = s PROVE s \in disturbed
  BY <1>1, <1>2, <1>3, <1>13, NoRecorder
<1>14. CurrentInv'
  <2>1. ASSUME NEW q \in Sites \ disturbed' PROVE (Calm(q) /\ (Pending(q) => Pending(q)')) \/ Pending(q)'
    <3>1. CASE q = s
      <4>1. op'[o].site = q /\ op'[o].at \in Changed
        BY <1>9, <1>10, <3>1 DEF Changed
      <4>2. QED
        BY <4>1 DEF Pending
    <3>2. CASE q # s
      <4>1. Pending(q) => Pending(q)'
        BY <1>1, <1>2, <1>10, <1>11, <3>2 DEF Pending
      <4>2. QED
        BY <1>12, <3>2, <4>1
    <3>3. QED
      BY <3>1, <3>2
  <2>2. QED
    BY <1>11, <2>1, CurrentKept
<1>15. RecordingInv'
  <2>1. ASSUME NEW t \in Tasks
        PROVE  Calm(task[t].site) \/ task[t].site \in disturbed' \/ task[t].at = "none"
    BY <1>0, <1>11, <1>12, <1>13 DEF RecorderTypes
  <2>2. QED
    BY <1>11, <2>1, RecordersKept
<1>16. \A v \in versions' : v \in versions \/ (v = n /\ x.id # 0)
  BY <1>7
<1>17. \A v \in versions' : v \in versions \/ v.site \in disturbed' \/ Tells(v.hash, v.snap)
  <2>1. ASSUME s \notin disturbed, x.id # 0 PROVE Tells(x.hash, x.before)
    <3>1. Archiving(x)
      BY <1>1 DEF SerialInv, ArchivingInv
    <3>2. QED
      BY <1>2, <1>3, <2>1, <3>1 DEF Archiving, Archived
  <2>2. QED
    BY <1>6, <1>11, <1>16, <2>1
<1>18. IdInv'
  <2>1. \A q \in Ops : Reserved(q)' => q # o /\ Reserved(q) /\ op'[q].id = op[q].id
    BY <1>9, <1>10 DEF Reserved, Archived
  <2>2. x.id # 0 => Reserved(o) /\ op[o].id = n.id
    BY <1>1, <1>3, <1>6 DEF Reserved, Archived
  <2>3. ASSUME NEW ids, NEW q, Owned(ids, q) PROVE Owned(ids, q)'
    <3>1. ids \subseteq Nat /\ \A j \in ids : j < nextId'
      BY <1>11, <2>3 DEF Owned
    <3>2. \A v \in versions' : v.id \in ids => v.site = q
      BY <1>16, <2>2, <2>3 DEF Owned
    <3>3. \A p \in Ops : Reserved(p)' => op'[p].id \notin ids
      BY <2>1, <2>3 DEF Owned
    <3>4. QED
      BY <3>1, <3>2, <3>3 DEF Owned
  <2>4. \A v, w \in versions' : v.id = w.id => v = w
    <3>1. \A v, w \in versions : v.id = w.id => v = w
      BY <1>0 DEF IdInv
    <3>2. x.id # 0 => \A v \in versions : v.id # n.id
      BY <1>0, <2>2 DEF IdInv
    <3>3. QED
      BY <1>16, <3>1, <3>2
  <2>5. ASSUME NEW q \in Ops, Reserved(q)', NEW v \in versions' PROVE v.id # op'[q].id
    <3>1. CASE v \in versions
      BY <1>0, <2>1, <2>5, <3>1 DEF IdInv
    <3>2. CASE v = n /\ x.id # 0
      BY <1>0, <2>1, <2>2, <2>5, <3>2 DEF IdInv
    <3>3. QED
      BY <1>16, <3>1, <3>2
  <2>6. \A p, q \in Ops : Reserved(p)' /\ Reserved(q)' /\ op'[p].id = op'[q].id => p = q
    BY <1>0, <2>1 DEF IdInv
  <2>7. \A q \in Ops : op'[q].at \in Archived => op'[q] = op[q]
    BY <1>9, <1>10 DEF Archived
  <2>8. QED
    BY <1>0, <1>11, <2>3, <2>4, <2>5, <2>6, <2>7, IdsStep
<1>19. \A q \in Ops \ {o} : Still(q)
  BY <1>10, <1>11 DEF Still
<1>20. \A q \in Sites : Engaged(o, q)' => Engaged(o, q)
  BY <1>1, <1>2, <1>9, <1>10, <1>11 DEF Engaged
<1>21. SlotOk(o)'
  BY <1>9, <1>10, <1>11, <1>13 DEF SlotOk
<1>22. ArchivingInv'
  <2>1. ASSUME NEW q \in Ops \ {o}, op[q].at = "archive", op[q].site \notin disturbed'
        PROVE  ShownStays(op[q].site)
    <3>1. op[q].site \in Sites /\ op[q].site # s
      BY <1>0, <1>1, <1>2, <1>3, <2>1 DEF RequestTypes, LockInv, Inside
    <3>2. QED
      BY <1>12, <3>1, UneditedShown DEF Calm
  <2>2. Archiving(op[o])'
    BY <1>9, <1>10 DEF Archiving, Archived
  <2>3. QED
    BY <1>10, <1>11, <2>1, <2>2, ArchivingKept
<1>23. QED
  BY <1>9, <1>10, <1>11, <1>14, <1>15, <1>17, <1>18, <1>19, <1>20, <1>21, <1>22, SerialKept

-----------------------------------------------------------------------------
(* Changes that nobody records *)

LEMMA EarlySerial ==
  ASSUME HistoryInv, SerialInv, NEW o \in Ops, EndsEarly(o) \/ RestoreGoesOn(o) PROVE SerialInv'
<1>0. RequestTypes /\ op[o].at # "idle" /\ op[o].site \in Sites
  BY DEF HistoryInv, HistoryTypes, RequestTypes, EndsEarly, RestoreGoesOn
<1>1. UNCHANGED <<versions, nextId, task, disturbed>> /\ missed \subseteq missed' /\ \A q : Unedited(q)
  BY DEF EndsEarly, RestoreGoesOn, Unedited, db
<1>2. CASE EndsEarly(o)
  <2>1. Idle.at = "idle" /\ Idle.site \notin Sites /\ Archiving(Idle)'
    BY SiteAssumption DEF Idle, Archiving, Archived
  <2>2. Go(o, Idle) /\ (op[o].at \in Changed => op[o].site \in missed')
    BY <1>2 DEF EndsEarly, Changed, At
  <2>3. QED
    BY <1>1, <2>1, <2>2, MoveSerial DEF Archived
<1>3. CASE RestoreGoesOn(o)
  <2>1. PICK r : r = [op[o] EXCEPT !.at = IF At(o, "touch") THEN "notify" ELSE "record"]
    OBVIOUS
  <2>2. /\ Go(o, r) /\ r.site = op[o].site /\ op[o].at \in {"touch", "notify"}
        /\ r.at = IF op[o].at = "touch" THEN "notify" ELSE "record"
    BY <1>0, <1>3, <2>1 DEF RestoreGoesOn, MoveTo, At, RequestTypes, Requests
  <2>3. Archiving(r)' /\ r.at \notin Archived /\ r.at # "restore"
    BY <2>2 DEF Archiving, Archived
  <2>4. op[o].at \in Changed => (r.site = op[o].site /\ r.at \in Changed) \/ op[o].site \in missed'
    BY <1>3, <2>2 DEF RestoreGoesOn, Changed, At
  <2>5. ASSUME NEW t \in Tasks, t[1] = o, task[t].site = op[o].site, op[o].site \notin disturbed
        PROVE  FALSE
    <3>1. op[o].at = IF t[2] = "own" THEN "touch" ELSE "record"
      BY <1>0, <2>5 DEF SerialInv, SlotInv, SlotOk
    <3>2. t = <<o, "own">>
      BY <2>2, <2>5, <3>1, TaskTypes
    <3>3. task[t].site = NoSite
      BY <1>3, <3>2 DEF RestoreGoesOn, NoTask
    <3>4. QED
      BY <1>0, <2>5, <3>3, SiteAssumption
  <2>6. QED
    BY <1>1, <2>2, <2>3, <2>4, <2>5, MoveSerial
<1>4. QED
  BY <1>2, <1>3

\* A silent write changes nothing that a hash shows.
LEMMA SilentShown ==
  ASSUME DbTypes, count' \in [Kinds -> Nat], count \in [Kinds -> Nat], NEW s \in Sites, SilentWrite(s)
  PROVE  ShownStays(s) /\ \A q \in Sites \ {s} : Unedited(q)
<1>1. PICK old \in SUBSET (Hidden(Content(s)) \ Locked(s)), new \in SUBSET {-count'["silent"]} :
        rules' = [rules EXCEPT ![s] = (@ \ old) \cup new]
  BY Zenon DEF SilentWrite
<1>2. listed' = listed
  BY DEF SilentWrite
<1>3. -count'["silent"] \in Int /\ -count'["silent"] < 0
  <2>1. count["silent"] \in Nat /\ count'["silent"] = count["silent"] + 1
    BY DEF SilentWrite, Counts, Kinds
  <2>2. QED
    BY <2>1
<1>4. \A r \in old \cup new : r < 0
  BY <1>1, <1>3 DEF Hidden
<1>5. rules'[s] = (rules[s] \ old) \cup new /\ rules[s] \subseteq Int
  BY <1>1 DEF DbTypes
<1>6. {r \in rules'[s] : ~(r < 0)} = {r \in rules[s] : ~(r < 0)}
  BY <1>4, <1>5
<1>7. /\ Shown(Content(s)).names = listed[s] /\ Shown(Content(s))'.names = listed'[s]
      /\ Shown(Content(s)).rules = {r \in rules[s] : ~(r < 0)}
      /\ Shown(Content(s))'.rules = {r \in rules'[s] : ~(r < 0)}
  BY DEF Shown, Hidden, Content
<1>8. ShownStays(s)
  BY <1>2, <1>6, <1>7 DEF ShownStays, Same
<1>9. \A q \in Sites \ {s} : Unedited(q)
  BY <1>1, <1>2 DEF DbTypes, Unedited
<1>10. QED
  BY <1>8, <1>9

LEMMA SilentSerial ==
  ASSUME HistoryInv, SerialInv, NEW s \in Sites, SilentWrite(s) PROVE SerialInv'
<1>0. DbTypes /\ KeptTypes /\ RequestTypes /\ RecorderTypes /\ IdInv
  BY DEF HistoryInv, HistoryTypes, SerialInv
<1>1. UNCHANGED <<versions, nextId, op, task, disturbed>> /\ missed' = missed \cup {s}
  BY DEF SilentWrite
<1>2. count' \in [Kinds -> Nat] /\ count \in [Kinds -> Nat]
  BY <1>0, CountsType DEF SilentWrite, KeptTypes, Kinds
<1>3. ShownStays(s) /\ \A q \in Sites \ {s} : Unedited(q)
  BY <1>0, <1>2, SilentShown
<1>4. \A q \in Sites \ {s} : Calm(q)
  BY <1>1, <1>3 DEF Calm, Of
<1>5. CurrentInv'
  <2>1. \A q \in Sites : Pending(q) => Pending(q)'
    BY <1>1 DEF Pending
  <2>2. QED
    BY <1>1, <1>4, <2>1, CurrentKept
<1>6. RecordingInv'
  <2>1. ASSUME NEW t \in Tasks
        PROVE  \/ /\ task'[t] = task[t]
                  /\ Calm(task[t].site) \/ task[t].site \in disturbed' \/ task[t].at = "none"
                  /\ task[t].at = "insert" /\ task[t].site \in missed => task[t].site \in missed'
               \/ Recording(task[t])'
    <3>1. CASE task[t].site # s
      BY <1>0, <1>1, <1>4, <3>1 DEF RecorderTypes
    <3>2. CASE task[t].site = s
      <4>1. PICK r : r = task[t]
        OBVIOUS
      <4>2. Recording(r) /\ r.site = s
        BY <3>2, <4>1 DEF SerialInv, RecordingInv
      <4>3. s \notin disturbed /\ r.at = "begin" => Tells(r.hash, Content(s)')
        BY <1>3, <4>2, TellsKept DEF Recording
      <4>4. Recording(r)'
        BY <1>1, <4>2, <4>3 DEF Recording
      <4>5. task'[t] = r
        BY <1>1, <4>1
      <4>6. QED
        BY <4>4, <4>5 DEF Recording
    <3>3. QED
      BY <3>1, <3>2
  <2>2. QED
    BY <1>1, <2>1, RecordersKept
<1>7. ArchivingInv'
  <2>1. \A q \in Ops : op[q].at = "archive" => ShownStays(op[q].site)
    BY <1>0, <1>3, UneditedShown DEF RequestTypes
  <2>2. QED
    BY <1>1, <2>1, ArchivingKept
<1>8. IdInv'
  <2>1. nextId' \in Nat /\ nextId <= nextId'
    BY <1>0, <1>1 DEF KeptTypes
  <2>2. QED
    BY <1>0, <1>1, <2>1, IdsKept
<1>9. \A q \in Ops : Still(q)
  BY <1>1 DEF Still
<1>10. \A q \in Ops : /\ \A p \in Sites : Engaged(q, p)' => Engaged(q, p)
                      /\ SlotOk(q)' /\ (op'[q].at = "restore" => op'[q].kind # "rollback")
  BY <1>1, <1>9, StillEngaged, StillSlot DEF SerialInv, SlotInv
<1>11. QED
  BY <1>1, <1>5, <1>6, <1>7, <1>8, <1>9, <1>10, SerialKept
-----------------------------------------------------------------------------
(* The history stays current *)

LEMMA SerialBegins == HistoryInit => SerialInv
<1> SUFFICES ASSUME HistoryInit PROVE SerialInv
  OBVIOUS
<1>1. /\ op = [o \in Ops |-> Idle] /\ task = [t \in Tasks |-> NoTask]
      /\ versions = {[id |-> 1, site |-> First, hash |-> ConfigHash(First), snap |-> Content(First)]}
      /\ First \in Sites /\ DbTypes
  BY HistoryAssumption, HistoryBegins DEF HistoryInit, HistoryInv, HistoryTypes
<1>2. /\ \A o \in Ops : op[o].at = "idle" /\ op[o].site = NoSite
      /\ \A t \in Tasks : task[t].at = "none" /\ task[t].site = NoSite
  BY <1>1 DEF Idle, NoTask
<1>3. PICK c : c = Content(First)
  OBVIOUS
<1>4. PICK v : v = [id |-> 1, site |-> First, hash |-> ConfigHash(First), snap |-> c]
  OBVIOUS
<1>5. versions = {v} /\ v.site = First /\ v.snap = c /\ v.hash.content = Shown(c)
  BY <1>1, <1>3, <1>4, ContentType
<1>6. AloneInv /\ SlotInv
  BY <1>2, SiteAssumption DEF AloneInv, Engaged, SlotInv, SlotOk
<1>7. CurrentInv
  BY <1>3, <1>5 DEF CurrentInv, Current, Of, Same
<1>8. TellsInv
  BY <1>5 DEF TellsInv, Tells, Same
<1>9. RecordingInv /\ ArchivingInv
  BY <1>2 DEF RecordingInv, Recording, ArchivingInv, Archiving, Archived
<1>10. IdInv
  BY <1>2, <1>5 DEF IdInv, Reserved, Archived
<1>11. QED
  BY <1>1, <1>6, <1>7, <1>8, <1>9, <1>10 DEF SerialInv

LEMMA SerialSteps ==
  HistoryInv /\ SerialInv /\ [HistoryNext]_allVars => SerialInv'
<1> SUFFICES ASSUME HistoryInv, SerialInv, [HistoryNext]_allVars PROVE SerialInv'
  OBVIOUS
<1>1. CASE UNCHANGED allVars
  BY <1>1, SameSerial DEF allVars
<1>2. ASSUME NEW o \in Ops, NEW s \in Sites,
             \/ \E names \in SUBSET Names : EditSite(o, s, names)
             \/ AddRule(o, s) \/ \E r \in rules[s] : UpdateRule(o, s, r) \/ DeleteRule(o, s, r)
      PROVE  SerialInv'
  BY <1>2, EditsSerial
<1>3. ASSUME NEW o \in Ops, NEW s \in Sites, BackUp(o, s) PROVE SerialInv'
  BY <1>3, SameSerial DEF BackUp
<1>4. ASSUME NEW o \in Ops, Touch(o) \/ Notify(o) \/ EndsEarly(o) \/ RestoreGoesOn(o)
      PROVE  SerialInv'
  BY <1>4, TouchSerial, NotifySerial, EarlySerial
<1>5. ASSUME NEW o \in Ops,
             \/ \E v \in versions : RollbackBegins(o, v)
             \/ RollbackLocks(o) \/ RollbackArchives(o) \/ RollbackDeletes(o)
             \/ RollbackCommits(o) \/ RollbackRecords(o)
      PROVE  SerialInv'
  BY <1>5, RollbackBeginsSerial, RollbackStaysSerial, RollbackArchivesSerial,
     RollbackCommitsSerial, RollbackRecordsSerial
<1>6. ASSUME NEW o \in Ops,
             \/ \E b \in backups : RestoreBegins(o, b)
             \/ RestoreCommits(o) \/ RestoreRecords(o) \/ Aborts(o)
      PROVE  SerialInv'
  BY <1>6, RestoreBeginsSerial, RestoreCommitsSerial, RestoreRecordsSerial, RollbackStaysSerial
<1>7. ASSUME NEW t \in Tasks, RecordBegin(t) \/ RecordCommit(t) \/ RecordFails(t) PROVE SerialInv'
  BY <1>7, RecordBeginSerial, RecordCommitSerial, RecordFailsSerial
<1>8. CASE PruneExpired
  BY <1>8, PruneSerial
<1>9. ASSUME NEW s \in Sites, SilentWrite(s) PROVE SerialInv'
  BY <1>9, SilentSerial
<1>10. QED
  BY <1>1, <1>2, <1>3, <1>4, <1>5, <1>6, <1>7, <1>8, <1>9, Zenon DEF HistoryNext

\* notify_config_changed, rollback and restore_backup with record_version: when
\* the operations on a site did not overlap, no recorder failed and no write
\* went unrecorded, its latest version is its configuration, for any number of
\* sites and requests and whatever the retention keeps.
THEOREM HistoryStaysCurrent == HistorySpec => []SerialHistoryCurrent
<1>1. HistoryInv /\ SerialInv => SerialHistoryCurrent
  BY SerialCurrent
<1>2. QED
  BY <1>1, HistoryInductive, SerialBegins, SerialSteps, PTL DEF HistorySpec

-----------------------------------------------------------------------------
(* The sweeps that ride on the heartbeats *)

\* What compare_exchange relies on: a task's loaded value that is still the
\* stored one is an hour old.
LoadedIsOld == \A t \in Streams : current[t] = TRUE => age["certs"] = Window

SweepInv == StampNotOlder /\ LoadedIsOld

\* The sweeps have never run, which counts as an hour ago.
LEMMA InitSweepInv == SweepInit => SweepInv
BY WindowAssumption DEF SweepInit, SweepInv, StampNotOlder, LoadedIsOld, Sweeps

\* The throttle of a task's own sweep keeps the invariant.
LEMMA SwapSweepInv ==
  ASSUME SweepInv, NEW t \in Streams, NEW w \in Sweeps \ {"certs"}, NEW here,
         NEW go \in {"list", "prune"}, NEW skip \in {"samples", "idle"},
         Swap(t, w, here, go, skip)
  PROVE  SweepInv'
<1> USE WindowAssumption DEF SweepInv, StampNotOlder, LoadedIsOld, Swap, Goto, Begin
<1>1. CASE Recent(w) BY <1>1
<1>2. CASE ~Recent(w) BY <1>2
<1> QED BY <1>1, <1>2

\* Every step of a task keeps it.
LEMMA TaskSweepInv ==
  ASSUME SweepInv, NEW t \in Streams, TaskStep(t) PROVE SweepInv'
<1> USE DEF Goto
<1>1. CASE Heartbeat(t)
  BY <1>1 DEF Heartbeat, SweepInv, StampNotOlder, LoadedIsOld
<1>2. CASE LoadCert(t)
  <2> USE WindowAssumption DEF LoadCert, SweepInv, StampNotOlder, LoadedIsOld, Sweeps
  <2>1. CASE Recent("certs") BY <1>2, <2>1
  <2>2. CASE ~Recent("certs") BY <1>2, <2>2 DEF Recent
  <2> QED BY <2>1, <2>2
<1>3. CASE CasCert(t)
  <2> USE WindowAssumption DEF CasCert, SweepInv, StampNotOlder, LoadedIsOld, Sweeps, Begin
  <2>1. CASE current[t]
    <3>1. /\ age' = [age EXCEPT !["certs"] = 0]
          /\ since' = [since EXCEPT !["certs"] = 0]
          /\ pc' = [pc EXCEPT ![t] = "certs"]
          /\ row' = row /\ doomed' = doomed
      BY <1>3, <2>1, Zenon
    <3>2. current' = [u \in Streams |-> FALSE] BY <1>3, <2>1, Zenon
    <3>3. current' \in [Streams -> BOOLEAN] BY <3>2, Zenon
    <3>4. LoadedIsOld' BY <3>2, Zenon
    <3>5. /\ age' \in [Sweeps -> 0..Window] /\ since' \in [Sweeps -> 0..Window]
          /\ row' \in {"online", "stale", "gone"}
          /\ \A w \in Sweeps : age'[w] <= since'[w]
      BY <3>1
    <3>6. pc' \in [Streams -> {"idle", "load", "cas", "certs", "swap", "list",
                            "delete", "samples", "prune"}]
      BY <3>1
    <3>7. doomed' \in [Streams -> BOOLEAN] BY <3>1, Zenon
    <3> QED BY <3>3, <3>4, <3>5, <3>6, <3>7, Zenon
  <2>2. CASE ~current[t] BY <1>3, <2>2
  <2> QED BY <2>1, <2>2
<1>4. CASE SweepCerts(t)
  BY <1>4 DEF SweepCerts, SweepInv, StampNotOlder, LoadedIsOld
<1>5. CASE SwapAgents(t) BY <1>5, SwapSweepInv DEF SwapAgents, Sweeps
<1>6. CASE ListAgents(t)
  BY <1>6 DEF ListAgents, SweepInv, StampNotOlder, LoadedIsOld
<1>7. CASE DeleteAgents(t)
  BY <1>7 DEF DeleteAgents, SweepInv, StampNotOlder, LoadedIsOld
<1>8. CASE SwapSamples(t) BY <1>8, SwapSweepInv DEF SwapSamples, Sweeps
<1>9. CASE PruneSamples(t)
  BY <1>9 DEF PruneSamples, SweepInv, StampNotOlder, LoadedIsOld
<1> QED BY <1>1, <1>2, <1>3, <1>4, <1>5, <1>6, <1>7, <1>8, <1>9 DEF TaskStep

LEMMA NextSweepInv == SweepInv /\ [SweepNext]_sweepVars => SweepInv'
<1> SUFFICES ASSUME SweepInv, [SweepNext]_sweepVars PROVE SweepInv' OBVIOUS
<1> USE DEF SweepInv, StampNotOlder, LoadedIsOld
<1>1. CASE UNCHANGED sweepVars BY <1>1 DEF sweepVars
<1>2. CASE \E t \in Streams : TaskStep(t) BY <1>2, TaskSweepInv
<1>3. CASE GoesStale BY <1>3 DEF GoesStale
<1>4. CASE Registers BY <1>4 DEF Registers
<1>5. CASE Tick BY <1>5, WindowAssumption DEF Tick, Sweeps
<1> QED BY <1>1, <1>2, <1>3, <1>4, <1>5 DEF SweepNext

\* What LAST_CERT_SWEEP, LAST_AGENT_SWEEP and LAST_SAMPLE_SWEEP hold is never
\* older than the sweep, for any number of tasks.
THEOREM StampsAreFresh == SweepSpec => []StampNotOlder
<1>1. SweepInv => StampNotOlder BY DEF SweepInv
<1> QED BY <1>1, InitSweepInv, NextSweepInv, PTL DEF SweepSpec
\* The action of AtMostHourly.
Hourly ==
  \A t \in Streams :
    /\ pc'[t] = "certs" /\ pc[t] # "certs" => since["certs"] = Window
    /\ pc'[t] = "list" /\ pc[t] # "list" => since["agents"] = Window
    /\ pc'[t] = "prune" /\ pc[t] # "prune" => since["samples"] = Window

\* A sweep goes ahead only past its throttle.
LEMMA TaskHourly ==
  ASSUME SweepInv, NEW u \in Streams, TaskStep(u) PROVE Hourly
<1> SUFFICES ASSUME NEW t \in Streams
             PROVE  /\ pc'[t] = "certs" /\ pc[t] # "certs" => since["certs"] = Window
                    /\ pc'[t] = "list" /\ pc[t] # "list" => since["agents"] = Window
                    /\ pc'[t] = "prune" /\ pc[t] # "prune" => since["samples"] = Window
  BY DEF Hourly
<1> USE WindowAssumption
    DEF Goto, SweepInv, StampNotOlder, LoadedIsOld, Sweeps, Recent
<1>1. CASE Heartbeat(u) BY <1>1 DEF Heartbeat
<1>2. CASE LoadCert(u) BY <1>2 DEF LoadCert
<1>3. CASE CasCert(u)
  <2>1. CASE current[u]
    <3>1. current[u] = TRUE BY <2>1, Zenon
    <3>2. age["certs"] = Window BY <3>1
    <3>3. pc' = [pc EXCEPT ![u] = "certs"] BY <1>3, <2>1, Zenon DEF CasCert
    <3> QED BY <3>2, <3>3
  <2>2. CASE ~current[u] BY <1>3, <2>2 DEF CasCert
  <2> QED BY <2>1, <2>2
<1>4. CASE SweepCerts(u) BY <1>4 DEF SweepCerts
<1>5. CASE SwapAgents(u) BY <1>5 DEF SwapAgents, Swap
<1>6. CASE ListAgents(u) BY <1>6 DEF ListAgents
<1>7. CASE DeleteAgents(u) BY <1>7 DEF DeleteAgents
<1>8. CASE SwapSamples(u) BY <1>8 DEF SwapSamples, Swap
<1>9. CASE PruneSamples(u) BY <1>9 DEF PruneSamples
<1> QED BY <1>1, <1>2, <1>3, <1>4, <1>5, <1>6, <1>7, <1>8, <1>9 DEF TaskStep

\* No interleaving of any number of tasks lets a sweep go ahead twice within
\* an hour.
THEOREM SweepsAreHourly == SweepSpec => AtMostHourly
<1>1. SweepInv /\ [SweepNext]_sweepVars => [Hourly]_sweepVars
  <2> SUFFICES ASSUME SweepInv, SweepNext PROVE [Hourly]_sweepVars OBVIOUS
  <2>1. CASE \E t \in Streams : TaskStep(t) BY <2>1, TaskHourly
  <2>2. CASE GoesStale BY <2>2 DEF GoesStale, Hourly
  <2>3. CASE Registers BY <2>3 DEF Registers, Hourly
  <2>4. CASE Tick BY <2>4 DEF Tick, Hourly
  <2> QED BY <2>1, <2>2, <2>3, <2>4 DEF SweepNext
<1> QED BY <1>1, InitSweepInv, NextSweepInv, PTL DEF SweepSpec, AtMostHourly, Hourly

-----------------------------------------------------------------------------
(* The certificate row.  PendingIsClean needs to know what a task that is    *)
(* about to write may write, and that every order is one of the writes.      *)

Messages ==
  {[serial |-> 0, status |-> "idle"]}
    \cup [serial : 0..MaxIssue, status : {"none", "active", "expired"}]

CertInv ==
  /\ PendingIsClean /\ order <= writes + 1 /\ message \in [Reporters -> Messages]

LEMMA CertBegins == CertInit => CertInv
<1> SUFFICES ASSUME CertInit PROVE CertInv
  OBVIOUS
<1> USE CertAssumption DEF CertInit
<1>1. overdue \in BOOLEAN /\ expired \in [Edges -> BOOLEAN]
  BY Zenon
<1>1a. issued \in 0..MaxIssue /\ served \in [Edges -> 0..issued]
  OBVIOUS
<1>2. message \in [Reporters -> Messages]
  BY DEF NoMessage, Messages
<1>3. events \in Seq(1..order) /\ swept \subseteq 1..order
  OBVIOUS
<1>4. QED
  BY <1>1, <1>1a, <1>2, <1>3 DEF CertInv, PendingIsClean, Statuses, NoReason

\* A later order leaves what is about the earlier ones in its type.
LEMMA SeqGrows ==
  ASSUME NEW m \in Nat, NEW n \in Nat, m <= n, NEW s \in Seq(1..m)
  PROVE  s \in Seq(1..n)
OBVIOUS

\* The operator.
LEMMA OperatorKeeps ==
  ASSUME CertInv, Renew \/ \E s \in Statuses : EditCertificate(s)
  PROVE  CertInv'
<1> USE CertAssumption
<1>0. /\ order \in Nat /\ writes \in Nat /\ order <= writes + 1 /\ events \in Seq(1..order)
      /\ swept \subseteq 1..order /\ message \in [Reporters -> Messages]
      /\ reason \in 0..order
      /\ expires \in 0..MaxIssue /\ issued \in 0..MaxIssue /\ served \in [Edges -> 0..issued]
      /\ order >= 1
  BY DEF CertInv, PendingIsClean
<1>1. /\ writes < MaxWrite /\ writes' = writes + 1
      /\ UNCHANGED <<expires, issued, served, expired, events, message, swept>>
      /\ status' \in Statuses
      /\ \/ status' = "pending" /\ reason' = NoReason /\ order' = order + 1
         \/ status' # "pending" /\ UNCHANGED <<reason, order>>
  BY DEF Renew, EditCertificate, edgeState, Statuses
<1>2. overdue' \in BOOLEAN /\ expired' \in [Edges -> BOOLEAN] /\ overdue' = FALSE
  <2>1. overdue' = FALSE /\ expired' = expired
    BY Zenon DEF Renew, EditCertificate, edgeState
  <2>2. QED
    BY <2>1, Zenon DEF CertInv, PendingIsClean
<1>3. order' \in Nat /\ order <= order' /\ order' <= writes' + 1 /\ order' \in 1..MaxWrite + 1
  <2>1. order \in Nat /\ writes \in Nat /\ order <= writes + 1 /\ order >= 1 /\ MaxWrite \in Nat
    BY <1>0
  <2>2. writes < MaxWrite /\ writes' = writes + 1 /\ order' \in {order, order + 1}
    BY <1>1
  <2>3. QED
    BY ONLY <2>1, <2>2
<1>4. events' \in Seq(1..order')
  BY <1>0, <1>1, <1>3, SeqGrows
<1>5. swept' \subseteq 1..order' /\ reason' \in 0..order'
  <2>1. order \in Nat /\ order' \in Nat /\ order <= order' /\ swept \subseteq 1..order /\ reason \in 0..order
    BY <1>0, <1>3
  <2>2. swept' = swept /\ reason' \in {reason, 0}
    BY <1>1, Zenon DEF NoReason
  <2>3. QED
    BY ONLY <2>1, <2>2
<1>6. status' = "pending" => reason' = NoReason
  BY <1>1
<1>7. /\ writes' \in 0..MaxWrite /\ expires' \in 0..MaxIssue
      /\ issued' \in 0..MaxIssue /\ served' \in [Edges -> 0..issued']
  BY <1>0, <1>1
<1>8. QED
  BY <1>0, <1>1, <1>2, <1>3, <1>4, <1>5, <1>6, <1>7 DEF CertInv, PendingIsClean

\* The edges leave the row alone.
LEMMA EdgeKeeps ==
  ASSUME CertInv,
         \/ \E e \in Edges : EdgeIssues(e) \/ EdgeExpires(e)
         \/ \E o \in 1..order : EdgeFails(o)
         \/ \E t \in Reporters : HeartbeatSent(t)
  PROVE  CertInv'
<1> USE CertAssumption
<1>0. CertInv /\ PendingIsClean
  BY DEF CertInv
<1>1. /\ UNCHANGED <<status, expires, reason, order, writes, swept>>
      /\ UNCHANGED overdue
  BY Zenon DEF EdgeIssues, EdgeExpires, EdgeFails, HeartbeatSent,
     certificate, operator, edgeState
<1>2. overdue' \in BOOLEAN
  BY <1>0, <1>1, Zenon DEF PendingIsClean
<1>3. expired' \in [Edges -> BOOLEAN]
  <2>1. expired \in [Edges -> BOOLEAN]
    BY <1>0, Zenon DEF PendingIsClean
  <2>2. ASSUME NEW e \in Edges, NEW b \in BOOLEAN PROVE [expired EXCEPT ![e] = b] \in [Edges -> BOOLEAN]
    BY <2>1, Zenon
  <2>3. \/ expired' = expired
        \/ \E e \in Edges : expired' = [expired EXCEPT ![e] = TRUE] \/ expired' = [expired EXCEPT ![e] = FALSE]
    BY Zenon DEF EdgeIssues, EdgeExpires, EdgeFails, HeartbeatSent, edgeState
  <2>4. TRUE \in BOOLEAN /\ FALSE \in BOOLEAN
    OBVIOUS
  <2>5. QED
    BY <2>1, <2>2, <2>3, <2>4, Zenon
<1>4. issued' \in 0..MaxIssue /\ served' \in [Edges -> 0..issued']
  <2>1. issued \in 0..MaxIssue /\ served \in [Edges -> 0..issued]
    BY <1>0 DEF PendingIsClean
  <2>2. CASE UNCHANGED <<issued, served>>
    BY <2>1, <2>2
  <2>3. ASSUME NEW e \in Edges, EdgeIssues(e)
        PROVE  issued' \in 0..MaxIssue /\ served' \in [Edges -> 0..issued']
    BY <2>1, <2>3 DEF EdgeIssues
  <2>4. QED
    BY <2>2, <2>3 DEF EdgeExpires, EdgeFails, HeartbeatSent, edgeState
<1>5. events' \in Seq(1..order)
  <2>1. events \in Seq(1..order)
    BY <1>0 DEF PendingIsClean
  <2>2. ASSUME NEW o \in 1..order PROVE Append(events, o) \in Seq(1..order)
    BY <2>1, SMTT(30)
  <2>3. events' = events \/ \E o \in 1..order : events' = Append(events, o)
    BY Zenon DEF EdgeIssues, EdgeExpires, EdgeFails, HeartbeatSent
  <2>4. QED
    BY <2>1, <2>2, <2>3, Zenon
<1>6. message' \in [Reporters -> Messages]
  <2>1. ASSUME NEW t \in Reporters, HeartbeatSent(t) PROVE message' \in [Reporters -> Messages]
    <3>1. Serving(EdgeOf[t]) \in Messages
      <4>1. /\ EdgeOf[t] \in Edges /\ issued \in 0..MaxIssue /\ served \in [Edges -> 0..issued]
        BY <1>0 DEF PendingIsClean
      <4>2. served[EdgeOf[t]] \in 0..MaxIssue
        BY <4>1
      <4>3. QED
        BY <4>2 DEF Messages, Serving
    <3>2. QED
      BY <1>0, <2>1, <3>1 DEF HeartbeatSent, CertInv
  <2>2. CASE UNCHANGED message
    BY <1>0, <2>2 DEF CertInv
  <2>3. QED
    BY <2>1, <2>2 DEF EdgeIssues, EdgeExpires, EdgeFails
<1>7. overdue' => status' = "pending"
  BY <1>0, <1>1, Zenon DEF PendingIsClean
<1>8. QED
  BY <1>0, <1>1, <1>2, <1>3, <1>4, <1>5, <1>6, <1>7 DEF CertInv, PendingIsClean

\* What is true of the row whenever it is written or left alone.
RowKept ==
  \/ UNCHANGED <<status, expires, reason, overdue>>
  \/ /\ status' \in Statuses /\ expires' \in 0..MaxIssue /\ reason' \in 0..order
     /\ overdue' = FALSE /\ (status' = "pending" => reason' = NoReason)
  \/ status = "pending" /\ overdue' = TRUE /\ UNCHANGED <<status, expires, reason>>

LEMMA RowKeeps ==
  ASSUME CertInv, RowKept, UNCHANGED <<order, writes, issued, served, expired>>,
         events' \in Seq(1..order), swept' \subseteq 1..order, message' \in [Reporters -> Messages]
  PROVE  CertInv'
<1>0. CertInv /\ PendingIsClean
  BY DEF CertInv
<1>1. overdue' \in BOOLEAN /\ expired' \in [Edges -> BOOLEAN]
  <2>1. overdue' = overdue \/ overdue' = FALSE \/ overdue' = TRUE
    BY Zenon DEF RowKept
  <2>2. expired' = expired
    BY Zenon
  <2>3. QED
    BY <1>0, <2>1, <2>2, Zenon DEF PendingIsClean
<1>2. overdue' => status' = "pending"
  <2>1. CASE UNCHANGED <<status, overdue>>
    BY <1>0, <2>1, Zenon DEF PendingIsClean
  <2>2. CASE overdue' = FALSE
    BY <2>2, Zenon
  <2>3. CASE status = "pending" /\ UNCHANGED status
    BY <2>3, Zenon
  <2>4. QED
    BY <2>1, <2>2, <2>3, Zenon DEF RowKept
<1>3. /\ status' \in Statuses /\ expires' \in 0..MaxIssue /\ reason' \in 0..order
      /\ (status' = "pending" => reason' = NoReason)
  BY <1>0 DEF RowKept, PendingIsClean
<1>4. QED
  BY <1>0, <1>1, <1>2, <1>3 DEF CertInv, PendingIsClean

\* The writers of the control plane.
LEMMA ReportKeeps ==
  ASSUME CertInv, NEW t \in Reporters, Report(t) \/ ReportFails(t)
  PROVE  CertInv'
<1>0. CertInv /\ PendingIsClean
  BY DEF CertInv
<1>1. UNCHANGED <<order, writes, issued, served, expired, events, swept>>
  BY Zenon DEF Report, ReportFails, operator, edgeState
<1>2. message' \in [Reporters -> Messages]
  <2>1. NoMessage \in Messages
    BY DEF NoMessage, Messages
  <2>2. message' = [message EXCEPT ![t] = NoMessage]
    BY DEF Report, ReportFails, Persisted
  <2>3. QED
    BY <1>0, <2>1, <2>2 DEF CertInv
<1>3. RowKept
  <2>1. CASE UNCHANGED certificate
    BY <2>1, Zenon DEF RowKept, certificate
  <2>2. CASE ~UNCHANGED certificate
    <3>1. PICK m \in Messages : m = message[t]
      BY <1>0 DEF CertInv
    <3>2. /\ m # NoMessage /\ m.status # "none"
          /\ status' = m.status /\ expires' = m.serial /\ reason' = NoReason
      BY <2>2, <3>1 DEF Report, ReportFails
    <3>3. overdue' = FALSE
      BY <2>2, Zenon DEF Report, ReportFails
    <3>4. m.status \in {"active", "expired"} /\ m.serial \in 0..MaxIssue
      BY <3>1, <3>2 DEF Messages, NoMessage
    <3>5. /\ status' \in Statuses /\ expires' \in 0..MaxIssue /\ reason' \in 0..order
          /\ (status' = "pending" => reason' = NoReason)
      BY <1>0, <3>2, <3>4 DEF Statuses, NoReason, PendingIsClean
    <3>6. QED
      BY <3>3, <3>5, Zenon DEF RowKept
  <2>3. QED
    BY <2>1, <2>2
<1>4. events' \in Seq(1..order) /\ swept' \subseteq 1..order
  BY <1>0, <1>1 DEF PendingIsClean
<1>5. QED
  BY <1>1, <1>2, <1>3, <1>4, RowKeeps

LEMMA EventKeeps ==
  ASSUME CertInv, EventArrives \/ EventLost
  PROVE  CertInv'
<1>0. CertInv /\ PendingIsClean
  BY DEF CertInv
<1>1. UNCHANGED <<order, writes, issued, served, expired, message, swept>>
  BY Zenon DEF EventArrives, EventLost, operator, edgeState
<1>2. /\ events # <<>> /\ events \in Seq(1..order) /\ events' = Tail(events)
      /\ Head(events) \in 1..order /\ Tail(events) \in Seq(1..order)
  <2>1. events # <<>> /\ events' = Tail(events)
    BY Zenon DEF EventArrives, EventLost
  <2>2. events \in Seq(1..order)
    BY <1>0, Zenon DEF PendingIsClean
  <2>3. ASSUME NEW S, NEW q \in Seq(S), q # <<>> PROVE Head(q) \in S /\ Tail(q) \in Seq(S)
    BY <2>3
  <2>4. QED
    BY <2>1, <2>2, <2>3, Zenon
<1>3. RowKept
  <2>1. CASE UNCHANGED <<status, expires, reason, overdue>>
    BY <2>1, Zenon DEF RowKept
  <2>2. CASE ~UNCHANGED <<status, expires, reason, overdue>>
    <3>1. overdue' = FALSE
      BY <2>2, Zenon DEF EventArrives, EventLost, certificate
    <3>2. status' = "failed" /\ reason' = Head(events) /\ expires' = expires
      BY <2>2 DEF EventArrives, EventLost, certificate
    <3>3. order \in Nat /\ expires \in 0..MaxIssue
      BY <1>0, CertAssumption DEF PendingIsClean
    <3>4. /\ status' \in Statuses /\ expires' \in 0..MaxIssue /\ reason' \in 0..order
          /\ (status' = "pending" => reason' = NoReason)
      BY <1>2, <3>2, <3>3 DEF Statuses
    <3>5. QED
      BY <3>1, <3>4, Zenon DEF RowKept
  <2>3. QED
    BY <2>1, <2>2
<1>4. /\ events' \in Seq(1..order) /\ swept' \subseteq 1..order
      /\ message' \in [Reporters -> Messages]
  BY <1>0, <1>1, <1>2 DEF CertInv, PendingIsClean
<1>5. QED
  BY <1>1, <1>3, <1>4, RowKeeps

LEMMA CertSweepKeeps ==
  ASSUME CertInv,
         Ages \/ SweepList \/ SweepFail \/ SweepGivesUp
  PROVE  CertInv'
<1>0. CertInv /\ PendingIsClean
  BY DEF CertInv
<1>1. UNCHANGED <<order, writes, issued, served, expired, events, message>>
  BY Zenon DEF Ages, SweepList, SweepFail, SweepGivesUp, operator, edgeState
<1>2. order \in Nat /\ order >= 1 /\ swept \subseteq 1..order /\ expires \in 0..MaxIssue
  BY <1>0, CertAssumption DEF PendingIsClean
<1>3. swept' \subseteq 1..order
  <2>1. swept' = swept \/ swept' = {order} \/ swept' = {}
    BY Zenon DEF Ages, SweepList, SweepFail, SweepGivesUp
  <2>2. order \in 1..order
    BY <1>2
  <2>3. QED
    BY <1>2, <2>1, <2>2, Zenon
<1>4. RowKept
  <2>1. CASE Ages
    BY <2>1, Zenon DEF RowKept, Ages
  <2>2. CASE SweepList \/ SweepGivesUp
    BY <2>2, Zenon DEF RowKept, SweepList, SweepGivesUp, certificate
  <2>3. CASE SweepFail
    <3>1. overdue' = FALSE
      BY <2>3, Zenon DEF SweepFail
    <3>2. /\ status' \in Statuses /\ expires' \in 0..MaxIssue /\ reason' \in 0..order
          /\ (status' = "pending" => reason' = NoReason)
      BY <1>2, <2>3 DEF SweepFail, Statuses
    <3>3. QED
      BY <3>1, <3>2, Zenon DEF RowKept
  <2>4. QED
    BY <2>1, <2>2, <2>3
<1>5. events' \in Seq(1..order) /\ message' \in [Reporters -> Messages]
  BY <1>0, <1>1 DEF CertInv, PendingIsClean
<1>6. QED
  BY <1>1, <1>3, <1>4, <1>5, RowKeeps

LEMMA CertSteps == CertInv /\ [CertNext]_certVars => CertInv'
<1> SUFFICES ASSUME CertInv, [CertNext]_certVars PROVE CertInv'
  OBVIOUS
<1>1. CASE UNCHANGED certVars
  <2>0. CertInv /\ PendingIsClean
    BY DEF CertInv
  <2>1. UNCHANGED <<status, expires, reason, overdue, order, writes, issued, served, expired, events,
                    message, swept>>
    BY <1>1, Zenon DEF certVars, certificate, operator, edgeState
  <2>2. RowKept /\ UNCHANGED <<order, writes, issued, served, expired>>
    BY <2>1, Zenon DEF RowKept
  <2>3. /\ events' \in Seq(1..order) /\ swept' \subseteq 1..order
        /\ message' \in [Reporters -> Messages]
    BY <2>0, <2>1 DEF CertInv, PendingIsClean
  <2>4. QED
    BY <2>2, <2>3, RowKeeps
<1>2. CASE CertNext
  BY <1>2, OperatorKeeps, EdgeKeeps, ReportKeeps, EventKeeps, CertSweepKeeps, Zenon DEF CertNext
<1>3. QED
  BY <1>1, <1>2

\* api/ssl.rs and grpc/control_plane.rs: for any number of heartbeat tasks, of
\* writes by the operator and of certificates, a row that is pending carries no
\* reason of a failure, and a reason is about an order that was placed.
THEOREM PendingStaysClean ==
  CertSpec => []PendingIsClean
<1>1. CertInv => PendingIsClean
  BY DEF CertInv
<1>2. CertInit => CertInv
  BY CertBegins
<1>3. CertInv /\ [CertNext]_certVars => CertInv'
  BY CertSteps
<1>4. QED
  BY <1>1, <1>2, <1>3, PTL DEF CertSpec

=============================================================================
