------------------------------ MODULE SiteIndex ------------------------------
(* How the agent finds the site of a request                                 *)
(* (pingwaf-agent/src/cache/mod.rs): sites holds each site's hostnames,      *)
(* domain_index the site of each hostname, and update_from_site_config       *)
(* replaces the one and patches the other in place.  Both are persisted and  *)
(* reloaded as they are, so a restart changes nothing.                       *)
(*                                                                           *)
(* update_from_bundle is not modelled: the control plane sends no RuleUpdate *)
(* command.                                                                  *)
EXTENDS Naturals, FiniteSets

CONSTANTS Sites, Hosts,
          Wildcard,    \* a name that covers every host
          NoSite

ASSUME SiteAssumption == Wildcard \notin Hosts /\ NoSite \notin Sites

Names == Hosts \cup {Wildcard}

VARIABLES
  \* the control plane
  listed,    \* the hostnames of each site; {} if there is no such site
  deleted,   \* ids that were in use once
  \* the agent
  sites,     \* RuleCache.inner.sites: the hostnames of each site, {} if absent
  index,     \* RuleCache.inner.domain_index
  \* history
  moved      \* names that two sites have had, one after the other

vars == <<listed, deleted, sites, index, moved>>

Init ==
  /\ listed = [s \in Sites |-> {}] /\ deleted = {}
  /\ sites = listed /\ index = [n \in Names |-> NoSite]
  /\ moved = {}

-----------------------------------------------------------------------------
\* create, update and remove of sites.rs: a name belongs to one site at a time.
Edit(s, names) ==
  /\ s \notin deleted /\ names # listed[s]
  /\ \A r \in Sites \ {s} : listed[r] \cap names = {}
  /\ listed' = [listed EXCEPT ![s] = names]
  /\ deleted' = IF names = {} THEN deleted \cup {s} ELSE deleted
  /\ UNCHANGED <<sites, index, moved>>

\* The index entries of the sites in the configuration.
Inserted ==
  [n \in Names |->
     IF \E s \in Sites : n \in listed[s] THEN CHOOSE s \in Sites : n \in listed[s]
     ELSE index[n]]

\* Cached sites that the configuration does not list.
Ghosts == {s \in Sites : sites[s] # {} /\ listed[s] = {}}

\* Mutant: a name that the site had before is taken out afterwards.
UpdateRemovesLast ==
  /\ \E s \in Sites : listed[s] # {}
  /\ index' = [n \in Names |-> IF \E s \in Sites : n \in sites[s] THEN NoSite
                               ELSE Inserted[n]]
  /\ sites' = listed
  /\ moved' = moved \cup {n \in Names : \E r, s \in Sites :
                            r # s /\ n \in sites[r] \cap listed[s]}
  /\ UNCHANGED <<listed, deleted>>

\* update_from_site_config: the listed sites are inserted, then the ghosts
\* are removed with all their names.  The removal of the old entry (line 1792)
\* is by the domain of the converted bundle, which is empty, and removes
\* nothing.
UpdateFromSiteConfig ==
  /\ \E s \in Sites : listed[s] # {}
  /\ index' = [n \in Names |-> IF \E g \in Ghosts : n \in sites[g] THEN NoSite
                               ELSE Inserted[n]]
  /\ sites' = listed
  /\ moved' = moved \cup {n \in Names : \E r, s \in Sites :
                            r # s /\ n \in sites[r] \cap listed[s]}
  /\ UNCHANGED <<listed, deleted>>

Next ==
  \/ \E s \in Sites, names \in SUBSET Names : Edit(s, names)
  \/ UpdateFromSiteConfig

Spec == Init /\ [][Next]_vars

-----------------------------------------------------------------------------
\* get_site_rules: an exact entry, else a wildcard's; then the site it names.
Resolve(h) ==
  LET s == IF index[h] # NoSite THEN index[h] ELSE index[Wildcard]
  IN IF s # NoSite /\ sites[s] # {} THEN s ELSE NoSite

\* The site that the cached configuration assigns to a host.
Has(s, n) == n \in sites[s]
Owners(h) ==
  IF \E s \in Sites : Has(s, h) THEN {s \in Sites : Has(s, h)}
  ELSE {s \in Sites : Has(s, Wildcard)}

\* Types; and a host listed by a site that never had another owner resolves
\* to that site after any sequence of edits and syncs, the deletion of other
\* sites included.
StableHostServed ==
  /\ listed \in [Sites -> SUBSET Names] /\ sites \in [Sites -> SUBSET Names]
  /\ index \in [Names -> Sites \cup {NoSite}]
  /\ \A s \in Sites, h \in Hosts : Has(s, h) /\ h \notin moved => Resolve(h) = s

\* update_from_bundle's comment: "only drop the index entry when it still
\* points at *this* site, otherwise updating one site silently unhooks the
\* other".  (Violated by update_from_site_config: the removal of a ghost takes
\* a name that has moved to a live site with it.)
ListedHostServed == \A s \in Sites, h \in Hosts : Has(s, h) => Resolve(h) = s

\* "Remove old domain index": a host that no site lists resolves to the site
\* of the wildcard, or to none.  (Violated: nothing removes the entry of a
\* name that a site gave up.)
DroppedHostUnserved ==
  \A h \in Hosts : (\A s \in Sites : ~Has(s, h)) => {Resolve(h)} \ {NoSite} = Owners(h)
=============================================================================
