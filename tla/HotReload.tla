------------------------------ MODULE HotReload ------------------------------
(* The data plane under configuration pushes: the reload watcher of          *)
(* src/pingwaf.rs, the providers it replaces one after the other             *)
(* (src/upstreams.rs, src/locations.rs, src/server_locations.rs,             *)
(* src/plugin/mod.rs), and the requests that find their location and its     *)
(* plugins meanwhile (pingap-proxy/src/server.rs,                            *)
(* pingap-location/src/location.rs).                                         *)
(*                                                                           *)
(* A site has one location, one upstream and perhaps a plugin of its own,    *)
(* all named after it.  The certificate table, which is replaced between the *)
(* routes and the plugins, is left out.                                      *)
EXTENDS Integers, SequencesExt

CONSTANTS Sites,
          Confs,       \* a site's settings: [up |-> the hash of its upstream's,
                       \* own |-> that of its plugin's, or NoPlugin,
                       \* max |-> its location's max_processing, 0 for none]
          NoPlugin,
          Start,       \* the settings of a site that start_data_plane finds
          Broken,      \* the hashes of which nothing can be built
          Requests,    \* requests under way at once
          MaxPush      \* bound: pushes

ASSUME HotReloadAssumption ==
  /\ \A c \in Confs : DOMAIN c = {"up", "own", "max"} /\ c.max \in Nat
  /\ Start \in Confs /\ {Start.up, Start.own} \cap Broken = {}
  /\ MaxPush \in Nat

VARIABLES
  sites,      \* the rule cache: the settings of its sites...
  hash,       \* ...and its config_hash, that of the last message
  pushes,
  pc,         \* where the watcher is
  lastHash,   \* its last_hash
  readHash,   \* its hash
  config,     \* its config
  upstreams,  \* UPSTREAM_PROVIDER: sites to Upstreams, told by the hash of their
              \* settings and the reload that built them, which keep the name
              \* they were built for
  locations,  \* LOCATION_PROVIDER: sites to Locations
  routes,     \* SERVER_LOCATIONS_PROVIDER: the routed sites
  plugins,    \* PLUGIN_PROVIDER.plugins: sites to the plugins' hashes
  version,    \* PLUGIN_PROVIDER.version
  phase,      \* where each request is
  ctx,        \* its context
  \* history
  missed      \* a push came before the watcher was armed, or brought back the
              \* hash it had read before it built from a later one

cache == <<sites, hash, pushes>>
watcher == <<pc, lastHash, readHash, config>>
providers == <<upstreams, locations, routes, plugins, version>>
requests == <<phase, ctx>>
vars == <<cache, watcher, providers, requests, missed>>

\* f with k mapped to v.
With(f, k, v) == [x \in DOMAIN f \cup {k} |-> IF x = k THEN v ELSE f[x]]

NewUpstream(key, name, reload) == [key |-> key, name |-> name, reload |-> reload]

\* A location names its site's plugin if there is one, and keeps the list that
\* the name resolved to with the version it was resolved at, 0 if never.  It is
\* told by the reload that built it.
NewLocation(conf, n) ==
  [named |-> conf.own # NoPlugin, max |-> conf.max, id |-> n, at |-> 0, list |-> {}]

\* Whether it is what the settings ask for.
IsOf(location, conf) == location.named = (conf.own # NoPlugin) /\ location.max = conf.max

NoCtx == [site |-> "none", location |-> 0, version |-> 0, list |-> {}]

\* fingerprint: of the whole of a configuration.
HashOf(conf) == conf

\* The plugins of a configuration; one that cannot be created is left out.
PluginsOf(conf) ==
  [s \in {n \in DOMAIN conf : conf[n].own \notin Broken \cup {NoPlugin}} |-> conf[s].own]

Whole(conf) == \A s \in DOMAIN conf : {conf[s].up, conf[s].own} \cap Broken = {}

\* start_data_plane has initialised the providers and is about to arm the
\* watcher.
Init ==
  /\ \E s \in Sites : sites = [x \in {s} |-> Start]
  /\ hash = HashOf(sites) /\ pushes = 0
  /\ pc = "arm" /\ lastHash = hash /\ readHash = hash /\ config = sites
  /\ upstreams = [s \in DOMAIN sites |-> NewUpstream(sites[s].up, s, 0)]
  /\ locations = [s \in DOMAIN sites |-> NewLocation(sites[s], 0)]
  /\ routes = DOMAIN sites /\ plugins = PluginsOf(sites) /\ version = 1
  /\ phase = [r \in Requests |-> "none"] /\ ctx = [r \in Requests |-> NoCtx]
  /\ missed = FALSE

-----------------------------------------------------------------------------
(* The rule cache *)

\* The hash the watcher will compare the cache's with when it looks again.
DueHash == IF pc = "sleep" THEN lastHash ELSE readHash

\* update_from_site_config, after a change of one site.
Push(c) ==
  LET h == HashOf(c) IN
  /\ pushes < MaxPush /\ pushes' = pushes + 1
  /\ sites' = c /\ hash' = h
  /\ missed' = (missed \/ pc = "arm" \/ (pc # "build" /\ h = DueHash /\ c # config))
  /\ UNCHANGED <<watcher, providers, requests>>

-----------------------------------------------------------------------------
(* The watcher *)

At(l, next) == pc = l /\ pc' = next

Arm ==
  /\ At("arm", "sleep") /\ lastHash' = hash
  /\ UNCHANGED <<cache, readHash, config, providers, requests, missed>>

Poll ==
  /\ At("sleep", "build") /\ hash # lastHash /\ readHash' = hash
  /\ UNCHANGED <<cache, lastHash, config, providers, requests, missed>>

\* build_pingap_config makes nothing of a cache without sites.
Build ==
  /\ pc = "build"
  /\ IF DOMAIN sites = {} THEN pc' = "mark" /\ UNCHANGED config
     ELSE pc' = "upstreams" /\ config' = sites
  /\ UNCHANGED <<cache, lastHash, readHash, providers, requests, missed>>

\* The upstreams that names of this configuration keep, by their hash.
Seeds(k) ==
  {upstreams[s] : s \in {n \in DOMAIN config \cap DOMAIN upstreams :
                           config[n].up = k /\ upstreams[n].key = k}}

Keys == {config[s].up : s \in DOMAIN config}

\* Mutant: no pre-pass, and a new name comes before the one that has an
\* upstream.
FreshKeysUnseeded ==
  {k \in Keys : \E s \in DOMAIN config :
     config[s].up = k /\ (s \in DOMAIN upstreams => upstreams[s].key # k)}

\* The hashes that need a new upstream.
FreshKeys == {k \in Keys : Seeds(k) = {}}

\* try_init_upstreams: one upstream for each hash, an old one if some name has
\* kept it, or else one with the first of the names.  One that cannot be built
\* fails them all.
InitUpstreams ==
  \E first \in [FreshKeys -> DOMAIN config] :
    LET Shared(k) == IF k \in FreshKeys THEN NewUpstream(k, first[k], version)
                     ELSE CHOOSE u \in Seeds(k) : TRUE IN
    /\ At("upstreams", "locations") /\ \A k \in FreshKeys : config[first[k]].up = k
    /\ upstreams' = IF FreshKeys \cap Broken # {} THEN upstreams
                    ELSE [s \in DOMAIN config |-> Shared(config[s].up)]
    /\ UNCHANGED <<cache, lastHash, readHash, config, locations, routes, plugins, version,
                   requests, missed>>

\* try_init_locations: an unchanged location is kept, with its list.
InitLocations ==
  /\ At("locations", "routes")
  /\ locations' = [s \in DOMAIN config |->
       IF s \in DOMAIN locations /\ IsOf(locations[s], config[s]) THEN locations[s]
       ELSE NewLocation(config[s], version)]
  /\ UNCHANGED <<cache, lastHash, readHash, config, upstreams, routes, plugins,
                 version, requests, missed>>

\* try_init_server_locations.
InitRoutes ==
  /\ At("routes", "plugins") /\ routes' = DOMAIN config
  /\ UNCHANGED <<cache, lastHash, readHash, config, upstreams, locations, plugins,
                 version, requests, missed>>

\* try_init_plugins, up to the store of the plugins...
StorePlugins ==
  /\ At("plugins", "bump") /\ plugins' = PluginsOf(config)
  /\ UNCHANGED <<cache, lastHash, readHash, config, upstreams, locations, routes,
                 version, requests, missed>>

\* ...and the new version after it.
BumpVersion ==
  /\ At("bump", "mark") /\ version' = version + 1
  /\ UNCHANGED <<cache, lastHash, readHash, config, upstreams, locations, routes,
                 plugins, requests, missed>>

\* Mutant: the hash is read again after the reload.
MarkCurrent ==
  /\ At("mark", "sleep") /\ lastHash' = hash
  /\ UNCHANGED <<cache, readHash, config, providers, requests, missed>>

Mark ==
  /\ At("mark", "sleep") /\ lastHash' = readHash
  /\ UNCHANGED <<cache, readHash, config, providers, requests, missed>>

-----------------------------------------------------------------------------
(* A request *)

Enter(r, p, c) == phase' = [phase EXCEPT ![r] = p] /\ ctx' = [ctx EXCEPT ![r] = c]

\* find_and_apply_location.  A request that matches none meets no provider, and
\* a location without plugin has nothing to resolve.
Find(r, s) ==
  /\ phase[r] = "none" /\ s \in routes \cap DOMAIN locations /\ locations[s].named
  /\ Enter(r, "version", [NoCtx EXCEPT !.site = s, !.location = locations[s].id])
  /\ UNCHANGED <<cache, watcher, providers, missed>>

\* plugins_for: the version first,...
LoadVersion(r) ==
  /\ phase[r] = "version" /\ Enter(r, "cached", [ctx[r] EXCEPT !.version = version])
  /\ UNCHANGED <<cache, watcher, providers, missed>>

\* ...then the list of the location...
Held(r) == ctx[r].site \in DOMAIN locations /\ locations[ctx[r].site].id = ctx[r].location

UseCached(r) ==
  /\ phase[r] = "cached"
  /\ IF Held(r) /\ locations[ctx[r].site].at = ctx[r].version
     THEN Enter(r, "none", NoCtx)
     ELSE Enter(r, "get", ctx[r])
  /\ UNCHANGED <<cache, watcher, providers, missed>>

\* ...or a new one...
Resolved(s) == IF s \in DOMAIN plugins THEN {plugins[s]} ELSE {}

GetPlugins(r) ==
  /\ phase[r] = "get" /\ Enter(r, "store", [ctx[r] EXCEPT !.list = Resolved(ctx[r].site)])
  /\ UNCHANGED <<cache, watcher, providers, missed>>

\* Mutant: the list is stamped with the version at the end.
StampNow(r) == version

\* ...that is stamped with the version read before it.  The list of a location
\* that was replaced in the meantime is of no interest any more.
Stamp(r) == ctx[r].version

StoreList(r) ==
  /\ phase[r] = "store" /\ Enter(r, "none", NoCtx)
  /\ locations' = IF Held(r)
                  THEN [locations EXCEPT ![ctx[r].site].at = Stamp(r),
                                         ![ctx[r].site].list = ctx[r].list]
                  ELSE locations
  /\ UNCHANGED <<cache, watcher, upstreams, routes, plugins, version, missed>>

-----------------------------------------------------------------------------
WatcherStep ==
  \/ Arm \/ Poll \/ Build \/ InitUpstreams \/ InitLocations \/ InitRoutes
  \/ StorePlugins \/ BumpVersion \/ Mark

Pushes ==
  \/ \E s \in Sites, c \in Confs : Push(With(sites, s, c))
  \/ \E s \in DOMAIN sites : Push(Restrict(sites, DOMAIN sites \ {s}))

PluginsFor(r) == LoadVersion(r) \/ UseCached(r) \/ GetPlugins(r) \/ StoreList(r)

Next ==
  \/ Pushes \/ WatcherStep
  \/ \E r \in Requests : (\E s \in Sites : Find(r, s)) \/ PluginsFor(r)

Spec == Init /\ [][Next]_vars

-----------------------------------------------------------------------------
\* Whether the providers are those of a configuration.
Serves(c) ==
  /\ DOMAIN upstreams = DOMAIN c /\ DOMAIN locations = DOMAIN c /\ routes = DOMAIN c
  /\ \A s \in DOMAIN c : upstreams[s].key = c[s].up /\ IsOf(locations[s], c[s])
  /\ plugins = PluginsOf(c)

\* The watcher is content only with what it serves: asleep, and with the hash
\* of the cache, it has every provider built from the sites of the cache -
\* unless they cannot be built, or a push came before it was armed, or brought
\* back the hash that it read before it built from a later one.
ReloadComplete ==
  pc = "sleep" /\ hash = lastHash /\ ~missed /\ DOMAIN sites # {} /\ Whole(sites)
    => Serves(sites)

\* plugins_for never keeps a stale list: what a location holds under the
\* provider's version is what its name resolves to, though requests of
\* several versions store theirs in any order.
StampFresh ==
  pc # "bump" =>
    \A s \in DOMAIN locations :
      locations[s].at = version => locations[s].list = Resolved(s)

\* "Only reuse within this build, or from the same name's existing entry": an
\* upstream whose settings did not change is not built again, so that it keeps
\* its health and its counters, and aliases share it.
UnchangedKept ==
  [][pc = "upstreams" /\ pc' = "locations" /\ FreshKeys \cap Broken = {} =>
       /\ \A s \in DOMAIN upstreams \cap DOMAIN config :
            config[s].up = upstreams[s].key => upstreams'[s] \in Range(upstreams)
       /\ \A s, u \in DOMAIN config :
            config[s].up = config[u].up => upstreams'[s] = upstreams'[u]]_vars

\* "re-init the ArcSwap providers when the control plane pushes new rules".
\* (Violated: a push while start_data_plane is under way is in the hash that
\* the watcher starts from, and not in the providers.)
PushNoticed ==
  pc = "sleep" /\ hash = lastHash /\ DOMAIN sites # {} => config = sites

\* A request runs the plugin that its location names.  (Violated: the locations
\* and the routes are replaced before the plugins.)
PluginsComplete == \A r \in Requests : phase[r] = "store" => ctx[r].list # {}
=============================================================================
