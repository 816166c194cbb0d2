--------------------------- MODULE DataPlaneProofs ---------------------------
(* The data plane.  The hot reload, alone and with the requests in flight,   *)
(* for any sites, settings, pushes and requests; and a backend's circuit     *)
(* breaker - its probes and its cooling period - for any number of request   *)
(* threads and every threshold.                                              *)
EXTENDS InFlight, CircuitBreaker, SumTheorems, TLAPS

-----------------------------------------------------------------------------
(* Type correctness *)

Owns == {c.own : c \in Confs}
Location ==
  [named : BOOLEAN, max : Nat, id : Nat, at : Nat, list : SUBSET Owns]
Context ==
  [site : Sites \cup {"none"}, location : Nat, version : Nat, list : SUBSET Owns]
IsConfig(c) == DOMAIN c \subseteq Sites /\ \A s \in DOMAIN c : c[s] \in Confs

TypeInv ==
  /\ IsConfig(sites) /\ IsConfig(config)
  /\ version \in Nat \ {0}
  /\ locations \in [DOMAIN locations -> Location] /\ DOMAIN locations \subseteq Sites
  /\ DOMAIN plugins \subseteq Sites /\ \A s \in DOMAIN plugins : plugins[s] \in Owns
  /\ phase \in [Requests -> {"none", "version", "cached", "get", "store"}]
  /\ ctx \in [Requests -> Context]
  /\ \A r \in Requests : phase[r] # "none" => ctx[r].site \in Sites

\* A site's settings make a location of their own.
LEMMA NewLocationType ==
  ASSUME NEW c \in Confs, NEW n \in Nat
  PROVE  NewLocation(c, n) \in Location /\ IsOf(NewLocation(c, n), c)
BY HotReloadAssumption DEF NewLocation, IsOf, Location

\* What a name resolves to is a set of plugins.
LEMMA ResolvedType ==
  ASSUME TypeInv, NEW s PROVE Resolved(s) \in SUBSET Owns
BY DEF TypeInv, Resolved

\* A configuration has plugins of its sites only.
LEMMA PluginsOfType ==
  ASSUME NEW c, IsConfig(c)
  PROVE  /\ DOMAIN PluginsOf(c) \subseteq Sites
         /\ \A s \in DOMAIN PluginsOf(c) : PluginsOf(c)[s] \in Owns
BY DEF IsConfig, PluginsOf, Owns

\* The providers are well typed when the proxy starts.
LEMMA InitType == Init => TypeInv
<1> SUFFICES ASSUME Init PROVE TypeInv
  OBVIOUS
<1>1. IsConfig(sites) /\ config = sites
  BY HotReloadAssumption DEF Init, IsConfig
<1>2. locations \in [DOMAIN locations -> Location] /\ DOMAIN locations \subseteq Sites
  BY <1>1, NewLocationType DEF Init, IsConfig
<1>3. DOMAIN plugins \subseteq Sites /\ \A s \in DOMAIN plugins : plugins[s] \in Owns
  BY <1>1, PluginsOfType DEF Init
<1>4. ctx \in [Requests -> Context]
  BY DEF Init, NoCtx, Context
<1>5. QED
  BY <1>1, <1>2, <1>3, <1>4 DEF Init, TypeInv

\* Every push leaves a configuration of sites.
LEMMA PushType ==
  ASSUME TypeInv, Pushes PROVE IsConfig(sites')
<1>1. ASSUME NEW s \in Sites, NEW c \in Confs, sites' = With(sites, s, c)
      PROVE  IsConfig(sites')
  BY <1>1 DEF TypeInv, IsConfig, With
<1>2. ASSUME NEW s \in DOMAIN sites, sites' = Restrict(sites, DOMAIN sites \ {s})
      PROVE  IsConfig(sites')
  BY <1>2 DEF TypeInv, IsConfig, Restrict
<1>3. QED
  BY <1>1, <1>2 DEF Pushes, Push

\* Every step of the watcher and of the requests keeps the types.
LEMMA NextType == TypeInv /\ [Next]_vars => TypeInv'
<1> SUFFICES ASSUME TypeInv, [Next]_vars PROVE TypeInv'
  OBVIOUS
<1> USE DEF cache, watcher, providers, requests, At
<1>1. CASE Pushes
  <2>1. UNCHANGED <<watcher, providers, requests>>
    BY <1>1 DEF Pushes, Push
  <2>2. QED
    BY <1>1, <2>1, PushType DEF TypeInv, IsConfig
<1>2. CASE Arm \/ Poll \/ Mark
  BY <1>2 DEF Arm, Poll, Mark, TypeInv, IsConfig
<1>3. CASE Build
  BY <1>3 DEF Build, TypeInv, IsConfig
<1>4. CASE InitUpstreams
  BY <1>4 DEF InitUpstreams, TypeInv, IsConfig
<1>5. CASE InitLocations
  <2>1. locations' \in [DOMAIN locations' -> Location] /\ DOMAIN locations' \subseteq Sites
    BY <1>5, NewLocationType DEF InitLocations, TypeInv, IsConfig
  <2>2. QED
    BY <1>5, <2>1 DEF InitLocations, TypeInv, IsConfig
<1>6. CASE InitRoutes
  BY <1>6 DEF InitRoutes, TypeInv, IsConfig
<1>7. CASE StorePlugins
  BY <1>7, PluginsOfType DEF StorePlugins, TypeInv, IsConfig
<1>8. CASE BumpVersion
  BY <1>8 DEF BumpVersion, TypeInv, IsConfig
<1>9. ASSUME NEW r \in Requests, NEW s \in Sites, Find(r, s) PROVE TypeInv'
  BY <1>9 DEF Find, Enter, NoCtx, Context, Location, TypeInv, IsConfig
<1>10. ASSUME NEW r \in Requests, PluginsFor(r) PROVE TypeInv'
  <2>1. CASE LoadVersion(r)
    BY <2>1 DEF LoadVersion, Enter, Context, TypeInv, IsConfig
  <2>2. CASE UseCached(r)
    <3>1. UNCHANGED <<cache, watcher, providers, missed>>
      BY <2>2 DEF UseCached
    <3>2. CASE Enter(r, "none", NoCtx)
      BY <3>1, <3>2 DEF Enter, NoCtx, Context, TypeInv, IsConfig
    <3>3. CASE Enter(r, "get", ctx[r])
      BY <2>2, <3>1, <3>3 DEF UseCached, Enter, Context, TypeInv, IsConfig
    <3>4. QED
      BY <2>2, <3>2, <3>3 DEF UseCached
  <2>3. CASE GetPlugins(r)
    BY <2>3, ResolvedType DEF GetPlugins, Enter, Context, TypeInv, IsConfig
  <2>4. CASE StoreList(r)
    <3>1. locations' \in [DOMAIN locations' -> Location] /\ DOMAIN locations' \subseteq Sites
      BY <2>4 DEF StoreList, Held, Stamp, Context, Location, TypeInv
    <3>2. QED
      BY <2>4, <3>1 DEF StoreList, Enter, NoCtx, Context, TypeInv, IsConfig
  <2>5. QED
    BY <1>10, <2>1, <2>2, <2>3, <2>4 DEF PluginsFor
<1>11. CASE UNCHANGED vars
  BY <1>11 DEF vars, TypeInv, IsConfig
<1>12. QED
  BY <1>1, <1>2, <1>3, <1>4, <1>5, <1>6, <1>7, <1>8, <1>9, <1>10, <1>11
     DEF Next, WatcherStep
-----------------------------------------------------------------------------
(* Lists of plugins and their stamps *)

\* No stamp is ahead of the provider's version, neither a location's nor the one
\* that a request carries; and outside the window between the store of the
\* plugins and the new version, whoever has the version has the list of it.
StampInv ==
  /\ \A s \in DOMAIN locations : locations[s].at <= version
  /\ \A r \in Requests : ctx[r].version <= version
  /\ StampFresh
  /\ pc # "bump" =>
       \A r \in Requests :
         phase[r] = "store" /\ ctx[r].version = version =>
           ctx[r].list = Resolved(ctx[r].site)

\* A location starts without a list.
LEMMA InitStamp == Init => StampInv
BY DEF Init, StampInv, StampFresh, NewLocation, NoCtx, Resolved

\* A request that takes a step leaves the others alone.
LEMMA EnterOne ==
  ASSUME TypeInv, NEW r \in Requests, NEW p, NEW c, Enter(r, p, c)
  PROVE  /\ phase'[r] = p /\ ctx'[r] = c
         /\ \A q \in Requests \ {r} : phase'[q] = phase[q] /\ ctx'[q] = ctx[q]
BY DEF TypeInv, Enter

\* No step of the watcher, of a push or of a request leaves a stale list under
\* the current version.
LEMMA NextStamp == TypeInv /\ StampInv /\ [Next]_vars => StampInv'
<1> SUFFICES ASSUME TypeInv, StampInv, [Next]_vars PROVE StampInv'
  OBVIOUS
<1> USE DEF cache, watcher, providers, requests, At
<1>0. 0 <= version /\ 0 # version /\ version <= version
  BY DEF TypeInv
<1>1. CASE Pushes
  <2>1. UNCHANGED <<watcher, providers, requests>>
    BY <1>1 DEF Pushes, Push
  <2>2. QED
    BY <2>1 DEF StampInv, StampFresh, Resolved
<1>2. CASE Arm \/ Poll \/ Mark
  BY <1>2 DEF Arm, Poll, Mark, StampInv, StampFresh, Resolved
<1>3. CASE Build
  BY <1>3 DEF Build, StampInv, StampFresh, Resolved
<1>4. CASE InitUpstreams
  BY <1>4 DEF InitUpstreams, StampInv, StampFresh, Resolved
<1>5. CASE InitLocations
  <2>1. ASSUME NEW s \in DOMAIN locations'
        PROVE  \/ s \in DOMAIN locations /\ locations'[s] = locations[s]
               \/ locations'[s].at = 0
    BY <1>5 DEF InitLocations, NewLocation
  <2>2. UNCHANGED <<plugins, version, requests>> /\ pc' # "bump" /\ pc # "bump"
    BY <1>5 DEF InitLocations
  <2>3. \A s \in DOMAIN locations' : locations'[s].at <= version
    BY <1>0, <2>1 DEF StampInv
  <2>4. \A s \in DOMAIN locations' :
          locations'[s].at = version => locations'[s].list = Resolved(s)
    BY <1>0, <2>1, <2>2 DEF StampInv, StampFresh
  <2>5. QED
    BY <2>2, <2>3, <2>4 DEF StampInv, StampFresh, Resolved
<1>6. CASE InitRoutes
  BY <1>6 DEF InitRoutes, StampInv, StampFresh, Resolved
<1>7. CASE StorePlugins
  BY <1>7 DEF StorePlugins, StampInv, StampFresh
<1>8. CASE BumpVersion
  <2>1. /\ \A s \in DOMAIN locations : locations[s].at < version'
        /\ \A r \in Requests : ctx[r].version < version'
    BY <1>8 DEF BumpVersion, TypeInv, StampInv, Location, Context
  <2>2. QED
    BY <1>8, <2>1 DEF BumpVersion, TypeInv, StampInv, StampFresh, Location, Context
<1>9. ASSUME NEW r \in Requests, NEW s \in Sites, Find(r, s) PROVE StampInv'
  <2>1. /\ phase'[r] = "version" /\ ctx'[r].version = 0
        /\ \A q \in Requests \ {r} : phase'[q] = phase[q] /\ ctx'[q] = ctx[q]
    BY <1>9 DEF Find, Enter, NoCtx, TypeInv
  <2>2. UNCHANGED <<watcher, providers>>
    BY <1>9 DEF Find
  <2>3. QED
    BY <1>0, <2>1, <2>2 DEF StampInv, StampFresh, Resolved
<1>10. ASSUME NEW r \in Requests, PluginsFor(r) PROVE StampInv'
  <2>1. CASE LoadVersion(r)
    <3>1. /\ phase'[r] = "cached" /\ ctx'[r].version = version
          /\ \A q \in Requests \ {r} : phase'[q] = phase[q] /\ ctx'[q] = ctx[q]
      BY <2>1, EnterOne DEF LoadVersion, Context, TypeInv
    <3>2. QED
      BY <1>0, <2>1, <3>1 DEF LoadVersion, StampInv, StampFresh, Resolved
  <2>2. CASE UseCached(r)
    <3>1. UNCHANGED <<cache, watcher, providers, missed>>
      BY <2>2 DEF UseCached
    <3>2. CASE Enter(r, "none", NoCtx)
      <4>1. /\ phase'[r] = "none" /\ ctx'[r].version = 0
            /\ \A q \in Requests \ {r} : phase'[q] = phase[q] /\ ctx'[q] = ctx[q]
        BY <3>2, EnterOne DEF NoCtx
      <4>2. QED
        BY <1>0, <3>1, <4>1 DEF StampInv, StampFresh, Resolved
    <3>3. CASE Enter(r, "get", ctx[r])
      BY <3>1, <3>3 DEF Enter, Context, TypeInv, StampInv, StampFresh, Resolved
    <3>4. QED
      BY <2>2, <3>2, <3>3 DEF UseCached
  <2>3. CASE GetPlugins(r)
    BY <2>3, ZenonT(60) DEF GetPlugins, Enter, Context, TypeInv, StampInv, StampFresh, Resolved
  <2>4. CASE StoreList(r)
    <3>1. UNCHANGED <<watcher, plugins, version>> /\ phase[r] = "store"
      BY <2>4 DEF StoreList
    <3>2. ASSUME NEW q \in Requests
          PROVE  (q # r /\ phase'[q] = phase[q] /\ ctx'[q] = ctx[q])
                   \/ (phase'[q] = "none" /\ ctx'[q].version = 0)
      BY <2>4 DEF StoreList, Enter, NoCtx, TypeInv
    <3>3. ASSUME NEW s \in DOMAIN locations'
          PROVE  /\ s \in DOMAIN locations
                 /\ \/ locations'[s] = locations[s]
                    \/ /\ s = ctx[r].site
                       /\ locations'[s].at = ctx[r].version
                       /\ locations'[s].list = ctx[r].list
      BY <2>4 DEF StoreList, Held, Stamp, Location, TypeInv
    <3>4. QED
      BY <1>0, <3>1, <3>2, <3>3, ZenonT(60) DEF StampInv, StampFresh, Resolved
  <2>5. QED
    BY <1>10, <2>1, <2>2, <2>3, <2>4 DEF PluginsFor
<1>11. CASE UNCHANGED vars
  BY <1>11 DEF vars, StampInv, StampFresh, Resolved
<1>12. QED
  BY <1>1, <1>2, <1>3, <1>4, <1>5, <1>6, <1>7, <1>8, <1>9, <1>10, <1>11
     DEF Next, WatcherStep

-----------------------------------------------------------------------------
(* What the watcher serves *)

\* The upstreams, the locations, the routes and the plugins are those of the
\* watcher's configuration, each from its own step of the reload on, if it can
\* be built.
ServeInv ==
  /\ pc # "upstreams" /\ Whole(config) =>
       /\ DOMAIN upstreams = DOMAIN config
       /\ \A s \in DOMAIN config : upstreams[s].key = config[s].up
  /\ pc \notin {"upstreams", "locations"} =>
       /\ DOMAIN locations = DOMAIN config
       /\ \A s \in DOMAIN config : IsOf(locations[s], config[s])
  /\ pc \notin {"upstreams", "locations", "routes"} => routes = DOMAIN config
  /\ pc \notin {"upstreams", "locations", "routes", "plugins"} => plugins = PluginsOf(config)

\* The watcher has built from the cache if it is going to find no other hash in
\* it, unless a push was missed.
NoticeInv ==
  ~missed =>
    /\ pc = "arm" => sites = config
    /\ pc \notin {"arm", "build"} /\ hash = DueHash => sites = config \/ DOMAIN sites = {}

\* The providers are initialised from the sites that the cache holds.
LEMMA InitServe == Init => ServeInv /\ NoticeInv
<1> SUFFICES ASSUME Init PROVE ServeInv /\ NoticeInv
  OBVIOUS
<1>1. IsConfig(sites)
  BY HotReloadAssumption DEF Init, IsConfig
<1>2. \A s \in DOMAIN sites : IsOf(NewLocation(sites[s], 0), sites[s])
  BY <1>1, NewLocationType DEF IsConfig
<1>3. QED
  BY <1>2 DEF Init, ServeInv, NoticeInv, NewUpstream

\* try_init_upstreams, where it builds: each hash has one upstream, which is of
\* that hash, and is an old one if a name has kept it.
LEMMA UpstreamsBuilt ==
  ASSUME InitUpstreams, FreshKeys \cap Broken = {}
  PROVE  /\ DOMAIN upstreams' = DOMAIN config
         /\ \A s \in DOMAIN config :
              /\ upstreams'[s].key = config[s].up
              /\ config[s].up \notin FreshKeys => upstreams'[s] \in Seeds(config[s].up)
         /\ \A s, u \in DOMAIN config :
              config[s].up = config[u].up => upstreams'[s] = upstreams'[u]
<1> DEFINE Shared(first, k) == IF k \in FreshKeys THEN NewUpstream(k, first[k], version)
                               ELSE CHOOSE u \in Seeds(k) : TRUE
<1>1. PICK first \in [FreshKeys -> DOMAIN config] :
        upstreams' = [s \in DOMAIN config |-> Shared(first, config[s].up)]
  BY DEF InitUpstreams
<1>2. ASSUME NEW s \in DOMAIN config, config[s].up \notin FreshKeys
      PROVE  (CHOOSE u \in Seeds(config[s].up) : TRUE) \in Seeds(config[s].up)
  BY <1>2 DEF FreshKeys, Keys
<1>3. \A k : \A u \in Seeds(k) : u.key = k
  BY DEF Seeds
<1>4. ASSUME NEW s \in DOMAIN config
      PROVE  /\ upstreams'[s].key = config[s].up
             /\ config[s].up \notin FreshKeys => upstreams'[s] \in Seeds(config[s].up)
  <2>1. CASE config[s].up \in FreshKeys
    BY <1>1, <2>1 DEF NewUpstream
  <2>2. CASE config[s].up \notin FreshKeys
    <3>1. upstreams'[s] = CHOOSE u \in Seeds(config[s].up) : TRUE
      BY <1>1, <2>2
    <3>2. QED
      BY <1>2, <1>3, <2>2, <3>1
  <2>3. QED
    BY <2>1, <2>2
<1>5. ASSUME NEW s \in DOMAIN config, NEW u \in DOMAIN config, config[s].up = config[u].up
      PROVE  upstreams'[s] = upstreams'[u]
  <2> HIDE DEF Shared
  <2>1. QED
    BY <1>1, <1>5, Zenon
<1>6. QED
  BY <1>1, <1>4, <1>5

\* Every step of the reload puts its provider in step with the configuration.
LEMMA NextServe == TypeInv /\ ServeInv /\ [Next]_vars => ServeInv'
<1> SUFFICES ASSUME TypeInv, ServeInv, [Next]_vars PROVE ServeInv'
  OBVIOUS
<1> USE DEF cache, watcher, providers, requests, At
<1>1. CASE Pushes
  <2>1. UNCHANGED <<watcher, providers>>
    BY <1>1 DEF Pushes, Push
  <2>2. QED
    BY <2>1 DEF ServeInv, IsOf, Whole, PluginsOf
<1>2. CASE Arm \/ Poll \/ Mark
  BY <1>2 DEF Arm, Poll, Mark, ServeInv, IsOf, Whole, PluginsOf
<1>3. CASE Build
  BY <1>3 DEF Build, ServeInv, IsOf, Whole, PluginsOf
<1>4. CASE InitUpstreams
  <2>1. UNCHANGED config /\ pc' = "locations"
    BY <1>4 DEF InitUpstreams
  <2>2. Whole(config) => FreshKeys \cap Broken = {}
    BY DEF FreshKeys, Keys, Whole
  <2>3. QED
    BY <1>4, <2>1, <2>2, UpstreamsBuilt DEF ServeInv, Whole
<1>5. CASE InitLocations
  <2>1. \A s \in DOMAIN config : IsOf(NewLocation(config[s], version), config[s])
    BY NewLocationType DEF TypeInv, IsConfig
  <2>2. /\ DOMAIN locations' = DOMAIN config
        /\ \A s \in DOMAIN config : IsOf(locations'[s], config[s])
    BY <1>5, <2>1 DEF InitLocations
  <2>3. QED
    BY <1>5, <2>2 DEF InitLocations, ServeInv, IsOf, Whole
<1>6. CASE InitRoutes
  BY <1>6 DEF InitRoutes, ServeInv, IsOf, Whole
<1>7. CASE StorePlugins
  BY <1>7 DEF StorePlugins, ServeInv, IsOf, Whole, PluginsOf
<1>8. CASE BumpVersion
  BY <1>8 DEF BumpVersion, ServeInv, IsOf, Whole, PluginsOf
<1>9. ASSUME NEW r \in Requests, NEW s \in Sites, Find(r, s) PROVE ServeInv'
  BY <1>9 DEF Find, ServeInv, IsOf, Whole, PluginsOf
<1>10. ASSUME NEW r \in Requests, PluginsFor(r) PROVE ServeInv'
  <2>1. UNCHANGED <<watcher, upstreams, routes, plugins>>
    BY <1>10 DEF PluginsFor, LoadVersion, UseCached, GetPlugins, StoreList
  <2>2. /\ DOMAIN locations' = DOMAIN locations
        /\ \A s \in DOMAIN locations :
             /\ locations'[s].named = locations[s].named
             /\ locations'[s].max = locations[s].max
    BY <1>10 DEF PluginsFor, LoadVersion, UseCached, GetPlugins, StoreList, TypeInv, Location
  <2>3. QED
    BY <2>1, <2>2 DEF ServeInv, IsOf, Whole, PluginsOf
<1>11. CASE UNCHANGED vars
  BY <1>11 DEF vars, ServeInv, IsOf, Whole, PluginsOf
<1>12. QED
  BY <1>1, <1>2, <1>3, <1>4, <1>5, <1>6, <1>7, <1>8, <1>9, <1>10, <1>11
     DEF Next, WatcherStep

\* A push is either missed or changes the hash that the watcher looks for.
LEMMA NextNotice == NoticeInv /\ [Next]_vars => NoticeInv'
<1> SUFFICES ASSUME NoticeInv, [Next]_vars PROVE NoticeInv'
  OBVIOUS
<1> USE DEF cache, watcher, providers, requests, At, DueHash
<1>1. CASE Pushes
  <2>1. PICK c : Push(c)
    BY <1>1 DEF Pushes
  <2>2. QED
    BY <2>1 DEF Push, NoticeInv
<1>2. CASE WatcherStep
  BY <1>2 DEF WatcherStep, Arm, Poll, Build, InitUpstreams, InitLocations, InitRoutes,
              StorePlugins, BumpVersion, Mark, NoticeInv
<1>3. ASSUME NEW r \in Requests, (\E s \in Sites : Find(r, s)) \/ PluginsFor(r)
      PROVE  NoticeInv'
  <2>1. UNCHANGED <<cache, watcher, missed>>
    BY <1>3 DEF Find, PluginsFor, LoadVersion, UseCached, GetPlugins, StoreList
  <2>2. QED
    BY <2>1 DEF NoticeInv
<1>4. CASE UNCHANGED vars
  BY <1>4 DEF vars, NoticeInv
<1>5. QED
  BY <1>1, <1>2, <1>3, <1>4 DEF Next

ReloadInv == TypeInv /\ StampInv /\ ServeInv /\ NoticeInv

\* The whole of it is inductive.
THEOREM ReloadInductive == Spec => []ReloadInv
<1>1. Init => ReloadInv
  BY InitType, InitStamp, InitServe DEF ReloadInv
<1>2. ReloadInv /\ [Next]_vars => ReloadInv'
  BY NextType, NextStamp, NextServe, NextNotice DEF ReloadInv
<1>3. QED
  BY <1>1, <1>2, PTL DEF Spec

-----------------------------------------------------------------------------
(* The requests of InFlight, and the results *)

\* InFlight changes the data plane as HotReload does or not at all: what the
\* proxy counts has no say in what it serves.
THEOREM FlightRefines == FlightSpec => Spec
<1>1. FlightInit => Init
  BY DEF FlightInit
<1>2. ASSUME [FlightNext]_allVars PROVE [Next]_vars
  <2>1. ASSUME NEW r \in Requests, NEW s \in Sites, Locate(r, s) PROVE [Next]_vars
    <3>1. Find(r, s) \/ UNCHANGED vars
      BY <2>1 DEF Locate
    <3>2. QED
      BY <3>1 DEF Next
  <2>2. ASSUME NEW r \in Requests,
               UpstreamPeer(r) \/ FailToConnect(r) \/ ReusedFails(r) \/ Logging(r)
        PROVE  UNCHANGED vars
    BY <2>2 DEF UpstreamPeer, FailToConnect, ReusedFails, Retries, Logging
  <2>3. CASE FlightNext
    BY <2>1, <2>2, <2>3 DEF FlightNext, Next
  <2>4. CASE UNCHANGED allVars
    BY <2>4 DEF allVars
  <2>5. QED
    BY <1>2, <2>3, <2>4
<1>3. QED
  BY <1>1, <1>2, PTL DEF FlightSpec, Spec

\* plugins_for never keeps a stale list (StampFresh), whatever the order in which
\* any number of requests read the version, resolve and store, and however many
\* reloads they span.
THEOREM ListsFresh == FlightSpec => []StampFresh
<1>1. ReloadInv => StampFresh
  BY DEF ReloadInv, StampInv
<1>2. QED
  BY <1>1, FlightRefines, ReloadInductive, PTL

\* The watcher is content only with what it serves (ReloadComplete), for any
\* sites, settings and pushes.
THEOREM ReloadsComplete == FlightSpec => []ReloadComplete
<1>1. ReloadInv => ReloadComplete
  <2> SUFFICES ASSUME ReloadInv, pc = "sleep", hash = lastHash, ~missed, DOMAIN sites # {},
                      Whole(sites)
               PROVE  Serves(sites)
    BY DEF ReloadComplete
  <2>1. sites = config
    BY DEF ReloadInv, NoticeInv, DueHash
  <2>2. QED
    BY <2>1 DEF ReloadInv, ServeInv, Serves
<1>2. QED
  BY <1>1, FlightRefines, ReloadInductive, PTL

\* A reload never builds an upstream again whose settings did not change, and
\* aliases share theirs (UnchangedKept).
THEOREM UpstreamsKept == FlightSpec => UnchangedKept
<1>1. ASSUME [Next]_vars, pc = "upstreams", pc' = "locations", FreshKeys \cap Broken = {}
      PROVE  /\ \A s \in DOMAIN upstreams \cap DOMAIN config :
                  config[s].up = upstreams[s].key => upstreams'[s] \in Range(upstreams)
             /\ \A s, u \in DOMAIN config :
                  config[s].up = config[u].up => upstreams'[s] = upstreams'[u]
  <2>1. InitUpstreams
    <3>1. ~Pushes /\ ~UNCHANGED vars
      BY <1>1 DEF Pushes, Push, vars, watcher
    <3>2. ~\E r \in Requests : (\E s \in Sites : Find(r, s)) \/ PluginsFor(r)
      BY <1>1 DEF Find, PluginsFor, LoadVersion, UseCached, GetPlugins, StoreList, watcher
    <3>3. WatcherStep
      BY <1>1, <3>1, <3>2 DEF Next
    <3>4. QED
      BY <1>1, <3>3 DEF WatcherStep, At, Arm, Poll, Build, InitLocations, InitRoutes,
                        StorePlugins, BumpVersion, Mark
  <2>2. ASSUME NEW s \in DOMAIN upstreams \cap DOMAIN config, config[s].up = upstreams[s].key
        PROVE  upstreams'[s] \in Range(upstreams)
    <3>1. upstreams[s] \in Seeds(config[s].up)
      BY <2>2 DEF Seeds
    <3>2. upstreams'[s] \in Seeds(config[s].up)
      BY <1>1, <2>1, <3>1, UpstreamsBuilt DEF FreshKeys
    <3>3. QED
      BY <3>2 DEF Seeds, Range
  <2>3. QED
    BY <1>1, <2>1, <2>2, UpstreamsBuilt
<1>2. Spec => UnchangedKept
  BY <1>1, PTL DEF Spec, UnchangedKept
<1>3. QED
  BY <1>2, FlightRefines, PTL

-----------------------------------------------------------------------------
(* Counting the requests in flight *)

Ups == {c.up : c \in Confs}
Upstream == [key : Ups, name : Sites, reload : Nat]
Trips ==
  [at : {"home", "located", "rejected", "connect", "retry", "failed", "over"},
   location : (Sites \cup {"none"}) \X Nat, max : Nat, name : Sites \cup {"none"},
   upstream : Upstream \cup {NoUpstream}, held : Backends \cup {NoBackend},
   retries : Nat, attempts : Nat, counter : Upstream \cup {NoUpstream}]

\* What a counter maps is integers, to begin with.
Counter(f) == \A k \in DOMAIN f : f[k] \in Int

FlightType ==
  /\ trip \in [Requests -> Trips] /\ upstreams \in [DOMAIN upstreams -> Upstream]
  /\ DOMAIN upstreams \subseteq Sites
  /\ Counter(inLocation) /\ Counter(inUpstream) /\ Counter(inBackend)
  /\ IsFiniteSet(DOMAIN inUpstream)
  /\ DOMAIN inUpstream \subseteq Upstream /\ DOMAIN inBackend \subseteq Upstream \X Backends

\* A request that is counted at a backend was counted by an upstream, and has
\* another now only if both are crossed.
TripInv ==
  \A r \in Requests : LET q == trip[r] IN
    /\ Flying(r) => q.location[1] \in Sites
    /\ q.held = NoBackend <=> q.counter = NoUpstream
    /\ q.at \in {"home", "over", "located", "rejected"} => q.held = NoBackend
    /\ q.held # NoBackend =>
         /\ q.upstream # NoUpstream
         /\ q.upstream # q.counter => {q.upstream, q.counter} \subseteq crossed

\* A reload gives the locations it builds a number that none has yet.
Older(n) == n < version \/ (n = version /\ pc \in {"routes", "plugins", "bump"})

\* Requests in the same location, told by its site and number, know the same
\* limit, and so does the location if it is still there.
LocationInv ==
  /\ \A s \in DOMAIN locations : Older(locations[s].id)
  /\ \A r \in Requests : Flying(r) =>
       /\ Older(trip[r].location[2])
       /\ LET s == trip[r].location[1] IN
          s \in DOMAIN locations /\ locations[s].id = trip[r].location[2] =>
            locations[s].max = trip[r].max
  /\ \A r, q \in Requests :
       Flying(r) /\ Flying(q) /\ trip[r].location = trip[q].location =>
         trip[r].max = trip[q].max

Here(l) == {r \in Requests : Flying(r) /\ trip[r].location = l}
Admitted(l) == {r \in Here(l) : trip[r].at # "rejected"}
HeldAt(u, b) == {r \in CountedBy(u) : trip[r].held = b}
Holding == {r \in Requests : trip[r].held # NoBackend}

\* InFlightExact, of all locations and upstreams.
LocationCount == \A l : Count(inLocation, l) = Cardinality(Here(l))
LimitKept == \A l : \A r \in Here(l) : trip[r].max # 0 => Cardinality(Admitted(l)) <= trip[r].max
UpstreamCount ==
  \A u : u \notin crossed /\ u # NoUpstream =>
    /\ Count(inUpstream, u) = Cardinality(CountedBy(u))
    /\ \A b \in Backends : Count(inBackend, <<u, b>>) = Cardinality(HeldAt(u, b))
HoldingCount == SumFunction(inUpstream) = Cardinality(Holding)

FlightInv ==
  /\ FlightType /\ TripInv /\ LocationInv
  /\ LocationCount /\ LimitKept /\ UpstreamCount /\ HoldingCount

\* A change of a counter touches no other key.
LEMMA CountDomain ==
  ASSUME NEW f, NEW k, NEW n, NEW D, DOMAIN f \subseteq D, k \in D
  PROVE  DOMAIN Add(f, k, n) \subseteq D /\ DOMAIN With(f, k, n) \subseteq D
BY DEF Add, With, Restrict

\* What is counted is an integer.
LEMMA CountType ==
  ASSUME NEW f, Counter(f), NEW k
  PROVE  /\ Count(f, k) \in Int
         /\ Count(f, k) + 1 \in Int
         /\ Count(f, k) - 1 \in Int
BY DEF Counter, Count

\* A counter after a change.
LEMMA CountAdd ==
  ASSUME NEW f, Counter(f), NEW k, NEW n \in Int
  PROVE  /\ Counter(Add(f, k, n))
         /\ \A j : Count(Add(f, k, n), j) = IF j = k THEN Count(f, k) + n ELSE Count(f, j)
         /\ \A j : Count(f, j) \in Int
<1>1. \A j : Count(f, j) \in Int
  BY DEF Counter, Count
<1>2. CASE Count(f, k) + n = 0
  <2>1. Add(f, k, n) = [x \in DOMAIN f \ {k} |-> f[x]]
    BY <1>2 DEF Add, Restrict
  <2>2. QED
    BY <1>1, <1>2, <2>1 DEF Counter, Count
<1>3. CASE Count(f, k) + n # 0
  <2>1. PICK m \in Int : m = Count(f, k) + n
    BY <1>1
  <2>2. Add(f, k, n) = [x \in DOMAIN f \cup {k} |-> IF x = k THEN m ELSE f[x]]
    BY <1>3, <2>1 DEF Add, With
  <2>3. Counter(Add(f, k, n))
    BY <2>2 DEF Counter
  <2>4. ASSUME NEW j
        PROVE  Count(Add(f, k, n), j) = IF j = k THEN Count(f, k) + n ELSE Count(f, j)
    BY <2>1, <2>2 DEF Count
  <2>5. QED
    BY <1>1, <2>3, <2>4
<1>4. QED
  BY <1>2, <1>3

LEMMA CountWith ==
  ASSUME NEW f, Counter(f), NEW k, NEW n \in Int
  PROVE  /\ Counter(With(f, k, n))
         /\ \A j : Count(With(f, k, n), j) = IF j = k THEN n ELSE Count(f, j)
<1>1. With(f, k, n) = [x \in DOMAIN f \cup {k} |-> IF x = k THEN n ELSE f[x]]
  BY DEF With
<1>2. Counter(With(f, k, n))
  BY <1>1 DEF Counter
<1>3. ASSUME NEW j PROVE Count(With(f, k, n), j) = IF j = k THEN n ELSE Count(f, j)
  BY <1>1 DEF Count
<1>4. QED
  BY <1>2, <1>3

\* A counter's sum changes by what is added.
LEMMA SumAdd ==
  ASSUME NEW f, Counter(f), IsFiniteSet(DOMAIN f), NEW k, NEW n \in Int
  PROVE  /\ IsFiniteSet(DOMAIN Add(f, k, n))
         /\ SumFunction(Add(f, k, n)) = SumFunction(f) + n
<1> DEFINE g == Add(f, k, n)
           R == DOMAIN f \ {k}
<1>1. IsFiniteSet(R) /\ (\A x \in R : f[x] \in Int) /\ SumFunctionOnSet(f, R) \in Int
  <2>1. IsFiniteSet(R) /\ (\A x \in R : f[x] \in Int)
    BY FS_Subset DEF Counter
  <2>2. QED
    BY <2>1, SumType
<1>2. SumFunctionOnSet(f, DOMAIN f) = Count(f, k) + SumFunctionOnSet(f, R)
  <2>1. CASE k \in DOMAIN f
    BY <2>1, SumSplit DEF Counter, Count
  <2>2. CASE k \notin DOMAIN f
    <3>1. R = DOMAIN f
      BY <2>2
    <3>2. Count(f, k) = 0
      BY <2>2 DEF Count
    <3>3. QED
      BY <1>1, <3>1, <3>2
  <2>3. QED
    BY <2>1, <2>2
<1>3. Count(f, k) \in Int
  BY DEF Counter, Count
<1>4. CASE Count(f, k) + n = 0
  <2>1. g = [x \in R |-> f[x]]
    BY <1>4 DEF Add, Restrict
  <2>2. DOMAIN g = R /\ \A x \in R : g[x] = f[x]
    BY <2>1
  <2>3. SumFunctionOnSet(g, R) = SumFunctionOnSet(f, R)
    BY <1>1, <2>2, SumSame
  <2> HIDE DEF g, R
  <2>4. SumFunction(g) = SumFunction(f) + n
    BY <1>1, <1>2, <1>3, <1>4, <2>2, <2>3 DEF SumFunction
  <2>5. QED
    BY <1>1, <2>2, <2>4 DEF g
<1>5. CASE Count(f, k) + n # 0
  <2>1. PICK m \in Int : m = Count(f, k) + n
    BY <1>3
  <2>2. g = [x \in DOMAIN f \cup {k} |-> IF x = k THEN m ELSE f[x]]
    BY <1>5, <2>1 DEF Add, With
  <2>3. /\ DOMAIN g = R \cup {k} /\ k \notin R /\ g[k] = m /\ (\A x \in R : g[x] = f[x])
        /\ DOMAIN g \ {k} = R
    BY <2>2
  <2>4. IsFiniteSet(DOMAIN g) /\ \A x \in DOMAIN g : g[x] \in Int
    BY <1>1, <2>1, <2>3, FS_AddElement
  <2>5. SumFunctionOnSet(g, DOMAIN g) = g[k] + SumFunctionOnSet(g, R)
    <3>1. k \in DOMAIN g
      BY <2>3
    <3> HIDE DEF g, R
    <3>2. SumFunctionOnSet(g, DOMAIN g) = g[k] + SumFunctionOnSet(g, DOMAIN g \ {k})
      BY <2>4, <3>1, SumSplit
    <3>3. QED
      BY <2>3, <3>2
  <2>6. SumFunctionOnSet(g, R) = SumFunctionOnSet(f, R)
    BY <1>1, <2>3, SumSame
  <2> HIDE DEF g, R
  <2>7. SumFunction(g) = SumFunction(f) + n
    BY <1>1, <1>2, <1>3, <2>1, <2>3, <2>5, <2>6 DEF SumFunction
  <2>8. QED
    BY <2>4, <2>7 DEF g
<1>6. QED
  BY <1>4, <1>5

\* A set of requests that one more joins, or that one leaves.
LEMMA Joins ==
  ASSUME NEW S \in SUBSET Requests, NEW T, NEW r \in Requests
  PROVE  /\ Cardinality(S) \in Nat
         /\ r \notin S /\ T = S \cup {r} => Cardinality(T) = Cardinality(S) + 1
         /\ r \in S /\ T = S \ {r} => Cardinality(T) = Cardinality(S) - 1
<1>1. IsFiniteSet(S)
  BY InFlightAssumption, FS_Subset
<1>2. QED
  BY <1>1, FS_AddElement, FS_RemoveElement, FS_CardinalityType

\* Nothing is in flight at first.
LEMMA InitFlight == FlightInit => FlightInv
<1> SUFFICES ASSUME FlightInit PROVE FlightInv
  OBVIOUS
<1>1. TypeInv /\ trip = [r \in Requests |-> Home] /\ inLocation = <<>> /\ inUpstream = <<>>
      /\ inBackend = <<>> /\ crossed = {}
  BY InitType DEF FlightInit
<1>2. Home \in Trips
  BY DEF Home, Trips
<1>3. upstreams \in [DOMAIN upstreams -> Upstream] /\ DOMAIN upstreams \subseteq Sites
  BY <1>1 DEF FlightInit, Init, TypeInv, IsConfig, NewUpstream, Upstream, Ups
<1>4. DOMAIN <<>> = {}
  OBVIOUS
<1>5. FlightType
  BY <1>1, <1>2, <1>3, <1>4, FS_EmptySet DEF FlightType, Counter
<1>6. \A r \in Requests : ~Flying(r) /\ trip[r].held = NoBackend /\ trip[r].counter = NoUpstream
  BY <1>1 DEF Flying, Home
<1>7. TripInv
  BY <1>6 DEF TripInv
<1>8. LocationInv
  BY <1>6 DEF LocationInv, Older, FlightInit, Init, NewLocation
<1>9. (\A l : Here(l) = {} /\ Admitted(l) = {}) /\ (\A u : CountedBy(u) = {}) /\ Holding = {}
  BY <1>6 DEF Here, Admitted, CountedBy, Holding
<1>10. \A u, b : HeldAt(u, b) = {}
  BY <1>9 DEF HeldAt
<1>11. \A k : Count(inLocation, k) = 0 /\ Count(inUpstream, k) = 0 /\ Count(inBackend, k) = 0
  BY <1>1, <1>4 DEF Count
<1>12. LocationCount /\ LimitKept /\ UpstreamCount
  BY <1>9, <1>10, <1>11, FS_EmptySet DEF LocationCount, LimitKept, UpstreamCount
<1>13. HoldingCount
  BY <1>1, <1>4, <1>9, FS_EmptySet, SumEmpty DEF HoldingCount, SumFunction
<1>14. QED
  BY <1>5, <1>7, <1>8, <1>12, <1>13 DEF FlightInv

\* The counts do not change with what the reload does.
LEMMA CountsStay ==
  ASSUME FlightInv, UNCHANGED flight
  PROVE  TripInv' /\ LocationCount' /\ LimitKept' /\ UpstreamCount' /\ HoldingCount'
<1> USE DEF flight
<1>1. \A r \in Requests : Flying(r)' = Flying(r)
  BY DEF Flying
<1>2. TripInv'
  BY DEF FlightInv, TripInv, Flying
<1>3. /\ \A l : Here(l)' = Here(l) /\ Admitted(l)' = Admitted(l)
      /\ \A u : CountedBy(u)' = CountedBy(u)
      /\ \A u, b : HeldAt(u, b)' = HeldAt(u, b)
      /\ Holding' = Holding
  BY DEF Here, Admitted, CountedBy, HeldAt, Holding, Flying
<1>4. LocationCount' /\ LimitKept'
  BY <1>3 DEF FlightInv, LocationCount, LimitKept
<1>5. UpstreamCount' /\ HoldingCount'
  BY <1>3 DEF FlightInv, UpstreamCount, HoldingCount
<1>6. QED
  BY <1>2, <1>4, <1>5

\* The steps of the data plane.
LEMMA PlaneFlight ==
  ASSUME TypeInv, FlightInv, UNCHANGED flight,
         Pushes \/ WatcherStep \/ (\E r \in Requests : PluginsFor(r)) \/ UNCHANGED vars
  PROVE  FlightInv'
<1> USE DEF flight, cache, watcher, providers, requests, At
<1>0. \A r \in Requests : Flying(r)' = Flying(r)
  BY DEF Flying
<1>00. FlightType /\ LocationInv
  BY DEF FlightInv
<1>1. upstreams' \in [DOMAIN upstreams' -> Upstream] /\ DOMAIN upstreams' \subseteq Sites
  <2>1. CASE InitUpstreams
    <3>1. PICK first \in [FreshKeys -> DOMAIN config] :
            LET Shared(k) == IF k \in FreshKeys THEN NewUpstream(k, first[k], version)
                             ELSE CHOOSE u \in Seeds(k) : TRUE IN
            upstreams' = IF FreshKeys \cap Broken # {} THEN upstreams
                         ELSE [s \in DOMAIN config |-> Shared(config[s].up)]
      BY <2>1 DEF InitUpstreams
    <3>2. ASSUME NEW k \in FreshKeys PROVE NewUpstream(k, first[k], version) \in Upstream
      <4>1. k \in Ups /\ first[k] \in Sites /\ version \in Nat
        BY <3>1 DEF FreshKeys, Keys, Ups, TypeInv, IsConfig
      <4>2. QED
        BY <4>1 DEF NewUpstream, Upstream
    <3>3. ASSUME NEW k, k \in Keys, k \notin FreshKeys
          PROVE  (CHOOSE u \in Seeds(k) : TRUE) \in Upstream
      <4>1. Seeds(k) # {} /\ Seeds(k) \subseteq Upstream
        BY <1>00, <3>3 DEF FreshKeys, Seeds, FlightType
      <4>2. QED
        BY <4>1
    <3>4. DOMAIN config \subseteq Sites /\ \A s \in DOMAIN config : config[s].up \in Keys
      BY DEF TypeInv, IsConfig, Keys
    <3>5. QED
      BY <1>00, <3>1, <3>2, <3>3, <3>4 DEF FlightType
  <2>2. CASE ~InitUpstreams
    <3>1. UNCHANGED upstreams
      BY <2>2 DEF WatcherStep, Arm, Poll, Build, InitLocations, InitRoutes, StorePlugins,
                  BumpVersion, Mark, Pushes, Push, PluginsFor, LoadVersion, UseCached,
                  GetPlugins, StoreList, vars
    <3>2. QED
      BY <1>00, <3>1 DEF FlightType
  <2>3. QED
    BY <2>1, <2>2
<1>2. FlightType'
  BY <1>00, <1>1 DEF FlightType, Counter
<1>3. LocationInv'
  <2>1. CASE InitLocations
    <3>1. ASSUME NEW n \in Nat, Older(n) PROVE n < version /\ Older(n)'
      BY <2>1, <3>1 DEF InitLocations, Older, TypeInv
    <3>2. ASSUME NEW s \in DOMAIN locations'
          PROVE  /\ Older(locations[s].id)'
                 /\ \/ s \in DOMAIN locations /\ locations'[s] = locations[s]
                    \/ locations'[s].id = version
      <4>1. CASE s \in DOMAIN locations /\ locations'[s] = locations[s]
        BY <1>00, <3>1, <4>1 DEF LocationInv, TypeInv, Location
      <4>2. CASE locations'[s] = NewLocation(config[s], version)
        BY <2>1, <4>2 DEF InitLocations, NewLocation, Older
      <4>3. QED
        BY <2>1, <3>2, <4>1, <4>2 DEF InitLocations
    <3>3. ASSUME NEW r \in Requests, Flying(r)
          PROVE  /\ Older(trip[r].location[2])' /\ trip'[r].location[2] < version
                 /\ trip'[r] = trip[r] /\ trip[r].location[2] \in Nat
      <4>1. trip[r].location[2] \in Nat
        BY <1>00 DEF FlightType, Trips
      <4>2. QED
        BY <1>00, <3>1, <3>3, <4>1 DEF LocationInv
    <3>4. ASSUME NEW r \in Requests, Flying(r), NEW s \in DOMAIN locations',
                 s = trip[r].location[1], locations'[s].id = trip[r].location[2]
          PROVE  locations'[s].max = trip[r].max
      <4>1. locations'[s].id # version
        BY <3>3, <3>4 DEF TypeInv
      <4>2. QED
        BY <1>00, <3>2, <3>4, <4>1 DEF LocationInv
    <3>5. QED
      BY <1>0, <1>00, <3>2, <3>3, <3>4 DEF LocationInv
  <2>2. CASE BumpVersion
    <3>1. ASSUME NEW n \in Nat, Older(n) PROVE Older(n)'
      BY <2>2, <3>1 DEF BumpVersion, Older, TypeInv
    <3>2. \A s \in DOMAIN locations : locations[s].id \in Nat
      BY DEF TypeInv, Location
    <3>3. \A r \in Requests : trip[r].location[2] \in Nat
      BY <1>00 DEF FlightType, Trips
    <3>4. UNCHANGED <<locations, trip>>
      BY <2>2 DEF BumpVersion
    <3>5. QED
      BY <1>0, <1>00, <3>1, <3>2, <3>3, <3>4 DEF LocationInv
  <2>3. CASE ~InitLocations /\ ~BumpVersion
    <3>1. /\ UNCHANGED version
          /\ pc \in {"routes", "plugins", "bump"} => pc' \in {"routes", "plugins", "bump"}
      BY <2>3 DEF WatcherStep, Arm, Poll, Build, InitUpstreams, InitRoutes, StorePlugins, Mark,
                  Pushes, Push, PluginsFor, LoadVersion, UseCached, GetPlugins, StoreList, vars
    <3>2. /\ DOMAIN locations' = DOMAIN locations
          /\ \A s \in DOMAIN locations : /\ locations'[s].id = locations[s].id
                                         /\ locations'[s].max = locations[s].max
      <4>1. CASE \E r \in Requests : StoreList(r)
        BY <4>1 DEF StoreList, TypeInv, Location
      <4>2. CASE ~\E r \in Requests : StoreList(r)
        <5>1. UNCHANGED locations
          BY <2>3, <4>2 DEF WatcherStep, Arm, Poll, Build, InitUpstreams, InitRoutes,
                  StorePlugins, Mark, Pushes, Push, PluginsFor, LoadVersion, UseCached,
                  GetPlugins, vars
        <5>2. QED
          BY <5>1
      <4>3. QED
        BY <4>1, <4>2
    <3>3. \A n : Older(n) => Older(n)'
      BY <3>1 DEF Older
    <3>4. QED
      BY <1>0, <1>00, <3>2, <3>3 DEF LocationInv
  <2>4. QED
    BY <2>1, <2>2, <2>3
<1>4. QED
  BY <1>2, <1>3, CountsStay DEF FlightInv

\* No upstream is NoUpstream.
LEMMA UpstreamIsOne == NoUpstream \notin Upstream
BY InFlightAssumption DEF NoUpstream, NewUpstream, Upstream

\* Where the requests are, after one of them has moved.
LEMMA Moves ==
  ASSUME FlightType, NEW r \in Requests, NEW q \in Trips, trip' = [trip EXCEPT ![r] = q]
  PROVE  /\ trip' \in [Requests -> Trips]
         /\ \A k \in Requests : trip'[k] = IF k = r THEN q ELSE trip[k]
         /\ \A k \in Requests : k # r => Flying(k)' = Flying(k)
         /\ Flying(r)' <=> q.at \notin {"home", "over"}
         /\ \A l : Here(l)' = IF q.at \notin {"home", "over"} /\ q.location = l
                              THEN Here(l) \cup {r} ELSE Here(l) \ {r}
         /\ \A l : Admitted(l)' = IF q.at \notin {"home", "over", "rejected"} /\ q.location = l
                                  THEN Admitted(l) \cup {r} ELSE Admitted(l) \ {r}
         /\ \A u : CountedBy(u)' = IF q.at \notin {"home", "over"} /\ q.counter = u
                                   THEN CountedBy(u) \cup {r} ELSE CountedBy(u) \ {r}
         /\ \A u, b : HeldAt(u, b)' =
                        IF q.at \notin {"home", "over"} /\ q.counter = u /\ q.held = b
                        THEN HeldAt(u, b) \cup {r} ELSE HeldAt(u, b) \ {r}
         /\ Holding' = IF q.held # NoBackend THEN Holding \cup {r} ELSE Holding \ {r}
<1>1. trip' \in [Requests -> Trips] /\ \A k \in Requests : trip'[k] = IF k = r THEN q ELSE trip[k]
  BY DEF FlightType
<1>2. \A k \in Requests : k # r => (Flying(k)' <=> Flying(k))
  BY <1>1 DEF Flying
<1>3. Flying(r)' <=> q.at \notin {"home", "over"}
  BY <1>1 DEF Flying
<1>4. \A k \in Requests : k # r => Flying(k)' = Flying(k)
  BY <1>1 DEF Flying
<1>5. ASSUME NEW l
      PROVE  Here(l)' = IF q.at \notin {"home", "over"} /\ q.location = l
                        THEN Here(l) \cup {r} ELSE Here(l) \ {r}
  BY <1>1, <1>2, <1>3 DEF Here
<1>6. ASSUME NEW l
      PROVE  Admitted(l)' = IF q.at \notin {"home", "over", "rejected"} /\ q.location = l
                            THEN Admitted(l) \cup {r} ELSE Admitted(l) \ {r}
  BY <1>1, <1>2, <1>3 DEF Admitted, Here
<1>7. ASSUME NEW u
      PROVE  CountedBy(u)' = IF q.at \notin {"home", "over"} /\ q.counter = u
                             THEN CountedBy(u) \cup {r} ELSE CountedBy(u) \ {r}
  BY <1>1, <1>2, <1>3 DEF CountedBy
<1>8. ASSUME NEW u, NEW b
      PROVE  HeldAt(u, b)' = IF q.at \notin {"home", "over"} /\ q.counter = u /\ q.held = b
                             THEN HeldAt(u, b) \cup {r} ELSE HeldAt(u, b) \ {r}
  BY <1>1, <1>2, <1>3 DEF CountedBy, HeldAt
<1>9. Holding' = IF q.held # NoBackend THEN Holding \cup {r} ELSE Holding \ {r}
  BY <1>1 DEF Holding
<1>10. QED
  BY <1>1, <1>3, <1>4, <1>5, <1>6, <1>7, <1>8, <1>9

\* The parts of FlightInv that a request which stays counted as it was keeps.
LEMMA SetsStay ==
  ASSUME FlightInv, UNCHANGED <<inLocation, inUpstream, inBackend, locations, version, pc>>,
         crossed \subseteq crossed',
         NEW r \in Requests, NEW q \in Trips, trip' = [trip EXCEPT ![r] = q],
         q.location = trip[r].location, q.max = trip[r].max, q.held = trip[r].held,
         q.counter = trip[r].counter, Flying(r), trip[r].at # "rejected",
         q.at \notin {"home", "over", "rejected"}
  PROVE  LocationInv' /\ LocationCount' /\ LimitKept' /\ UpstreamCount' /\ HoldingCount'
<1>0. FlightType /\ LocationInv /\ LocationCount /\ LimitKept /\ UpstreamCount /\ HoldingCount
  BY DEF FlightInv
<1>1. /\ \A k \in Requests : trip'[k] = IF k = r THEN q ELSE trip[k]
      /\ \A k \in Requests : Flying(k)' <=> Flying(k)
  BY <1>0, Moves
<1>2. \A k \in Requests : trip'[k].location = trip[k].location /\ trip'[k].max = trip[k].max
  BY <1>1
<1>3. \A l : Here(l)' = Here(l)
  BY <1>1, <1>2 DEF Here
<1>4. \A l : Admitted(l)' = Admitted(l)
  BY <1>1, <1>3 DEF Admitted, Here
<1>5. \A u : CountedBy(u)' = CountedBy(u)
  BY <1>1 DEF CountedBy
<1>6. \A u, b : HeldAt(u, b)' = HeldAt(u, b)
  BY <1>1, <1>5 DEF HeldAt, CountedBy
<1>7. Holding' = Holding
  BY <1>1 DEF Holding
<1>8. LocationInv'
  BY <1>0, <1>1, <1>2 DEF LocationInv, Older
<1>9. LocationCount'
  BY <1>0, <1>3 DEF LocationCount
<1>10. LimitKept'
  BY <1>0, <1>2, <1>3, <1>4 DEF LimitKept, Here
<1>11. UpstreamCount'
  BY <1>0, <1>5, <1>6 DEF UpstreamCount
<1>12. HoldingCount'
  BY <1>0, <1>7 DEF HoldingCount
<1>13. QED
  BY <1>8, <1>9, <1>10, <1>11, <1>12

\* A request enters a location.
LEMMA LocateFlight ==
  ASSUME TypeInv, FlightInv, NEW r \in Requests, NEW s \in Sites, Locate(r, s)
  PROVE  FlightInv'
<1>0. FlightType /\ TripInv /\ LocationInv
      /\ LocationCount /\ LimitKept /\ UpstreamCount /\ HoldingCount
  BY DEF FlightInv
<1>l. PICK l : l = <<s, locations[s].id>>
  OBVIOUS
<1>m. PICK max : max = locations[s].max
  OBVIOUS
<1>1. /\ trip[r].at = "home" /\ s \in DOMAIN locations
      /\ inLocation' = Add(inLocation, l, 1)
      /\ UNCHANGED <<inUpstream, inBackend, crossed>>
      /\ UNCHANGED <<locations, version, pc, upstreams>>
  BY <1>l DEF Locate, Find, vars, providers, watcher
<1>2. PICK q : /\ trip' = [trip EXCEPT ![r] = q]
               /\ \/ /\ max # 0 /\ Count(inLocation, l) + 1 > max
                     /\ q = [Home EXCEPT !.at = "rejected", !.location = l, !.max = max]
                  \/ /\ ~(max # 0 /\ Count(inLocation, l) + 1 > max)
                     /\ q = [Home EXCEPT !.at = "located", !.location = l, !.max = max]
  BY <1>l, <1>m DEF Locate, Go
<1>n. /\ max \in Nat /\ locations[s].id \in Nat /\ l \in (Sites \cup {"none"}) \X Nat
      /\ l[1] = s /\ l[2] = locations[s].id
  <2>1. locations[s] \in Location
    BY <1>1 DEF TypeInv
  <2>2. max \in Nat /\ locations[s].id \in Nat
    BY <1>m, <2>1 DEF Location
  <2>3. QED
    BY <1>l, <2>2
<1>3. /\ q \in Trips /\ q.at \in {"rejected", "located"} /\ q.location = l /\ q.max = max
      /\ q.held = NoBackend /\ q.counter = NoUpstream
  <2>1. ASSUME NEW p \in {"rejected", "located"},
               q = [Home EXCEPT !.at = p, !.location = l, !.max = max]
        PROVE  /\ q \in Trips /\ q.at = p /\ q.location = l /\ q.max = max
               /\ q.held = NoBackend /\ q.counter = NoUpstream
    <3>1. q = [at |-> p, location |-> l, max |-> max, name |-> "none", upstream |-> NoUpstream,
               held |-> NoBackend, retries |-> 0, attempts |-> 0, counter |-> NoUpstream]
      BY <2>1 DEF Home
    <3>2. QED
      BY <1>n, <3>1 DEF Trips
  <2>2. QED
    BY <1>2, <2>1
<1>4. /\ trip' \in [Requests -> Trips]
      /\ \A k \in Requests : trip'[k] = IF k = r THEN q ELSE trip[k]
      /\ \A k \in Requests : k # r => Flying(k)' = Flying(k)
      /\ Flying(r)' /\ ~Flying(r)
  BY <1>0, <1>1, <1>2, <1>3, Moves DEF Flying
<1>5. /\ \A m : Here(m)' = IF m = l THEN Here(m) \cup {r} ELSE Here(m) \ {r}
      /\ \A m : Admitted(m)' = IF m = l /\ q.at # "rejected" THEN Admitted(m) \cup {r}
                               ELSE Admitted(m) \ {r}
      /\ \A m : r \notin Here(m) /\ r \notin Admitted(m) /\ Here(m) \in SUBSET Requests
  <2>1. \A m : r \notin Here(m) /\ r \notin Admitted(m) /\ Here(m) \in SUBSET Requests
    BY <1>4 DEF Here, Admitted
  <2>2. \A m : Here(m)' = IF m = l THEN Here(m) \cup {r} ELSE Here(m) \ {r}
    BY <1>3, <1>4 DEF Here
  <2>3. \A m : Admitted(m)' = IF m = l /\ q.at # "rejected" THEN Admitted(m) \cup {r}
                              ELSE Admitted(m) \ {r}
    BY <1>3, <1>4 DEF Admitted, Here
  <2>4. QED
    BY <2>1, <2>2, <2>3
<1>6. FlightType'
  <2>1. Counter(inLocation')
    BY <1>0, <1>1, CountAdd DEF FlightType
  <2>2. QED
    BY <1>0, <1>1, <1>4, <2>1 DEF FlightType, Counter
<1>7. TripInv'
  BY <1>0, <1>1, <1>3, <1>4, <1>n DEF TripInv
<1>o. \A n : Older(n)' <=> Older(n)
  BY <1>1 DEF Older
<1>k. ASSUME NEW k \in Requests, Flying(k), trip[k].location = l PROVE trip[k].max = max
  BY <1>0, <1>1, <1>m, <1>n, <1>k DEF LocationInv
<1>8. LocationInv'
  <2>1. \A m \in DOMAIN locations' : Older(locations[m].id)'
    BY <1>0, <1>1, <1>o DEF LocationInv
  <2>2. ASSUME NEW k \in Requests, Flying(k)' PROVE Older(trip[k].location[2])'
    <3>1. CASE k = r
      <4>1. trip'[k].location[2] = locations[s].id /\ Older(locations[s].id)
        BY <1>0, <1>1, <1>3, <1>4, <1>n, <3>1 DEF LocationInv
      <4>2. QED
        BY <1>1, <4>1 DEF Older
    <3>2. CASE k # r
      <4>1. trip'[k] = trip[k] /\ Older(trip[k].location[2])
        BY <1>0, <1>4, <2>2, <3>2 DEF LocationInv
      <4>2. QED
        BY <1>1, <4>1 DEF Older
    <3>3. QED
      BY <3>1, <3>2
  <2>3. ASSUME NEW k \in Requests, Flying(k)', NEW m \in DOMAIN locations',
               m = trip'[k].location[1], locations'[m].id = trip'[k].location[2]
        PROVE  locations'[m].max = trip'[k].max
    <3>1. CASE k = r
      BY <1>1, <1>3, <1>4, <1>m, <1>n, <2>3, <3>1
    <3>2. CASE k # r
      BY <1>0, <1>1, <1>4, <2>3, <3>2 DEF LocationInv
    <3>3. QED
      BY <3>1, <3>2
  <2>5. ASSUME NEW j \in Requests, NEW k \in Requests, Flying(j)', Flying(k)',
               trip'[j].location = trip'[k].location
        PROVE  trip'[j].max = trip'[k].max
    <3>1. CASE j # r /\ k # r
      BY <1>0, <1>4, <2>5, <3>1 DEF LocationInv
    <3>2. CASE j = r \/ k = r
      BY <1>3, <1>4, <1>k, <2>5, <3>2
    <3>3. QED
      BY <3>1, <3>2
  <2>6. QED
    BY <2>1, <2>2, <2>3, <2>5 DEF LocationInv
<1>10. Cardinality(Here(l)') = Cardinality(Here(l)) + 1 /\ Cardinality(Here(l)) \in Nat
  <2>1. Here(l)' = Here(l) \cup {r} /\ r \notin Here(l) /\ Here(l) \in SUBSET Requests
    BY <1>5
  <2>2. QED
    BY <2>1, Joins
<1>11. LocationCount'
  <2>1. \A m : Count(inLocation', m) = IF m = l THEN Count(inLocation, l) + 1
                                       ELSE Count(inLocation, m)
    BY <1>0, <1>1, CountAdd DEF FlightType
  <2>2. ASSUME NEW m PROVE Count(inLocation', m) = Cardinality(Here(m)')
    <3>1. CASE m = l
      BY <1>0, <1>10, <2>1, <3>1 DEF LocationCount
    <3>2. CASE m # l
      <4>1. Here(m)' = Here(m)
        BY <1>5, <3>2
      <4>2. QED
        BY <1>0, <2>1, <3>2, <4>1 DEF LocationCount
    <3>3. QED
      BY <3>1, <3>2
  <2>3. QED
    BY <2>2 DEF LocationCount
<1>12. LimitKept'
  <2>1. ASSUME NEW m, m # l, NEW k \in Here(m)', trip'[k].max # 0
        PROVE  Cardinality(Admitted(m)') <= trip'[k].max
    <3>1. Here(m)' = Here(m) /\ Admitted(m)' = Admitted(m) /\ k \in Here(m) /\ k # r
      BY <1>5, <2>1
    <3>2. k \in Requests /\ trip'[k] = trip[k]
      BY <1>4, <1>5, <3>1
    <3>3. QED
      BY <1>0, <2>1, <3>1, <3>2 DEF LimitKept
  <2>2. ASSUME NEW k \in Here(l)', trip'[k].max # 0
        PROVE  Cardinality(Admitted(l)') <= trip'[k].max
    <3>1. trip'[k].max = max
      <4>1. k \in Here(l) \cup {r} /\ k \in Requests
        BY <1>5, <2>2
      <4>2. CASE k = r
        BY <1>3, <1>4, <4>2
      <4>3. CASE k # r
        <5>1. Flying(k) /\ trip[k].location = l /\ trip'[k] = trip[k]
          BY <1>4, <4>1, <4>3 DEF Here
        <5>2. QED
          BY <1>k, <4>1, <5>1
      <4>4. QED
        BY <4>2, <4>3
    <3>2. Cardinality(Admitted(l)') <= max
      <4>1. CASE q.at = "rejected"
        <5>1. Admitted(l)' = Admitted(l)
          BY <1>5, <4>1
        <5>2. CASE Here(l) = {}
          <6>1. Admitted(l) = {}
            BY <5>2 DEF Admitted
          <6>2. QED
            BY <1>n, <5>1, <6>1, FS_EmptySet
        <5>3. CASE Here(l) # {}
          <6>1. PICK j : j \in Here(l)
            BY <5>3
          <6>2. j \in Requests /\ Flying(j) /\ trip[j].location = l
            BY <6>1 DEF Here
          <6>3. trip[j].max = max /\ max # 0
            BY <1>k, <2>2, <3>1, <6>2
          <6>4. QED
            BY <1>0, <5>1, <6>1, <6>3 DEF LimitKept
        <5>4. QED
          BY <5>2, <5>3
      <4>2. CASE q.at = "located"
        <5>1. Count(inLocation, l) + 1 <= max
          <6>1. Count(inLocation, l) \in Int /\ max # 0
            BY <1>0, <2>2, <3>1, CountType DEF FlightType
          <6>2. ~(Count(inLocation, l) + 1 > max)
            BY <1>2, <4>2, <6>1 DEF Home
          <6>3. QED
            BY <1>n, <6>1, <6>2
        <5>2. Cardinality(Here(l)') <= max
          BY <1>0, <1>10, <5>1 DEF LocationCount
        <5>3. /\ IsFiniteSet(Here(l)') /\ Admitted(l)' \subseteq Here(l)'
              /\ Here(l)' \subseteq Requests
          <6>1. Here(l)' \subseteq Requests /\ Admitted(l)' \subseteq Here(l)'
            BY DEF Here, Admitted
          <6>2. QED
            BY <6>1, InFlightAssumption, FS_Subset
        <5>4. /\ Cardinality(Admitted(l)') <= Cardinality(Here(l)')
              /\ Cardinality(Admitted(l)') \in Nat /\ Cardinality(Here(l)') \in Nat
          BY <5>3, FS_Subset, FS_CardinalityType
        <5>5. QED
          BY <1>n, <5>2, <5>4
      <4>3. QED
        BY <1>3, <4>1, <4>2
    <3>3. QED
      BY <3>1, <3>2
  <2>3. ASSUME NEW m, NEW k \in Here(m)', trip'[k].max # 0
        PROVE  Cardinality(Admitted(m)') <= trip'[k].max
    BY <2>1, <2>2, <2>3
  <2>4. QED
    BY <2>3 DEF LimitKept
<1>13. UpstreamCount' /\ HoldingCount'
  <2>1. \A u : u # NoUpstream => CountedBy(u)' = CountedBy(u)
    BY <1>3, <1>4 DEF CountedBy
  <2>2. \A u, b : u # NoUpstream => HeldAt(u, b)' = HeldAt(u, b)
    BY <1>3, <1>4 DEF CountedBy, HeldAt
  <2>3. Holding' = Holding
    BY <1>0, <1>1, <1>3, <1>4 DEF Holding, TripInv
  <2>4. QED
    BY <1>0, <1>1, <2>1, <2>2, <2>3 DEF UpstreamCount, HoldingCount
<1>14. QED
  BY <1>6, <1>7, <1>8, <1>11, <1>12, <1>13 DEF FlightInv

\* A request that is under way has a site, and what it names is an upstream.
LEMMA Named ==
  ASSUME FlightInv, NEW r \in Requests, UpstreamName(r) \in DOMAIN upstreams
  PROVE  /\ upstreams[UpstreamName(r)] \in Upstream
         /\ upstreams[UpstreamName(r)] # NoUpstream
         /\ upstreams[UpstreamName(r)].name \in Sites
<1>1. upstreams[UpstreamName(r)] \in Upstream
  BY DEF FlightInv, FlightType
<1>2. QED
  BY <1>1, UpstreamIsOne DEF Upstream

\* A request that finds no upstream or no backend, or is sent again, is counted
\* as it was: only the upstreams may be crossed.
LEMMA StaysCounted ==
  ASSUME FlightInv, NEW r \in Requests, NEW q \in Trips, trip' = [trip EXCEPT ![r] = q],
         UNCHANGED <<vars, inLocation, inUpstream, inBackend>>,
         trip[r].at \in {"located", "retry", "connect"}, q.at \in {"connect", "retry", "failed"},
         q.location = trip[r].location, q.max = trip[r].max, q.held = trip[r].held,
         q.counter = trip[r].counter,
         \/ q.upstream = trip[r].upstream /\ crossed' = crossed
         \/ /\ q.upstream # NoUpstream
            /\ crossed' = IF trip[r].counter \in {q.upstream, NoUpstream} THEN crossed
                          ELSE crossed \cup {q.upstream, trip[r].counter}
  PROVE  FlightInv'
<1>0. FlightType /\ TripInv
  BY DEF FlightInv
<1>1. /\ trip' \in [Requests -> Trips]
      /\ \A k \in Requests : trip'[k] = IF k = r THEN q ELSE trip[k]
      /\ \A k \in Requests : k # r => Flying(k)' = Flying(k)
      /\ Flying(r)' /\ Flying(r) /\ crossed \subseteq crossed'
  BY <1>0, Moves DEF Flying
<1>2. UNCHANGED <<locations, version, pc, upstreams>>
  BY DEF vars, providers, watcher
<1>3. FlightType'
  BY <1>0, <1>1, <1>2 DEF FlightType, Counter
<1>4. LocationInv' /\ LocationCount' /\ LimitKept' /\ UpstreamCount' /\ HoldingCount'
  BY <1>1, <1>2, SetsStay
<1>5. TripInv'
  <2>1. ASSUME NEW k \in Requests
        PROVE  /\ Flying(k)' => trip'[k].location[1] \in Sites
               /\ trip'[k].held = NoBackend <=> trip'[k].counter = NoUpstream
               /\ trip'[k].at \in {"home", "over", "located", "rejected"} =>
                    trip'[k].held = NoBackend
               /\ trip'[k].held # NoBackend =>
                    /\ trip'[k].upstream # NoUpstream
                    /\ trip'[k].upstream # trip'[k].counter =>
                         {trip'[k].upstream, trip'[k].counter} \subseteq crossed'
    <3>1. CASE k # r
      BY <1>0, <1>1, <3>1 DEF TripInv
    <3>2. CASE k = r
      BY <1>0, <1>1, <3>2 DEF TripInv
    <3>3. QED
      BY <3>1, <3>2
  <2>2. QED
    BY <2>1 DEF TripInv
<1>6. QED
  BY <1>3, <1>4, <1>5 DEF FlightInv

\* The first attempt counts the request, in the upstream and at the backend.
LEMMA FirstConnect ==
  ASSUME FlightInv, NEW r \in Requests, NEW u \in Upstream, NEW b \in Backends,
         Connect(r, u, b), FirstAttempt(r), trip[r].at \in {"located", "retry"},
         UNCHANGED <<vars, inLocation>>
  PROVE  FlightInv'
<1>0. FlightType /\ TripInv /\ LocationInv
      /\ LocationCount /\ LimitKept /\ UpstreamCount /\ HoldingCount
  BY DEF FlightInv
<1>h. trip[r] \in Trips /\ trip[r].held = NoBackend /\ trip[r].counter = NoUpstream
      /\ u # NoUpstream /\ u.name \in Sites /\ b # NoBackend
  BY <1>0, UpstreamIsOne, InFlightAssumption DEF FlightType, FirstAttempt, TripInv, Upstream
<1>1. /\ inBackend' = With(inBackend, <<u, b>>, Count(inBackend, <<u, b>>) + 1)
      /\ inUpstream' = Add(inUpstream, u, 1) /\ crossed' = crossed
  BY <1>h DEF Connect
<1>2. PICK q : /\ trip' = [trip EXCEPT ![r] = q]
               /\ q = [trip[r] EXCEPT !.at = "connect", !.upstream = u, !.name = u.name,
                                      !.attempts = @ + 1, !.held = b, !.counter = u]
  BY DEF Connect, Go
<1>3. /\ q \in Trips /\ q.at = "connect" /\ q.location = trip[r].location
      /\ q.max = trip[r].max /\ q.held = b /\ q.counter = u /\ q.upstream = u
  <2>1. PICK t \in Trips : t = trip[r]
    BY <1>h
  <2>2. t.attempts + 1 \in Nat
    BY DEF Trips
  <2>3. q = [at |-> "connect", location |-> t.location, max |-> t.max, name |-> u.name,
             upstream |-> u, held |-> b, retries |-> t.retries,
             attempts |-> t.attempts + 1, counter |-> u]
    BY <1>2, <2>1 DEF Trips
  <2>4. t.location \in (Sites \cup {"none"}) \X Nat /\ t.max \in Nat /\ t.retries \in Nat
    BY DEF Trips
  <2>5. q \in Trips
    BY <1>h, <2>2, <2>3, <2>4 DEF Trips
  <2>6. QED
    BY <2>1, <2>3, <2>5
<1>4. /\ trip' \in [Requests -> Trips]
      /\ \A k \in Requests : trip'[k] = IF k = r THEN q ELSE trip[k]
      /\ \A k \in Requests : k # r => Flying(k)' = Flying(k)
      /\ Flying(r)' /\ Flying(r)
  BY <1>0, <1>2, <1>3, Moves DEF Flying
<1>5. UNCHANGED <<locations, version, pc, upstreams, inLocation>>
  BY DEF vars, providers, watcher
<1>6. FlightType'
  <2>1. /\ Counter(inUpstream') /\ IsFiniteSet(DOMAIN inUpstream')
    BY <1>0, <1>1, CountAdd, SumAdd DEF FlightType
  <2>2. Counter(inBackend')
    <3>1. Count(inBackend, <<u, b>>) + 1 \in Int
      BY <1>0, CountType DEF FlightType
    <3>2. QED
      BY <1>0, <1>1, <3>1, CountWith DEF FlightType
  <2>3. DOMAIN inUpstream' \subseteq Upstream
    BY <1>0, <1>1, CountDomain DEF FlightType
  <2>4. DOMAIN inBackend' \subseteq Upstream \X Backends
    <3>1. <<u, b>> \in Upstream \X Backends /\ DOMAIN inBackend \subseteq Upstream \X Backends
      BY <1>0 DEF FlightType
    <3>2. QED
      BY <1>1, <3>1 DEF With
  <2>5. QED
    BY <1>0, <1>4, <1>5, <2>1, <2>2, <2>3, <2>4 DEF FlightType
<1>7. TripInv'
  BY <1>0, <1>1, <1>3, <1>4, <1>h DEF TripInv
<1>8. LocationInv' /\ LocationCount' /\ LimitKept'
  <2>1. \A k \in Requests : /\ trip'[k].location = trip[k].location
                            /\ trip'[k].max = trip[k].max /\ (Flying(k)' <=> Flying(k))
                            /\ (trip'[k].at # "rejected" <=> trip[k].at # "rejected")
    BY <1>3, <1>4
  <2>2. \A l : Here(l)' = Here(l)
    BY <2>1 DEF Here
  <2>3. \A l : Admitted(l)' = Admitted(l)
    BY <2>1, <2>2 DEF Admitted, Here
  <2>4. LocationInv'
    BY <1>0, <1>5, <2>1 DEF LocationInv, Older
  <2>5. LocationCount'
    BY <1>0, <1>5, <2>2 DEF LocationCount
  <2>6. LimitKept'
    BY <1>0, <2>1, <2>2, <2>3 DEF LimitKept, Here
  <2>7. QED
    BY <2>4, <2>5, <2>6
<1>9. UpstreamCount'
  <2>1. /\ \A v : v \notin {u, NoUpstream} => CountedBy(v)' = CountedBy(v)
        /\ CountedBy(u)' = CountedBy(u) \cup {r} /\ r \notin CountedBy(u)
        /\ CountedBy(u) \in SUBSET Requests
    BY <1>3, <1>4, <1>h DEF CountedBy
  <2>2. /\ \A v, c : v \notin {u, NoUpstream} => HeldAt(v, c)' = HeldAt(v, c)
        /\ \A c : c # b => HeldAt(u, c)' = HeldAt(u, c)
        /\ HeldAt(u, b)' = HeldAt(u, b) \cup {r} /\ r \notin HeldAt(u, b)
        /\ HeldAt(u, b) \in SUBSET Requests
    BY <1>3, <1>4, <1>h DEF CountedBy, HeldAt
  <2>3. /\ Cardinality(CountedBy(u)') = Cardinality(CountedBy(u)) + 1
        /\ Cardinality(HeldAt(u, b)') = Cardinality(HeldAt(u, b)) + 1
    BY <2>1, <2>2, Joins
  <2>4. /\ \A v : Count(inUpstream', v) = IF v = u THEN Count(inUpstream, u) + 1
                                          ELSE Count(inUpstream, v)
        /\ \A k : Count(inBackend', k) = IF k = <<u, b>> THEN Count(inBackend, <<u, b>>) + 1
                                         ELSE Count(inBackend, k)
    <3>1. Count(inBackend, <<u, b>>) + 1 \in Int
      BY <1>0, CountType DEF FlightType
    <3>2. QED
      BY <1>0, <1>1, <3>1, CountAdd, CountWith DEF FlightType
  <2>5. ASSUME NEW v, v \notin crossed', v # NoUpstream, NEW c \in Backends
        PROVE  /\ Count(inUpstream', v) = Cardinality(CountedBy(v)')
               /\ Count(inBackend', <<v, c>>) = Cardinality(HeldAt(v, c)')
    <3>1. /\ Count(inUpstream, v) = Cardinality(CountedBy(v))
          /\ Count(inBackend, <<v, c>>) = Cardinality(HeldAt(v, c))
      BY <1>0, <1>1, <2>5 DEF UpstreamCount
    <3>2. CASE v # u
      BY <2>1, <2>2, <2>4, <2>5, <3>1, <3>2
    <3>3. CASE v = u /\ c = b
      BY <2>3, <2>4, <3>1, <3>3
    <3>4. CASE v = u /\ c # b
      BY <2>2, <2>3, <2>4, <3>1, <3>4
    <3>5. QED
      BY <3>2, <3>3, <3>4
  <2>6. QED
    BY <2>5, <1>h DEF UpstreamCount
<1>10. HoldingCount'
  <2>1. Holding' = Holding \cup {r} /\ r \notin Holding /\ Holding \in SUBSET Requests
    BY <1>3, <1>4, <1>h DEF Holding
  <2>2. Cardinality(Holding') = Cardinality(Holding) + 1
    BY <2>1, Joins
  <2>3. SumFunction(inUpstream') = SumFunction(inUpstream) + 1
    BY <1>0, <1>1, SumAdd DEF FlightType
  <2>4. QED
    BY <1>0, <2>2, <2>3 DEF HoldingCount
<1>11. QED
  BY <1>6, <1>7, <1>8, <1>9, <1>10 DEF FlightInv

\* upstream_peer.
LEMMA PeerFlight ==
  ASSUME FlightInv, NEW r \in Requests, UpstreamPeer(r)
  PROVE  FlightInv'
<1>0. FlightType /\ TripInv /\ trip[r] \in Trips
  BY DEF FlightInv, FlightType
<1>g. trip[r].at \in {"located", "retry"} /\ UNCHANGED <<vars, inLocation>>
  BY DEF UpstreamPeer
<1>1. CASE UpstreamName(r) \notin DOMAIN upstreams
  <2>1. PICK q : q = [trip[r] EXCEPT !.at = "failed"]
    OBVIOUS
  <2>2. /\ q \in Trips /\ q.at = "failed" /\ q.location = trip[r].location
        /\ q.max = trip[r].max /\ q.held = trip[r].held /\ q.counter = trip[r].counter
        /\ q.upstream = trip[r].upstream
    BY <1>0, <2>1 DEF Trips
  <2>3. trip' = [trip EXCEPT ![r] = q] /\ UNCHANGED <<inBackend, inUpstream, crossed>>
    BY <1>1, <2>1 DEF UpstreamPeer, Go
  <2>4. QED
    BY <1>g, <2>2, <2>3, StaysCounted
<1>2. CASE UpstreamName(r) \in DOMAIN upstreams
  <2>u. PICK u \in Upstream : u = upstreams[UpstreamName(r)] /\ u # NoUpstream /\ u.name \in Sites
    BY <1>2, Named
  <2>1. ASSUME trip' = [trip EXCEPT ![r] = [trip[r] EXCEPT !.at = "failed", !.upstream = u,
                                                           !.name = u.name]],
               crossed' = IF trip[r].counter \in {u, NoUpstream} THEN crossed
                          ELSE crossed \cup {u, trip[r].counter},
               UNCHANGED <<inBackend, inUpstream>>
        PROVE  FlightInv'
    <3>1. PICK q : q = [trip[r] EXCEPT !.at = "failed", !.upstream = u, !.name = u.name]
      OBVIOUS
    <3>2. /\ q \in Trips /\ q.at = "failed" /\ q.location = trip[r].location
          /\ q.max = trip[r].max /\ q.held = trip[r].held /\ q.counter = trip[r].counter
          /\ q.upstream = u
      BY <1>0, <2>u, <3>1 DEF Trips
    <3>3. trip' = [trip EXCEPT ![r] = q]
      BY <2>1, <3>1
    <3>4. QED
      BY <1>g, <2>1, <2>u, <3>2, <3>3, StaysCounted
  <2>2. ASSUME NEW b \in Backends, Connect(r, u, b), ~FirstAttempt(r) PROVE FlightInv'
    <3>1. PICK q : q = [trip[r] EXCEPT !.at = "connect", !.upstream = u, !.name = u.name,
                                       !.attempts = @ + 1]
      OBVIOUS
    <3>2. /\ q \in Trips /\ q.at = "connect" /\ q.location = trip[r].location
          /\ q.max = trip[r].max /\ q.held = trip[r].held /\ q.counter = trip[r].counter
          /\ q.upstream = u
      <4>1. trip[r].attempts + 1 \in Nat
        BY <1>0 DEF Trips
      <4>2. QED
        BY <1>0, <2>u, <3>1, <4>1 DEF Trips
    <3>3. /\ trip' = [trip EXCEPT ![r] = q] /\ UNCHANGED <<inBackend, inUpstream>>
          /\ crossed' = IF trip[r].counter \in {u, NoUpstream} THEN crossed
                        ELSE crossed \cup {u, trip[r].counter}
      BY <2>2, <3>1 DEF Connect, Go
    <3>4. QED
      BY <1>g, <2>u, <3>2, <3>3, StaysCounted
  <2>3. ASSUME NEW b \in Backends, Connect(r, u, b), FirstAttempt(r) PROVE FlightInv'
    BY <1>g, <2>3, FirstConnect
  <2>4. QED
    BY <1>2, <2>u, <2>1, <2>2, <2>3 DEF UpstreamPeer, Go
<1>3. QED
  BY <1>1, <1>2

\* A retry leaves everything counted.
LEMMA RetryFlight ==
  ASSUME FlightInv, NEW r \in Requests, NEW n \in Nat, Retries(r, n)
  PROVE  FlightInv'
<1>0. FlightType /\ TripInv /\ trip[r] \in Trips
  BY DEF FlightInv, FlightType
<1>1. PICK q : q = [trip[r] EXCEPT !.at = "retry", !.retries = n]
  OBVIOUS
<1>2. /\ q \in Trips /\ q.at = "retry" /\ q.location = trip[r].location
      /\ q.max = trip[r].max /\ q.held = trip[r].held /\ q.counter = trip[r].counter
      /\ q.upstream = trip[r].upstream
  BY <1>0, <1>1 DEF Trips
<1>3. /\ trip[r].at = "connect" /\ trip' = [trip EXCEPT ![r] = q]
      /\ UNCHANGED <<vars, inLocation, inUpstream, inBackend, crossed>>
  BY <1>1 DEF Retries, Go
<1>4. QED
  BY <1>2, <1>3, StaysCounted

\* logging lowers what was raised.
LEMMA LoggingFlight ==
  ASSUME FlightInv, NEW r \in Requests, Logging(r)
  PROVE  FlightInv'
<1>0. FlightType /\ TripInv /\ LocationInv
      /\ LocationCount /\ LimitKept /\ UpstreamCount /\ HoldingCount
  BY DEF FlightInv
<1>t. PICK t \in Trips : t = trip[r]
  BY <1>0 DEF FlightType
<1>1. /\ t.at \in {"located", "rejected", "failed", "connect"} /\ UNCHANGED <<vars, crossed>>
      /\ inLocation' = Add(inLocation, t.location, -1)
      /\ IF t.held = NoBackend THEN UNCHANGED <<inUpstream, inBackend>>
         ELSE inUpstream' = Add(inUpstream, t.upstream, -1) /\ Release(t.upstream, t.held)
  BY <1>t DEF Logging
<1>2. PICK q : trip' = [trip EXCEPT ![r] = q] /\ q = [Home EXCEPT !.at = "over"]
  BY DEF Logging, Go
<1>3. q \in Trips /\ q.at = "over" /\ q.held = NoBackend /\ q.counter = NoUpstream
  BY <1>2 DEF Home, Trips
<1>4. /\ trip' \in [Requests -> Trips]
      /\ \A k \in Requests : trip'[k] = IF k = r THEN q ELSE trip[k]
      /\ \A k \in Requests : k # r => Flying(k)' = Flying(k)
      /\ ~Flying(r)' /\ Flying(r)
  BY <1>0, <1>1, <1>2, <1>3, <1>t, Moves DEF Flying
<1>5. UNCHANGED <<locations, version, pc, upstreams, crossed>>
  BY <1>1 DEF vars, providers, watcher
<1>b. ASSUME t.held # NoBackend
      PROVE  LET k == <<t.upstream, t.held>> IN
             inBackend' = IF k \in DOMAIN inBackend
                          THEN With(inBackend, k, Count(inBackend, k) - 1) ELSE inBackend
  BY <1>1, <1>b DEF Release, Count
<1>6. FlightType'
  <2>1. Counter(inLocation')
    BY <1>0, <1>1, CountAdd DEF FlightType
  <2>2. /\ Counter(inUpstream') /\ IsFiniteSet(DOMAIN inUpstream') /\ Counter(inBackend')
        /\ DOMAIN inUpstream' \subseteq Upstream /\ DOMAIN inBackend' \subseteq Upstream \X Backends
    <3>1. CASE t.held = NoBackend
      BY <1>0, <1>1, <3>1 DEF FlightType, Counter
    <3>2. CASE t.held # NoBackend
      <4>0. t.upstream \in Upstream /\ t.held \in Backends
        BY <1>0, <1>t, <3>2 DEF TripInv, Trips
      <4>1. /\ Counter(inUpstream') /\ IsFiniteSet(DOMAIN inUpstream')
        BY <1>0, <1>1, <3>2, CountAdd, SumAdd DEF FlightType
      <4>2. Counter(inBackend')
        <5>1. Count(inBackend, <<t.upstream, t.held>>) - 1 \in Int
          BY <1>0, CountType DEF FlightType
        <5>2. QED
          BY <1>0, <1>b, <3>2, <5>1, CountWith DEF FlightType
      <4>3. DOMAIN inUpstream' \subseteq Upstream
        BY <1>0, <1>1, <3>2, <4>0, CountDomain DEF FlightType
      <4>4. DOMAIN inBackend' \subseteq Upstream \X Backends
        <5>1. /\ <<t.upstream, t.held>> \in Upstream \X Backends
              /\ DOMAIN inBackend \subseteq Upstream \X Backends
          BY <1>0, <4>0 DEF FlightType
        <5>2. QED
          BY <1>b, <3>2, <5>1 DEF With
      <4>5. QED
        BY <4>1, <4>2, <4>3, <4>4
    <3>3. QED
      BY <3>1, <3>2
  <2>3. QED
    BY <1>0, <1>4, <1>5, <2>1, <2>2 DEF FlightType
<1>7. TripInv'
  BY <1>0, <1>3, <1>4, <1>5 DEF TripInv
<1>8. LocationInv'
  BY <1>0, <1>4, <1>5 DEF LocationInv, Older
<1>l. PICK l : l = t.location
  OBVIOUS
<1>9. /\ \A m : m # l => Here(m)' = Here(m) /\ Admitted(m)' = Admitted(m)
      /\ Here(l)' = Here(l) \ {r} /\ r \in Here(l)
      /\ Admitted(l)' = Admitted(l) \ {r}
      /\ \A m : Here(m) \in SUBSET Requests /\ Admitted(m) \in SUBSET Requests
  <2>1. r \in Here(l) /\ \A m : m # l => r \notin Here(m)
    BY <1>4, <1>l, <1>t DEF Here
  <2>2. \A m : Here(m)' = Here(m) \ {r}
    BY <1>4 DEF Here
  <2>3. \A m : Admitted(m)' = Admitted(m) \ {r}
    BY <1>4 DEF Admitted, Here
  <2>4. \A m : Here(m) \in SUBSET Requests /\ Admitted(m) \in SUBSET Here(m)
    BY DEF Here, Admitted
  <2>5. QED
    BY <2>1, <2>2, <2>3, <2>4
<1>10. LocationCount'
  <2>1. \A m : Count(inLocation', m) = IF m = l THEN Count(inLocation, l) - 1
                                       ELSE Count(inLocation, m)
    <3>1. Counter(inLocation) /\ inLocation' = Add(inLocation, l, -1) /\ -1 \in Int
      BY <1>0, <1>1, <1>l DEF FlightType
    <3>2. \A m : Count(inLocation, m) \in Int
      BY <3>1, CountAdd
    <3>3. \A m : Count(inLocation', m) = IF m = l THEN Count(inLocation, l) + (-1)
                                         ELSE Count(inLocation, m)
      BY <3>1, CountAdd
    <3>4. QED
      BY <3>2, <3>3
  <2>2. Cardinality(Here(l)') = Cardinality(Here(l)) - 1
    BY <1>9, Joins
  <2>3. ASSUME NEW m PROVE Count(inLocation', m) = Cardinality(Here(m)')
    BY <1>0, <1>9, <2>1, <2>2 DEF LocationCount
  <2>4. QED
    BY <2>3 DEF LocationCount
<1>11. LimitKept'
  <2>1. ASSUME NEW m, NEW k \in Here(m)', trip'[k].max # 0
        PROVE  Cardinality(Admitted(m)') <= trip'[k].max
    <3>1. k \in Here(m) /\ k # r /\ k \in Requests /\ trip'[k] = trip[k]
      <4>1. k \in Requests /\ k # r
        BY <1>4, <2>1 DEF Here
      <4>2. QED
        BY <1>4, <2>1, <4>1 DEF Here
    <3>2. Cardinality(Admitted(m)) <= trip[k].max /\ trip[k].max \in Nat
      BY <1>0, <2>1, <3>1 DEF LimitKept, FlightType, Trips
    <3>3. CASE Admitted(m)' = Admitted(m)
      BY <3>1, <3>2, <3>3
    <3>4. CASE Admitted(m)' = Admitted(m) \ {r} /\ r \in Admitted(m)
      <4>1. /\ Cardinality(Admitted(m)') = Cardinality(Admitted(m)) - 1
            /\ Cardinality(Admitted(m)) \in Nat
        BY <1>9, <3>4, Joins
      <4>2. QED
        BY <3>1, <3>2, <4>1
    <3>5. QED
      BY <1>9, <3>3, <3>4
  <2>2. QED
    BY <2>1 DEF LimitKept
<1>12. /\ \A u : u \notin {t.counter, NoUpstream} => CountedBy(u)' = CountedBy(u)
       /\ \A u, b : u \notin {t.counter, NoUpstream} => HeldAt(u, b)' = HeldAt(u, b)
       /\ t.counter # NoUpstream =>
            /\ CountedBy(t.counter)' = CountedBy(t.counter) \ {r}
            /\ r \in CountedBy(t.counter)
            /\ \A b : b # t.held => HeldAt(t.counter, b)' = HeldAt(t.counter, b)
            /\ HeldAt(t.counter, t.held)' = HeldAt(t.counter, t.held) \ {r}
            /\ r \in HeldAt(t.counter, t.held)
       /\ \A u, b : CountedBy(u) \in SUBSET Requests /\ HeldAt(u, b) \in SUBSET Requests
  <2>1. /\ \A u : u # NoUpstream => CountedBy(u)' = CountedBy(u) \ {r}
        /\ \A u : r \in CountedBy(u) <=> u = t.counter
    BY <1>3, <1>4, <1>t DEF CountedBy
  <2>2. /\ \A u, b : u # NoUpstream => HeldAt(u, b)' = HeldAt(u, b) \ {r}
        /\ \A u, b : r \in HeldAt(u, b) <=> u = t.counter /\ b = t.held
    BY <1>3, <1>4, <1>t DEF CountedBy, HeldAt
  <2>3. \A u, b : CountedBy(u) \in SUBSET Requests /\ HeldAt(u, b) \in SUBSET Requests
    BY DEF CountedBy, HeldAt
  <2>4. \A u : u \notin {t.counter, NoUpstream} => CountedBy(u)' = CountedBy(u)
    BY <2>1
  <2>5. \A u, b : u \notin {t.counter, NoUpstream} => HeldAt(u, b)' = HeldAt(u, b)
    BY <2>2
  <2>6. t.counter # NoUpstream =>
          /\ CountedBy(t.counter)' = CountedBy(t.counter) \ {r}
          /\ r \in CountedBy(t.counter)
    BY <2>1
  <2>7. t.counter # NoUpstream =>
          /\ \A b : b # t.held => HeldAt(t.counter, b)' = HeldAt(t.counter, b)
          /\ HeldAt(t.counter, t.held)' = HeldAt(t.counter, t.held) \ {r}
          /\ r \in HeldAt(t.counter, t.held)
    <3>1. SUFFICES ASSUME t.counter # NoUpstream
                   PROVE  /\ \A b : b # t.held => HeldAt(t.counter, b)' = HeldAt(t.counter, b)
                          /\ HeldAt(t.counter, t.held)' = HeldAt(t.counter, t.held) \ {r}
                          /\ r \in HeldAt(t.counter, t.held)
      OBVIOUS
    <3>2. \A b : HeldAt(t.counter, b)' = HeldAt(t.counter, b) \ {r}
      BY <2>2, <3>1
    <3>3. \A b : r \in HeldAt(t.counter, b) <=> b = t.held
      BY <2>2
    <3>4. \A b : b # t.held => HeldAt(t.counter, b)' = HeldAt(t.counter, b)
      BY <3>2, <3>3
    <3>5. QED
      BY <3>2, <3>3, <3>4
  <2>8. QED
    BY <2>3, <2>4, <2>5, <2>6, <2>7
<1>13. CASE t.held = NoBackend
  <2>1. t.counter = NoUpstream /\ UNCHANGED <<inUpstream, inBackend, crossed>>
    BY <1>0, <1>1, <1>13, <1>t DEF TripInv
  <2>2. Holding' = Holding
    BY <1>3, <1>4, <1>13, <1>t DEF Holding
  <2>3. UpstreamCount' /\ HoldingCount'
    BY <1>0, <1>12, <2>1, <2>2 DEF UpstreamCount, HoldingCount
  <2>4. QED
    BY <1>6, <1>7, <1>8, <1>10, <1>11, <2>3 DEF FlightInv
<1>14. CASE t.held # NoBackend
  <2>1. /\ t.counter # NoUpstream /\ t.upstream # NoUpstream /\ t.held \in Backends
        /\ t.upstream # t.counter => t.upstream \in crossed /\ t.counter \in crossed
    BY <1>0, <1>14, <1>t DEF TripInv, FlightType, Trips
  <2>2. \A v : Count(inUpstream', v) = IF v = t.upstream THEN Count(inUpstream, v) - 1
                                       ELSE Count(inUpstream, v)
    <3>1. Counter(inUpstream) /\ inUpstream' = Add(inUpstream, t.upstream, -1) /\ -1 \in Int
      BY <1>0, <1>1, <1>14 DEF FlightType
    <3>2. \A m : Count(inUpstream, m) \in Int
      BY <3>1, CountAdd
    <3>3. \A m : Count(inUpstream', m) = IF m = t.upstream
                                         THEN Count(inUpstream, t.upstream) + (-1)
                                         ELSE Count(inUpstream, m)
      BY <3>1, CountAdd
    <3>4. QED
      BY <3>2, <3>3
  <2>3. ASSUME NEW v, v \notin crossed', v # NoUpstream
        PROVE  Count(inUpstream', v) = Cardinality(CountedBy(v)')
    <3>1. Count(inUpstream, v) = Cardinality(CountedBy(v)) /\ v \notin crossed
      BY <1>0, <1>5, <2>3 DEF UpstreamCount
    <3>2. CASE v = t.upstream
      <4>1. v = t.counter
        BY <2>1, <3>1, <3>2
      <4>2. Cardinality(CountedBy(v)') = Cardinality(CountedBy(v)) - 1
        BY <1>12, <2>1, <4>1, Joins
      <4>3. QED
        BY <2>2, <3>1, <3>2, <4>2
    <3>3. CASE v # t.upstream
      <4>1. v # t.counter
        BY <2>1, <3>1, <3>3
      <4>2. CountedBy(v)' = CountedBy(v)
        BY <1>12, <2>3, <4>1
      <4>3. QED
        BY <2>2, <3>1, <3>3, <4>2
    <3>4. QED
      BY <3>2, <3>3
  <2>4. ASSUME NEW v, v \notin crossed', v # NoUpstream, NEW c \in Backends
        PROVE  Count(inBackend', <<v, c>>) = Cardinality(HeldAt(v, c)')
    <3>k. PICK k : k = <<t.upstream, t.held>>
      OBVIOUS
    <3>0. inBackend' = IF k \in DOMAIN inBackend
                       THEN With(inBackend, k, Count(inBackend, k) - 1) ELSE inBackend
      BY <1>14, <1>b, <3>k
    <3>1. Count(inBackend, <<v, c>>) = Cardinality(HeldAt(v, c)) /\ v \notin crossed
      BY <1>0, <1>5, <2>4 DEF UpstreamCount
    <3>2. \A j : j # k => Count(inBackend', j) = Count(inBackend, j)
      <4>1. Count(inBackend, k) - 1 \in Int /\ Counter(inBackend)
        BY <1>0, CountType DEF FlightType
      <4>2. QED
        BY <3>0, <4>1, CountWith
    <3>3. CASE <<v, c>> = k
      <4>1. v = t.upstream /\ c = t.held /\ v = t.counter
        BY <2>1, <3>1, <3>3, <3>k
      <4>2. /\ Cardinality(HeldAt(v, c)') = Cardinality(HeldAt(v, c)) - 1
            /\ Cardinality(HeldAt(v, c)) \in Nat /\ r \in HeldAt(v, c)
        BY <1>12, <2>1, <4>1, Joins
      <4>3. Cardinality(HeldAt(v, c)) # 0
        <5>1. IsFiniteSet(HeldAt(v, c))
          BY <1>12, InFlightAssumption, FS_Subset
        <5>2. QED
          BY <4>2, <5>1, FS_EmptySet
      <4>4. k \in DOMAIN inBackend
        BY <3>1, <3>3, <4>3 DEF Count
      <4>5. Count(inBackend, k) - 1 \in Int /\ Counter(inBackend)
        BY <1>0, CountType DEF FlightType
      <4>6. Count(inBackend', k) = Count(inBackend, k) - 1
        BY <3>0, <4>4, <4>5, CountWith
      <4>7. QED
        BY <3>1, <3>3, <4>2, <4>6
    <3>4. CASE <<v, c>> # k
      <4>1. v = t.counter => c # t.held
        BY <2>1, <3>1, <3>4, <3>k
      <4>2. HeldAt(v, c)' = HeldAt(v, c)
        BY <1>12, <2>1, <2>4, <4>1
      <4>3. QED
        BY <3>1, <3>2, <3>4, <4>2
    <3>5. QED
      BY <3>3, <3>4
  <2>5. UpstreamCount'
    BY <2>3, <2>4 DEF UpstreamCount
  <2>6. HoldingCount'
    <3>1. Holding' = Holding \ {r} /\ r \in Holding /\ Holding \in SUBSET Requests
      BY <1>3, <1>4, <1>14, <1>t DEF Holding
    <3>2. /\ Cardinality(Holding') = Cardinality(Holding) - 1
          /\ Cardinality(Holding) \in Nat
      BY <3>1, Joins
    <3>3. SumFunction(inUpstream') = SumFunction(inUpstream) + (-1)
      <4>1. Counter(inUpstream) /\ inUpstream' = Add(inUpstream, t.upstream, -1) /\ -1 \in Int
            /\ IsFiniteSet(DOMAIN inUpstream)
        BY <1>0, <1>1, <1>14 DEF FlightType
      <4>2. QED
        BY <4>1, SumAdd
    <3>4. QED
      BY <1>0, <3>2, <3>3 DEF HoldingCount
  <2>7. QED
    BY <1>6, <1>7, <1>8, <1>10, <1>11, <2>5, <2>6 DEF FlightInv
<1>15. QED
  BY <1>13, <1>14

\* Every step keeps the counts.
LEMMA FlightInductive == TypeInv /\ FlightInv /\ [FlightNext]_allVars => FlightInv'
<1> SUFFICES ASSUME TypeInv, FlightInv, [FlightNext]_allVars PROVE FlightInv'
  OBVIOUS
<1>1. CASE (Pushes \/ WatcherStep) /\ UNCHANGED flight
  BY <1>1, PlaneFlight
<1>2. ASSUME NEW r \in Requests, NEW s \in Sites, Locate(r, s) PROVE FlightInv'
  BY <1>2, LocateFlight
<1>3. ASSUME NEW r \in Requests, PluginsFor(r) /\ UNCHANGED flight PROVE FlightInv'
  BY <1>3, PlaneFlight
<1>4. ASSUME NEW r \in Requests, UpstreamPeer(r) PROVE FlightInv'
  BY <1>4, PeerFlight
<1>5. ASSUME NEW r \in Requests, FailToConnect(r) \/ ReusedFails(r) PROVE FlightInv'
  <2>1. trip[r].retries \in Nat
    BY DEF FlightInv, FlightType, Trips
  <2>2. trip[r].retries + 1 \in Nat
    BY <2>1
  <2>3. Retries(r, trip[r].retries) \/ Retries(r, trip[r].retries + 1)
    BY <1>5 DEF FailToConnect, ReusedFails
  <2>4. QED
    BY <2>1, <2>2, <2>3, RetryFlight
<1>6. ASSUME NEW r \in Requests, Logging(r) PROVE FlightInv'
  BY <1>6, LoggingFlight
<1>7. CASE UNCHANGED allVars
  <2>1. UNCHANGED flight /\ UNCHANGED vars
    BY <1>7 DEF allVars
  <2>2. QED
    BY <2>1, PlaneFlight
<1>8. QED
  BY <1>1, <1>2, <1>3, <1>4, <1>5, <1>6, <1>7 DEF FlightNext

\* The counts are those of the requests in flight.
LEMMA FlightCounts == TypeInv /\ FlightInv => InFlightExact
<1> SUFFICES ASSUME TypeInv, FlightInv PROVE InFlightExact
  OBVIOUS
<1>1. FlightType /\ LocationCount /\ LimitKept /\ UpstreamCount /\ HoldingCount
  BY DEF FlightInv
<1>2. ASSUME NEW l \in LocationsSeen
      PROVE  LET here == {r \in Requests : Flying(r) /\ trip[r].location = l} IN
             /\ Count(inLocation, l) = Cardinality(here)
             /\ \A r \in here :
                  trip[r].max # 0 =>
                    Cardinality({q \in here : trip[q].at # "rejected"}) <= trip[r].max
  BY <1>1 DEF LocationCount, LimitKept, Here, Admitted
<1>3. NoUpstream \notin UpstreamsSeen
  <2>1. NoUpstream \notin Range(upstreams) /\ NoUpstream \notin DOMAIN inUpstream
    BY <1>1, UpstreamIsOne DEF FlightType, Range
  <2>2. ASSUME NEW k \in DOMAIN inBackend PROVE k[1] # NoUpstream
    BY <1>1, UpstreamIsOne DEF FlightType
  <2>3. QED
    BY <2>1, <2>2 DEF UpstreamsSeen
<1>4. ASSUME NEW u \in UpstreamsSeen \ crossed
      PROVE  /\ Count(inUpstream, u) = Cardinality(CountedBy(u))
             /\ \A b \in Backends :
                  Count(inBackend, <<u, b>>) =
                    Cardinality({r \in CountedBy(u) : trip[r].held = b})
  BY <1>1, <1>3 DEF UpstreamCount, HeldAt
<1>5. SumFunction(inUpstream) = Cardinality({r \in Requests : trip[r].held # NoBackend})
  BY <1>1 DEF HoldingCount, Holding
<1>6. QED
  BY <1>2, <1>4, <1>5 DEF InFlightExact

\* Whatever way requests end, and however reloads and retries come in between,
\* what is counted is what is in flight, and no location admits more than its
\* max_processing (InFlightExact), for any requests, backends, sites and pushes.
THEOREM InFlightCounted == FlightSpec => []InFlightExact
<1>1. FlightInit => FlightInv
  BY InitFlight
<1>2. TypeInv /\ FlightInv /\ [FlightNext]_allVars => FlightInv'
  BY FlightInductive
<1>3. ReloadInv => TypeInv
  BY DEF ReloadInv
<1>4. FlightSpec => []TypeInv
  BY <1>3, FlightRefines, ReloadInductive, PTL
<1>5. FlightSpec => []FlightInv
  BY <1>1, <1>2, <1>4, PTL DEF FlightSpec
<1>6. QED
  BY <1>4, <1>5, FlightCounts, PTL

-----------------------------------------------------------------------------
(* The circuit breaker *)

Labels == {"idle", "asked", "check", "rejected", "sent", "succeeded", "failed",
           "count", "close", "trying", "judge"}

BreakerTypes ==
  /\ circuit \in {"closed", "open", "half"} /\ lock \in Threads \cup {NoThread}
  /\ probesSent \in 0..Threshold /\ successes \in 0..Threshold
  /\ stage \in [Threads -> Labels] /\ loaded \in [Threads -> {"closed", "open", "half"}]
  /\ probes \in Nat

\* An open breaker's half-open deadline has passed: a thread that had read
\* HALF_OPEN finds it overdue.
DeadlineInv == circuit = "open" => overdue

\* As long as no two threads met in the breaker, what the one in it has read is
\* still so, and probes_sent is no smaller than the number of probes.
Alone ==
  /\ ~Overlap
  /\ \A t \in Threads : stage[t] \in {"asked", "check"} => circuit = loaded[t]
  /\ probes <= Threshold
  /\ circuit = "half" => probes <= probesSent
SerialInv == ~overlapped => Alone

BreakerInv == BreakerTypes /\ DeadlineInv /\ SerialInv

\* The breaker is closed and nobody is in it at first.
LEMMA InitBreaker == BreakerInit => BreakerInv
<1> SUFFICES ASSUME BreakerInit PROVE BreakerInv
  OBVIOUS
<1> USE BreakerAssumption DEF BreakerInit
<1>1. BreakerTypes
  BY DEF BreakerTypes, Labels
<1>2. DeadlineInv
  BY DEF DeadlineInv
<1>3. Alone
  BY DEF Alone, Overlap, InBreaker
<1>4. QED
  BY <1>1, <1>2, <1>3 DEF BreakerInv, SerialInv

\* Every step keeps the types.
LEMMA NextBreakerTypes == ASSUME BreakerTypes, Step PROVE BreakerTypes'
<1> USE BreakerAssumption DEF BreakerTypes, Labels, Goto, Load, TryLock, OneMore, data
<1>1. ASSUME NEW t \in Threads, Ask(t) PROVE BreakerTypes'
  BY <1>1 DEF Ask
<1>2. ASSUME NEW t \in Threads, AskLock(t) PROVE BreakerTypes'
  BY <1>2 DEF AskLock
<1>3. ASSUME NEW t \in Threads, CheckOpen(t) PROVE BreakerTypes'
  BY <1>3 DEF CheckOpen
<1>4. ASSUME NEW t \in Threads, CheckHalfOpen(t) PROVE BreakerTypes'
  BY <1>4 DEF CheckHalfOpen
<1>5. ASSUME NEW t \in Threads, Rejected(t) PROVE BreakerTypes'
  BY <1>5 DEF Rejected
<1>6. ASSUME NEW t \in Threads, Succeeds(t) \/ Fails(t) \/ Vanishes(t) PROVE BreakerTypes'
  BY <1>6 DEF Succeeds, Fails, Vanishes
<1>7. ASSUME NEW t \in Threads, LoadAfterSuccess(t) \/ CountSuccesses(t) \/ Close(t)
      PROVE  BreakerTypes'
  BY <1>7 DEF LoadAfterSuccess, CountSuccesses, Close
<1>8. ASSUME NEW t \in Threads, LoadAfterFailure(t) \/ FailureLock(t) PROVE BreakerTypes'
  BY <1>8 DEF LoadAfterFailure, FailureLock
<1>9. ASSUME NEW t \in Threads, Judge(t) PROVE BreakerTypes'
  BY <1>9 DEF Judge, Trip
<1>10. ASSUME CoolDown \/ ProbesOverdue PROVE BreakerTypes'
  BY <1>10 DEF CoolDown, ProbesOverdue
<1>11. QED
  BY <1>1, <1>2, <1>3, <1>4, <1>5, <1>6, <1>7, <1>8, <1>9, <1>10 DEF Step, ThreadStep

\* Whatever opens the breaker leaves the deadline passed, and only the thread
\* that half-opens it sets a new one.
LEMMA NextDeadline == ASSUME DeadlineInv, Step PROVE DeadlineInv'
<1> USE DEF DeadlineInv, data
<1>1. ASSUME NEW t \in Threads, CheckOpen(t) PROVE DeadlineInv'
  BY <1>1 DEF CheckOpen
<1>2. ASSUME NEW t \in Threads, CheckHalfOpen(t) PROVE DeadlineInv'
  BY <1>2 DEF CheckHalfOpen
<1>3. ASSUME NEW t \in Threads, Judge(t) PROVE DeadlineInv'
  BY <1>3 DEF Judge, Trip
<1>4. ASSUME NEW t \in Threads, Close(t) PROVE DeadlineInv'
  BY <1>4 DEF Close
<1>5. ASSUME NEW t \in Threads,
             \/ Ask(t) \/ AskLock(t) \/ Rejected(t)
             \/ Succeeds(t) \/ Fails(t) \/ Vanishes(t)
             \/ LoadAfterSuccess(t) \/ CountSuccesses(t)
             \/ LoadAfterFailure(t) \/ FailureLock(t)
      PROVE  DeadlineInv'
  BY <1>5 DEF Ask, AskLock, Rejected, Succeeds, Fails, Vanishes, LoadAfterSuccess,
              CountSuccesses, LoadAfterFailure, FailureLock
<1>6. ASSUME CoolDown \/ ProbesOverdue PROVE DeadlineInv'
  BY <1>6 DEF CoolDown, ProbesOverdue
<1>7. QED
  BY <1>1, <1>2, <1>3, <1>4, <1>5, <1>6 DEF Step, ThreadStep

\* A thread that is alone in the breaker and stays so: what it changes is what
\* it has read.
LEMMA NextAlone == ASSUME BreakerTypes, Alone, Step, ~Overlap' PROVE Alone'
<1> USE BreakerAssumption DEF BreakerTypes, Alone, Goto, Load, TryLock, data
<1>0. \A t, u \in Threads : InBreaker(t) /\ InBreaker(u) => t = u
  BY DEF Overlap
<1>1. ASSUME NEW t \in Threads, Ask(t) PROVE Alone'
  BY <1>1 DEF Ask
<1>2. ASSUME NEW t \in Threads, AskLock(t) PROVE Alone'
  BY <1>2 DEF AskLock
<1>3. ASSUME NEW t \in Threads, CheckOpen(t) PROVE Alone'
  <2>1. circuit = "open" /\ InBreaker(t)
    BY <1>3 DEF CheckOpen, InBreaker
  <2>2. \A u \in Threads : ~(stage'[u] \in {"asked", "check"})
    BY <1>0, <1>3, <2>1 DEF CheckOpen, InBreaker
  <2>3. CASE cooled
    BY <1>3, <2>1, <2>2, <2>3 DEF CheckOpen
  <2>4. CASE ~cooled
    BY <1>3, <2>2, <2>4 DEF CheckOpen
  <2>5. QED
    BY <2>3, <2>4
<1>4. ASSUME NEW t \in Threads, CheckHalfOpen(t) PROVE Alone'
  <2>1. circuit = "half" /\ InBreaker(t) /\ probes <= probesSent
    BY <1>4 DEF CheckHalfOpen, InBreaker
  <2>2. \A u \in Threads : ~(stage'[u] \in {"asked", "check"})
    BY <1>0, <1>4, <2>1 DEF CheckHalfOpen, InBreaker
  <2>3. CASE ~overdue /\ probesSent < Threshold
    BY <1>4, <2>1, <2>2, <2>3 DEF CheckHalfOpen, OneMore
  <2>4. CASE overdue \/ ~(probesSent < Threshold)
    BY <1>4, <2>1, <2>2, <2>4 DEF CheckHalfOpen
  <2>5. QED
    BY <2>3, <2>4
<1>5. ASSUME NEW t \in Threads, Close(t) \/ Judge(t) PROVE Alone'
  <2>1. InBreaker(t)
    BY <1>5 DEF Close, Judge, InBreaker
  <2>2. \A u \in Threads : ~(stage'[u] \in {"asked", "check"})
    BY <1>0, <1>5, <2>1 DEF Close, Judge, InBreaker
  <2>3. QED
    BY <1>5, <2>2 DEF Close, Judge, Trip
<1>6. ASSUME NEW t \in Threads,
             Rejected(t) \/ Succeeds(t) \/ Fails(t) \/ Vanishes(t) \/ CountSuccesses(t)
      PROVE  Alone'
  BY <1>6 DEF Rejected, Succeeds, Fails, Vanishes, CountSuccesses
<1>7. ASSUME NEW t \in Threads,
             LoadAfterSuccess(t) \/ LoadAfterFailure(t) \/ FailureLock(t)
      PROVE  Alone'
  BY <1>7 DEF LoadAfterSuccess, LoadAfterFailure, FailureLock
<1>8. ASSUME CoolDown \/ ProbesOverdue PROVE Alone'
  BY <1>8 DEF CoolDown, ProbesOverdue
<1>9. QED
  BY <1>1, <1>2, <1>3, <1>4, <1>5, <1>6, <1>7, <1>8 DEF Step, ThreadStep

\* Every step keeps BreakerInv.
LEMMA NextBreaker == BreakerInv /\ [BreakerNext]_breakerVars => BreakerInv'
<1>1. ASSUME BreakerInv, BreakerNext PROVE BreakerInv'
  <2>1. BreakerTypes' /\ DeadlineInv'
    BY <1>1, NextBreakerTypes, NextDeadline DEF BreakerInv, BreakerNext
  <2>2. ~overlapped' => ~overlapped /\ ~Overlap'
    BY <1>1, Zenon DEF BreakerNext
  <2>3. ~overlapped' => Alone'
    BY <1>1, <2>2, NextAlone DEF BreakerInv, SerialInv, BreakerNext
  <2>4. QED
    BY <2>1, <2>3 DEF BreakerInv, SerialInv
<1>2. ASSUME BreakerInv, UNCHANGED breakerVars PROVE BreakerInv'
  BY <1>2 DEF BreakerInv, BreakerTypes, DeadlineInv, SerialInv, Alone, Overlap, InBreaker,
              breakerVars, data
<1>3. QED
  BY <1>1, <1>2

\* is_backend_acceptable and update_state_after_request: as long as no two
\* threads are in the breaker at once, no more probes than the threshold pass a
\* half-open breaker.
THEOREM ProbesStayBounded == BreakerSpec => []SerialProbesBounded
<1>1. BreakerInv => SerialProbesBounded
  BY DEF BreakerInv, BreakerTypes, SerialInv, Alone, SerialProbesBounded
<1>2. QED
  BY <1>1, InitBreaker, NextBreaker, PTL DEF BreakerSpec

\* No thread is let through an open breaker that is still cooling down, with
\* whatever older state it has read and however the threads interleave.
THEOREM CoolingHolds == BreakerSpec => CoolingRejects
<1>1. BreakerInv /\ [BreakerNext]_breakerVars
      => [\A t \in Threads :
            stage[t] = "check" /\ stage'[t] = "sent" => circuit # "open" \/ cooled]_breakerVars
  <2> SUFFICES ASSUME BreakerInv, Step, NEW t \in Threads,
                      stage[t] = "check", stage'[t] = "sent"
               PROVE  circuit # "open" \/ cooled
    BY DEF BreakerNext
  <2>1. stage \in [Threads -> Labels] /\ (circuit = "open" => overdue)
    BY DEF BreakerInv, BreakerTypes, DeadlineInv
  <2>2. CheckOpen(t) \/ CheckHalfOpen(t)
    <3>1. PICK u \in Threads : ThreadStep(u)
      BY DEF Step, CoolDown, ProbesOverdue
    <3>2. u = t
      BY <2>1, <3>1 DEF ThreadStep, Ask, AskLock, CheckOpen, CheckHalfOpen, Rejected,
           Succeeds, Fails, Vanishes, LoadAfterSuccess, CountSuccesses, Close,
           LoadAfterFailure, FailureLock, Judge, Goto, TryLock
    <3>3. QED
      BY <3>1, <3>2 DEF ThreadStep, Ask, AskLock, Rejected, Succeeds, Fails, Vanishes,
           LoadAfterSuccess, CountSuccesses, Close, LoadAfterFailure, FailureLock, Judge
  <2>3. CASE CheckOpen(t)
    BY <2>1, <2>3 DEF CheckOpen, Goto
  <2>4. CASE CheckHalfOpen(t)
    BY <2>1, <2>4 DEF CheckHalfOpen, Goto
  <2>5. QED
    BY <2>2, <2>3, <2>4
<1>2. QED
  BY <1>1, InitBreaker, NextBreaker, PTL DEF BreakerSpec, CoolingRejects
=============================================================================
