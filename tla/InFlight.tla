------------------------------ MODULE InFlight ------------------------------
(* The requests in flight: a location's processing, which max_processing     *)
(* limits (pingap-location/src/location.rs), an upstream's processing and    *)
(* the counters of least_connections by which it balances                    *)
(* (pingap-upstream/src), which the proxy (pingap-proxy/src/server.rs)       *)
(* raises and lowers around each request and its retries, under the reloads  *)
(* of HotReload.                                                             *)
(*                                                                           *)
(* Any backend may be selected, or none: health and the circuit breaker may  *)
(* reject the one with the fewest requests.  traffic_splitting, which        *)
(* overrides the upstream, is left out.                                      *)
EXTENDS HotReload

CONSTANTS Backends,
          MaxRetries,   \* max_retries
          MaxAttempts,  \* bound: attempts of a request
          NoBackend

ASSUME InFlightAssumption ==
  /\ MaxRetries \in Nat /\ MaxAttempts \in Nat \ {0}
  /\ NoBackend \notin Backends /\ IsFiniteSet(Requests) /\ "none" \notin Sites

VARIABLES
  trip,        \* where each request is, and its context; bound: each comes once
  inLocation,  \* Location.processing, where it is not 0
  inUpstream,  \* Upstream.processing, where it is not 0
  inBackend,   \* InflightCounters.counts: <<upstream, backend>> to a count
  \* history
  crossed      \* upstreams that a request was counted by, and left for another,
               \* and the others

flight == <<trip, inLocation, inUpstream, inBackend, crossed>>
allVars == <<vars, flight>>

NoUpstream == NewUpstream("none", "none", 0)

Home == [at |-> "home",
         location |-> <<"none", 0>>,    \* location_instance...
         max |-> 0,                     \* ...and its max_processing
         name |-> "none",               \* upstream.name
         upstream |-> NoUpstream,       \* upstream_instance
         held |-> NoBackend,            \* inflight_address; processing_counted
                                        \* unless there is none
         retries |-> 0, attempts |-> 0,
         counter |-> NoUpstream]        \* history: who counted it

FlightInit ==
  /\ Init /\ trip = [r \in Requests |-> Home]
  /\ inLocation = <<>> /\ inUpstream = <<>> /\ inBackend = <<>> /\ crossed = {}

Count(f, k) == IF k \in DOMAIN f THEN f[k] ELSE 0
Add(f, k, n) ==
  IF Count(f, k) + n = 0 THEN Restrict(f, DOMAIN f \ {k}) ELSE With(f, k, Count(f, k) + n)

Go(r, q) == trip' = [trip EXCEPT ![r] = q]

-----------------------------------------------------------------------------
\* find_and_apply_location.  on_request counts the request before it may reject
\* it.
Locate(r, s) ==
  LET l == <<s, locations[s].id>>
      max == locations[s].max
      Now(p) == Go(r, [Home EXCEPT !.at = p, !.location = l, !.max = max]) IN
  /\ trip[r].at = "home" /\ s \in routes \cap DOMAIN locations
  /\ inLocation' = Add(inLocation, l, 1)
  /\ IF max # 0 /\ Count(inLocation, l) + 1 > max THEN Now("rejected") /\ UNCHANGED vars
     ELSE Now("located") /\ IF locations[s].named THEN Find(r, s) ELSE UNCHANGED vars
  /\ UNCHANGED <<inUpstream, inBackend, crossed>>

\* Mutant: a retry is told by the count that fail_to_connect keeps.
FirstAttemptByRetries(r) == trip[r].retries = 0

FirstAttempt(r) == trip[r].held = NoBackend

\* The upstream of the location or, later, the one of the name that the first
\* attempt's upstream has.
UpstreamName(r) == IF trip[r].name = "none" THEN trip[r].location[1] ELSE trip[r].name

\* new_http_peer, with a backend.
Connect(r, u, b) ==
  LET q == [trip[r] EXCEPT !.at = "connect", !.upstream = u, !.name = u.name,
                           !.attempts = @ + 1] IN
  /\ IF FirstAttempt(r)
     THEN /\ inBackend' = With(inBackend, <<u, b>>, Count(inBackend, <<u, b>>) + 1)
          /\ inUpstream' = Add(inUpstream, u, 1)
          /\ Go(r, [q EXCEPT !.held = b, !.counter = u])
     ELSE Go(r, q) /\ UNCHANGED <<inBackend, inUpstream>>
  /\ crossed' = IF trip[r].counter \in {u, NoUpstream} THEN crossed
                ELSE crossed \cup {u, trip[r].counter}

\* upstream_peer: no such upstream, no backend, or one.
UpstreamPeer(r) ==
  /\ trip[r].at \in {"located", "retry"} /\ phase[r] = "none"
  /\ IF UpstreamName(r) \notin DOMAIN upstreams
     THEN Go(r, [trip[r] EXCEPT !.at = "failed"]) /\ UNCHANGED <<inBackend, inUpstream, crossed>>
     ELSE LET u == upstreams[UpstreamName(r)] IN
          \/ /\ Go(r, [trip[r] EXCEPT !.at = "failed", !.upstream = u, !.name = u.name])
             /\ crossed' = IF trip[r].counter \in {u, NoUpstream} THEN crossed
                           ELSE crossed \cup {u, trip[r].counter}
             /\ UNCHANGED <<inBackend, inUpstream>>
          \/ \E b \in Backends : Connect(r, u, b)
  /\ UNCHANGED <<vars, inLocation>>

\* A connection that fails, and is tried again.
Retries(r, n) ==
  /\ trip[r].at = "connect" /\ trip[r].attempts < MaxAttempts
  /\ Go(r, [trip[r] EXCEPT !.at = "retry", !.retries = n])
  /\ UNCHANGED <<vars, inLocation, inUpstream, inBackend, crossed>>

\* fail_to_connect, unless the method, max_retries or max_retry_window forbid it.
FailToConnect(r) == trip[r].retries < MaxRetries /\ Retries(r, trip[r].retries + 1)

\* pingora's error_while_proxy: a reused connection turns out to be closed.
ReusedFails(r) == Retries(r, trip[r].retries)

\* release: of a backend that was acquired once.
Release(u, b) ==
  inBackend' = IF <<u, b>> \in DOMAIN inBackend
               THEN With(inBackend, <<u, b>>, inBackend[<<u, b>>] - 1) ELSE inBackend

\* The request is over: answered by a plugin, from the cache or by the backend,
\* or with an error.  logging lowers what was raised.
Logging(r) ==
  LET q == trip[r] IN
  /\ q.at \in {"located", "rejected", "failed", "connect"} /\ phase[r] = "none"
  /\ Go(r, [Home EXCEPT !.at = "over"]) /\ inLocation' = Add(inLocation, q.location, -1)
  /\ IF q.held = NoBackend THEN UNCHANGED <<inUpstream, inBackend>>
     ELSE inUpstream' = Add(inUpstream, q.upstream, -1) /\ Release(q.upstream, q.held)
  /\ UNCHANGED <<vars, crossed>>

FlightNext ==
  \/ Pushes /\ UNCHANGED flight
  \/ WatcherStep /\ UNCHANGED flight
  \/ \E r \in Requests :
       \/ \E s \in Sites : Locate(r, s)
       \/ PluginsFor(r) /\ UNCHANGED flight
       \/ UpstreamPeer(r) \/ FailToConnect(r) \/ ReusedFails(r) \/ Logging(r)

FlightSpec == FlightInit /\ [][FlightNext]_allVars

-----------------------------------------------------------------------------
Flying(r) == trip[r].at \notin {"home", "over"}
CountedBy(u) == {r \in Requests : Flying(r) /\ trip[r].counter = u}
UpstreamsSeen ==
  Range(upstreams) \cup DOMAIN inUpstream \cup {k[1] : k \in DOMAIN inBackend}
LocationsSeen ==
  DOMAIN inLocation \cup {<<s, locations[s].id>> : s \in DOMAIN locations}

\* What is counted is what is in flight, whatever way requests end: in a
\* location, which admits no more than max_processing; and in an upstream and
\* at each of its backends, if no request was retried at another upstream than
\* the one that counted it.  Even then nothing is lost or counted twice in all.
InFlightExact ==
  /\ \A l \in LocationsSeen :
       LET here == {r \in Requests : Flying(r) /\ trip[r].location = l} IN
       /\ Count(inLocation, l) = Cardinality(here)
       /\ \A r \in here :
            trip[r].max # 0 => Cardinality({q \in here : trip[q].at # "rejected"}) <= trip[r].max
  /\ \A u \in UpstreamsSeen \ crossed :
       /\ Count(inUpstream, u) = Cardinality(CountedBy(u))
       /\ \A b \in Backends :
            Count(inBackend, <<u, b>>) = Cardinality({r \in CountedBy(u) : trip[r].held = b})
  /\ SumFunction(inUpstream) = Cardinality({r \in Requests : trip[r].held # NoBackend})

\* logging: "only decrement when this request actually incremented the
\* counter".  (Violated: a retry after a reload finds another upstream, whose
\* counter is lowered in the place of the one that was raised.)
CountersBalance ==
  \A u \in UpstreamsSeen : Count(inUpstream, u) = Cardinality(CountedBy(u))

\* "Upstream names are per-site routing aliases": a request is sent to the
\* upstream of its site.  (Violated: a retry goes by the name that the shared
\* upstream was built for.  Once the site of that name has another upstream, all
\* retries of its aliases' requests go there.)
OwnUpstream ==
  [][\A r \in Requests :
       LET s == trip[r].location[1] IN
       trip'[r].at = "connect" /\ trip[r].at # "connect" /\ s \in DOMAIN upstreams =>
         trip'[r].upstream = upstreams[s]]_allVars
=============================================================================
