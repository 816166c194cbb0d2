----------------------------- MODULE MCInFlight ------------------------------
EXTENDS InFlight

\* The settings of a site at the start; others with another upstream, a limit
\* and no plugin; and a change of the plugin along with an upstream that cannot be
\* built.
Guarded == [up |-> "u", own |-> "p1", max |-> 0]
Plain == [up |-> "v", own |-> NoPlugin, max |-> 1]
Faulty == [up |-> "bad", own |-> "p2", max |-> 0]
SiteConfs == {Guarded, Plain, Faulty}

\* Requests, sites and backends are not told apart.
Symmetries == Permutations(Requests) \cup Permutations(Sites) \cup Permutations(Backends)
=============================================================================
