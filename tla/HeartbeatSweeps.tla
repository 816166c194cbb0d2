--------------------------- MODULE HeartbeatSweeps ---------------------------
(* The hourly sweeps that ride on the agents' heartbeats                     *)
(* (pingwaf-server/src/grpc/control_plane.rs, persist_heartbeat and          *)
(* persist_host_samples).                                                    *)
(*                                                                           *)
(* Each sweep is throttled by a static that holds the time of the last one.  *)
(* Every stream's task runs the sweeps after each heartbeat; no two lines of *)
(* a throttle have an await between them, so the clock, whose unit is a      *)
(* fraction of an hour, does not move within one, but other tasks run.       *)
(* sweep_agent_metrics, which ship_metrics calls, is throttled as            *)
(* sweep_host_samples is.                                                    *)
EXTENDS Naturals

CONSTANTS Streams,  \* the tasks of the agents' heartbeat streams
          Window    \* clock ticks in an hour

ASSUME WindowAssumption == Window \in Nat \ {0}

Sweeps == {"certs", "agents", "samples"}

VARIABLES
  age,      \* now minus LAST_CERT_SWEEP, LAST_AGENT_SWEEP, LAST_SAMPLE_SWEEP;
            \* Window stands for all that is longer
  pc,       \* where a task is
  current,  \* the value a task loaded is still the one stored
  row,      \* the row of some agent: online, offline for over a week, or gone
  doomed,   \* the row is among those the task is about to delete
  \* history
  since     \* as age, of the last time the sweep went ahead

sweepVars == <<age, pc, current, row, doomed, since>>

SweepInit ==
  /\ age = [w \in Sweeps |-> Window]
  /\ since = age
  /\ pc = [t \in Streams |-> "idle"]
  /\ current = [t \in Streams |-> FALSE]
  /\ row = "online"
  /\ doomed = [t \in Streams |-> FALSE]

TaskAt(t, l) == pc[t] = l
Goto(t, l) == pc' = [pc EXCEPT ![t] = l]
Recent(w) == age[w] < Window

\* The sweep goes ahead.
Begin(w) == since' = [since EXCEPT ![w] = 0]

-----------------------------------------------------------------------------
\* A heartbeat has been received, and the agent's row updated.
Heartbeat(t) ==
  /\ TaskAt(t, "idle") /\ Goto(t, "load")
  /\ UNCHANGED <<age, current, row, doomed, since>>

\* Mutant: the certificate sweep's throttle begins with a swap, too.
LoadCertSwapped(t) ==
  /\ TaskAt(t, "load")
  /\ age' = [age EXCEPT !["certs"] = 0]
  /\ current' = [u \in Streams |-> u = t]
  /\ Goto(t, IF Recent("certs") THEN "swap" ELSE "cas")
  /\ UNCHANGED <<row, doomed, since>>

\* LAST_CERT_SWEEP.load, and the comparison.
LoadCert(t) ==
  /\ TaskAt(t, "load")
  /\ current' = [current EXCEPT ![t] = ~Recent("certs")]
  /\ Goto(t, IF Recent("certs") THEN "swap" ELSE "cas")
  /\ UNCHANGED <<age, row, doomed, since>>

\* Mutant: a plain store.
StoreCert(t) ==
  /\ TaskAt(t, "cas")
  /\ age' = [age EXCEPT !["certs"] = 0]
  /\ current' = [u \in Streams |-> FALSE]
  /\ Begin("certs") /\ Goto(t, "certs")
  /\ UNCHANGED <<row, doomed>>

\* Mutant: the sweep goes ahead without storing the time.
CasCertUnstored(t) ==
  /\ TaskAt(t, "cas")
  /\ IF current[t] THEN Begin("certs") /\ Goto(t, "certs")
     ELSE Goto(t, "swap") /\ UNCHANGED since
  /\ UNCHANGED <<age, current, row, doomed>>

\* compare_exchange: fails if another task has stored since the load.
CasCert(t) ==
  /\ TaskAt(t, "cas")
  /\ IF current[t]
     THEN /\ age' = [age EXCEPT !["certs"] = 0]
          /\ current' = [u \in Streams |-> FALSE]
          /\ Begin("certs") /\ Goto(t, "certs")
     ELSE Goto(t, "swap") /\ UNCHANGED <<age, current, since>>
  /\ UNCHANGED <<row, doomed>>

\* sweep_stale_pending_certificates, see CertificateRow.
SweepCerts(t) ==
  /\ TaskAt(t, "certs") /\ Goto(t, "swap")
  /\ UNCHANGED <<age, current, row, doomed, since>>

\* The throttle of the other sweeps: swap first, then look at what was there.
Swap(t, w, here, go, skip) ==
  /\ TaskAt(t, here)
  /\ age' = [age EXCEPT ![w] = 0]
  /\ IF Recent(w) THEN Goto(t, skip) /\ UNCHANGED since
     ELSE Goto(t, go) /\ Begin(w)
  /\ UNCHANGED <<current, row, doomed>>

SwapAgents(t) == Swap(t, "agents", "swap", "list", "samples")
SwapSamples(t) == Swap(t, "samples", "samples", "prune", "idle")

\* sweep_offline_agents: the ids of the stale rows; none, or an error, ends
\* the sweep.
ListAgents(t) ==
  /\ TaskAt(t, "list")
  /\ \/ /\ row = "stale"
        /\ doomed' = [doomed EXCEPT ![t] = TRUE] /\ Goto(t, "delete")
     \/ Goto(t, "samples") /\ UNCHANGED doomed
  /\ UNCHANGED <<age, current, row, since>>

\* delete_many by id, or an error.  What the registry holds for the ids is
\* dropped next: Forget of AgentRegistry.
DeleteAgents(t) ==
  /\ TaskAt(t, "delete")
  /\ doomed' = [doomed EXCEPT ![t] = FALSE]
  /\ Goto(t, "samples")
  /\ row' \in {row, "gone"}
  /\ UNCHANGED <<age, current, since>>

\* sweep_host_samples deletes the samples past their retention.
PruneSamples(t) ==
  /\ TaskAt(t, "prune") /\ Goto(t, "idle")
  /\ UNCHANGED <<age, current, row, doomed, since>>

-----------------------------------------------------------------------------
\* The observed agent stays away for a week.
GoesStale ==
  /\ row = "online" /\ row' = "stale"
  /\ UNCHANGED <<age, pc, current, doomed, since>>

\* register_agent takes the row over, or makes a new one.
Registers ==
  /\ row # "online" /\ row' = "online"
  /\ UNCHANGED <<age, pc, current, doomed, since>>

Tick ==
  /\ \A t \in Streams : ~TaskAt(t, "cas")
  /\ LET older(n) == IF n < Window THEN n + 1 ELSE n IN
       /\ age' = [w \in Sweeps |-> older(age[w])]
       /\ since' = [w \in Sweeps |-> older(since[w])]
  /\ UNCHANGED <<pc, current, row, doomed>>

TaskStep(t) ==
  \/ Heartbeat(t) \/ LoadCert(t) \/ CasCert(t) \/ SweepCerts(t)
  \/ SwapAgents(t) \/ ListAgents(t) \/ DeleteAgents(t)
  \/ SwapSamples(t) \/ PruneSamples(t)

SweepNext == (\E t \in Streams : TaskStep(t)) \/ GoesStale \/ Registers \/ Tick

\* The agents' streams heartbeat, their tasks are scheduled, and time passes.
Fairness == WF_sweepVars(Tick) /\ \A t \in Streams : WF_sweepVars(TaskStep(t))

SweepSpec == SweepInit /\ [][SweepNext]_sweepVars /\ Fairness

-----------------------------------------------------------------------------
\* Types; and a static is never older than the sweep that it throttles: what
\* LAST_CERT_SWEEP and the others hold is at least as recent as the last time
\* the sweep went ahead.
StampNotOlder ==
  /\ age \in [Sweeps -> 0..Window] /\ since \in [Sweeps -> 0..Window]
  /\ pc \in [Streams -> {"idle", "load", "cas", "certs", "swap", "list",
                       "delete", "samples", "prune"}]
  /\ current \in [Streams -> BOOLEAN] /\ doomed \in [Streams -> BOOLEAN]
  /\ row \in {"online", "stale", "gone"}
  /\ \A w \in Sweeps : age[w] <= since[w]

\* "at most once an hour", of all three: however the tasks' loads, stores and
\* swaps interleave, no sweep goes ahead twice within an hour.
AtMostHourly ==
  [][\A t \in Streams :
       /\ pc'[t] = "certs" /\ pc[t] # "certs" => since["certs"] = Window
       /\ pc'[t] = "list" /\ pc[t] # "list" => since["agents"] = Window
       /\ pc'[t] = "prune" /\ pc[t] # "prune" => since["samples"] = Window]_sweepVars

\* persist_heartbeat's certificate sweep goes ahead again and again, however
\* often heartbeats arrive.
CertSweepRecurs == []<>(\E t \in Streams : TaskAt(t, "certs"))

\* OFFLINE_AGENT_RETENTION_DAYS: rows offline for longer are dropped.
\* (Violated: every heartbeat's swap renews the static, so that with a
\* heartbeat an hour the sweep never goes ahead again.)
AgentSweepRecurs == []<>(\E t \in Streams : TaskAt(t, "list"))

\* sweep_offline_agents deletes rows that have been offline beyond the
\* retention window.  (Violated: the agent may register between the query and
\* the deletion, which is by id.)
OnlyStalePruned == [][row' = "gone" => row \in {"stale", "gone"}]_sweepVars
=============================================================================
