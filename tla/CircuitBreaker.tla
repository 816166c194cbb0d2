---------------------------- MODULE CircuitBreaker ---------------------------
(* The circuit breaker of one upstream backend                               *)
(* (pingap-upstream/src/backend_circuit_state.rs and backend_stats.rs).      *)
(*                                                                           *)
(* The state is an atomic that is read without the lock; the data behind it  *)
(* is under a mutex that is only ever tried, never waited for.  Request      *)
(* threads ask whether the backend may be used and report how the request    *)
(* went.  Whether failures in the closed state trip the breaker - by their   *)
(* run or by their rate - is left open: any failure may.                     *)
EXTENDS Naturals, FiniteSets

CONSTANTS Threads,
          Threshold,   \* half_open_consecutive_success_threshold
          NoThread

ASSUME BreakerAssumption == Threshold \in Nat \ {0} /\ NoThread \notin Threads

VARIABLES
  circuit,     \* current_state
  lock,        \* the holder of data
  probesSent,  \* data.probes_sent
  cooled,      \* now >= data.open_until
  overdue,     \* now >= data.half_open_until
  successes,   \* the run of successes; Threshold stands for all beyond
  stage,
  loaded,      \* the state a thread has read
  \* history
  probes,      \* requests let through since the breaker last half-opened,
               \* counted up to ProbeBound
  overlapped   \* two threads have been in the breaker at once

ProbeBound == Threshold + 1
OneMore == IF probes < ProbeBound THEN probes + 1 ELSE probes

data == <<probesSent, cooled, overdue>>
breakerVars == <<circuit, lock, data, successes, stage, loaded, probes, overlapped>>

BreakerInit ==
  /\ circuit = "closed" /\ lock = NoThread
  /\ probesSent = 0 /\ cooled = TRUE /\ overdue = TRUE
  /\ successes = 0
  /\ stage = [t \in Threads |-> "idle"] /\ loaded = [t \in Threads |-> "closed"]
  /\ probes = 0 /\ overlapped = FALSE

Goto(t, l) == stage' = [stage EXCEPT ![t] = l]
Load(t) == loaded' = [loaded EXCEPT ![t] = circuit]

\* try_lock: into the critical section, or away if the lock is taken.
TryLock(t, section, away) ==
  IF lock = NoThread THEN lock' = t /\ Goto(t, section)
  ELSE Goto(t, away) /\ UNCHANGED lock

-----------------------------------------------------------------------------
(* is_backend_acceptable *)

Ask(t) ==
  /\ stage[t] = "idle" /\ Load(t)
  /\ Goto(t, IF circuit = "closed" THEN "sent" ELSE "asked")
  /\ UNCHANGED <<circuit, lock, data, successes, probes>>

AskLock(t) ==
  /\ stage[t] = "asked" /\ TryLock(t, "check", "rejected")
  /\ UNCHANGED <<circuit, data, successes, loaded, probes>>

\* check_open_state_non_blocking.
CheckOpen(t) ==
  /\ stage[t] = "check" /\ loaded[t] = "open" /\ lock' = NoThread
  /\ IF cooled
     THEN /\ circuit' = "half" /\ probesSent' = 1 /\ overdue' = FALSE
          /\ probes' = IF circuit = "open" THEN 1 ELSE OneMore
          /\ Goto(t, "sent") /\ UNCHANGED cooled
     ELSE Goto(t, "rejected") /\ UNCHANGED <<circuit, data, probes>>
  /\ UNCHANGED <<successes, loaded>>

\* Mutant: a half-open breaker whose probes are overdue just rejects.
CheckHalfOpenPatient(t) ==
  /\ stage[t] = "check" /\ loaded[t] = "half" /\ lock' = NoThread
  /\ IF ~overdue /\ probesSent < Threshold
     THEN /\ probesSent' = probesSent + 1 /\ probes' = OneMore
          /\ Goto(t, "sent")
     ELSE Goto(t, "rejected") /\ UNCHANGED <<probesSent, probes>>
  /\ UNCHANGED <<circuit, cooled, overdue, successes, loaded>>
\* Mutant: one probe too many.
CheckHalfOpenGenerous(t) ==
  /\ stage[t] = "check" /\ loaded[t] = "half" /\ lock' = NoThread
  /\ IF overdue
     THEN /\ probesSent' = 0 /\ cooled' = FALSE /\ circuit' = "open"
          /\ Goto(t, "rejected") /\ UNCHANGED probes
     ELSE /\ IF probesSent <= Threshold
             THEN /\ probesSent' = probesSent + 1 /\ probes' = OneMore
                  /\ Goto(t, "sent")
             ELSE Goto(t, "rejected") /\ UNCHANGED <<probesSent, probes>>
          /\ UNCHANGED <<circuit, cooled>>
  /\ UNCHANGED <<overdue, successes, loaded>>

\* check_half_open_state_non_blocking.
CheckHalfOpen(t) ==
  /\ stage[t] = "check" /\ loaded[t] = "half" /\ lock' = NoThread
  /\ IF overdue
     THEN /\ probesSent' = 0 /\ cooled' = FALSE /\ circuit' = "open"
          /\ Goto(t, "rejected") /\ UNCHANGED probes
     ELSE /\ IF probesSent < Threshold
             THEN /\ probesSent' = probesSent + 1 /\ probes' = OneMore
                  /\ Goto(t, "sent")
             ELSE Goto(t, "rejected") /\ UNCHANGED <<probesSent, probes>>
          /\ UNCHANGED <<circuit, cooled>>
  /\ UNCHANGED <<overdue, successes, loaded>>

\* select_backend: another backend, or none; or, as a fallback, this one
\* after all.
Rejected(t) ==
  /\ stage[t] = "rejected"
  /\ Goto(t, "idle") \/ Goto(t, "sent")
  /\ UNCHANGED <<circuit, lock, data, successes, loaded, probes>>

-----------------------------------------------------------------------------
(* The request *)

\* BackendStats.record, on a response or a transport failure.
Succeeds(t) ==
  /\ stage[t] = "sent" /\ Goto(t, "succeeded")
  /\ successes' = IF successes < Threshold THEN successes + 1 ELSE successes
  /\ UNCHANGED <<circuit, lock, data, loaded, probes>>
Fails(t) ==
  /\ stage[t] = "sent" /\ Goto(t, "failed")
  /\ successes' = 0
  /\ UNCHANGED <<circuit, lock, data, loaded, probes>>

\* The request ends without either: the client is gone.
Vanishes(t) ==
  /\ stage[t] = "sent" /\ Goto(t, "idle")
  /\ UNCHANGED <<circuit, lock, data, successes, loaded, probes>>

-----------------------------------------------------------------------------
(* update_state_after_request *)

\* After a success only a half-open breaker is of interest...
LoadAfterSuccess(t) ==
  /\ stage[t] = "succeeded" /\ Load(t)
  /\ Goto(t, IF circuit = "half" THEN "count" ELSE "idle")
  /\ UNCHANGED <<circuit, lock, data, successes, probes>>

\* ...and closes after a long enough run, without the lock.
CountSuccesses(t) ==
  /\ stage[t] = "count" /\ Goto(t, IF successes >= Threshold THEN "close" ELSE "idle")
  /\ UNCHANGED <<circuit, lock, data, successes, loaded, probes>>
Close(t) ==
  /\ stage[t] = "close" /\ Goto(t, "idle") /\ circuit' = "closed"
  /\ UNCHANGED <<lock, data, successes, loaded, probes>>

LoadAfterFailure(t) ==
  /\ stage[t] = "failed" /\ Load(t) /\ Goto(t, "trying")
  /\ UNCHANGED <<circuit, lock, data, successes, probes>>

FailureLock(t) ==
  /\ stage[t] = "trying" /\ TryLock(t, "judge", "idle")
  /\ UNCHANGED <<circuit, data, successes, loaded, probes>>

\* Mutant: only the cooling period is set.
TripKeepsDeadline ==
  circuit' = "open" /\ cooled' = FALSE /\ UNCHANGED <<probesSent, overdue>>

\* BreakerStateData::new: the half-open deadline is now.
Trip ==
  circuit' = "open" /\ cooled' = FALSE /\ overdue' = TRUE /\ probesSent' = 0

Judge(t) ==
  /\ stage[t] = "judge" /\ lock' = NoThread /\ Goto(t, "idle")
  /\ \/ loaded[t] # "open" /\ Trip
     \/ loaded[t] # "half" /\ UNCHANGED <<circuit, data>>
  /\ UNCHANGED <<successes, loaded, probes>>

-----------------------------------------------------------------------------
(* Time *)

CoolDown ==
  /\ ~cooled /\ cooled' = TRUE
  /\ UNCHANGED <<circuit, lock, probesSent, overdue, successes, stage, loaded, probes>>
ProbesOverdue ==
  /\ ~overdue /\ overdue' = TRUE
  /\ UNCHANGED <<circuit, lock, probesSent, cooled, successes, stage, loaded, probes>>

ThreadStep(t) ==
  \/ Ask(t) \/ AskLock(t) \/ CheckOpen(t) \/ CheckHalfOpen(t) \/ Rejected(t)
  \/ Succeeds(t) \/ Fails(t) \/ Vanishes(t)
  \/ LoadAfterSuccess(t) \/ CountSuccesses(t) \/ Close(t)
  \/ LoadAfterFailure(t) \/ FailureLock(t) \/ Judge(t)

InBreaker(t) == stage[t] \notin {"idle", "sent", "rejected", "succeeded", "failed"}
Overlap == \E t, u \in Threads : t # u /\ InBreaker(t) /\ InBreaker(u)

Step == (\E t \in Threads : ThreadStep(t)) \/ CoolDown \/ ProbesOverdue

BreakerNext == Step /\ overlapped' = (overlapped \/ Overlap')

\* Requests keep coming and end, threads are scheduled, and time passes.
Fairness ==
  /\ \A t \in Threads : WF_breakerVars(BreakerNext /\ ThreadStep(t))
  /\ WF_breakerVars(BreakerNext /\ CoolDown) /\ WF_breakerVars(BreakerNext /\ ProbesOverdue)

BreakerSpec == BreakerInit /\ [][BreakerNext]_breakerVars /\ Fairness

-----------------------------------------------------------------------------
\* Types; and, as long as no two threads are in the breaker at once, no more
\* probes than the threshold are let through a half-open breaker.
SerialProbesBounded ==
  /\ circuit \in {"closed", "open", "half"} /\ lock \in Threads \cup {NoThread}
  /\ probesSent \in 0..Threshold /\ successes \in 0..Threshold
  /\ ~overlapped => probes <= Threshold

\* check_open_state_non_blocking and check_half_open_state_non_blocking let no
\* one through while the breaker cools down, not even a thread that has read
\* an older state.
CoolingRejects ==
  [][\A t \in Threads :
       stage[t] = "check" /\ stage'[t] = "sent" => circuit # "open" \/ cooled]_breakerVars

\* "A probe whose response never arrives must not strand the breaker in
\* HALF_OPEN": with traffic, a half-open breaker decides.
HalfOpenEnds == circuit = "half" ~> circuit # "half"

\* README: "up to circuit_break_half_open_consecutive_success_threshold probe
\* requests are let through".  (Violated: a second thread that had read OPEN
\* starts the count anew.)
ProbesBounded == probes <= Threshold

\* README: "one failure reopens it".  (Violated: the failure is dropped when the
\* lock is taken, and a success that had read HALF_OPEN may close the breaker.)
FailureReopens ==
  [][\A t \in Threads :
       /\ stage[t] \in {"trying", "judge"} /\ stage'[t] = "idle"
       /\ loaded[t] = "half"
       => circuit' = "open"]_breakerVars
=============================================================================
