---------------------------- MODULE ReconnectLoop ----------------------------
(* The agent's connection to the control plane                               *)
(* (pingwaf-agent/src/client/mod.rs, connection_loop): connect, register, run *)
(* the session until one of its streams ends, wait, connect again.           *)
(*                                                                           *)
(* The delay lives in an atomic that the loop loads before an attempt and    *)
(* stores after the wait; a registration in between stores the initial delay *)
(* in it.                                                                    *)
EXTENDS Naturals

CONSTANTS Initial,   \* reconnect_initial_delay_ms
          Max        \* reconnect_max_delay_ms

ASSUME DelayAssumption == Initial \in Nat /\ Max \in Nat

VARIABLES
  pc,            \* where connection_loop is
  retryDelay,    \* retry_delay_ms
  delay,         \* connection_loop's retry_delay
  connected,
  shutdown,      \* shutdown_signal
  \* history
  registered     \* the last attempt got through its registration

vars == <<pc, retryDelay, delay, connected, shutdown, registered>>

Least(a, b) == IF a <= b THEN a ELSE b
Most(a, b) == IF a >= b THEN a ELSE b

Init ==
  /\ pc = "top" /\ retryDelay = Initial /\ delay = Initial
  /\ connected = FALSE /\ shutdown = FALSE /\ registered = FALSE

-----------------------------------------------------------------------------
\* Mutant: the ceiling is left out.
NextBackoffUncapped(current) == Most(current, 1)..Most(2 * current, 1)
\* Mutant: the jitter is drawn from the whole interval.
NextBackoffFullJitter(current) == 1..Most(Least(2 * current, Max), 1)

\* next_backoff: twice the delay, at most Max, scaled by a random factor in
\* [1/2, 1] and truncated.
NextBackoff(current) ==
  LET capped == Least(2 * current, Max)
  IN Most(capped \div 2, 1)..Most(capped, 1)

-----------------------------------------------------------------------------
Top ==
  /\ pc = "top"
  /\ IF shutdown THEN pc' = "stopped" /\ UNCHANGED delay
     ELSE pc' = "attempt" /\ delay' = retryDelay
  /\ UNCHANGED <<retryDelay, connected, shutdown, registered>>

\* create_channel or register fails; both time out.
AttemptFails ==
  /\ pc = "attempt"
  /\ pc' = "wait" /\ connected' = FALSE /\ registered' = FALSE
  /\ UNCHANGED <<retryDelay, delay, shutdown>>

\* register succeeds: retire_backoff, and the session begins.
Registered ==
  /\ pc = "attempt"
  /\ pc' = "session" /\ retryDelay' = Initial
  /\ connected' = TRUE /\ registered' = TRUE
  /\ UNCHANGED <<delay, shutdown>>

\* The heartbeat, or one of the shippers, ends.
SessionEnds ==
  /\ pc = "session"
  /\ pc' = "wait" /\ connected' = FALSE
  /\ UNCHANGED <<retryDelay, delay, shutdown, registered>>

\* try_connect_and_run's wait_for_shutdown.
SessionInterrupted == shutdown /\ SessionEnds

\* Mutant: the wait is a plain sleep.
WaitInterruptedNever == FALSE /\ UNCHANGED vars

\* connection_loop's wait_for_shutdown.
WaitInterrupted ==
  /\ pc = "wait" /\ shutdown
  /\ pc' = "stopped"
  /\ UNCHANGED <<retryDelay, delay, connected, shutdown, registered>>

WaitElapses ==
  /\ pc = "wait"
  /\ pc' = "top"
  /\ retryDelay' \in NextBackoff(delay)
  /\ UNCHANGED <<delay, connected, shutdown, registered>>

Shutdown ==
  /\ ~shutdown /\ shutdown' = TRUE
  /\ UNCHANGED <<pc, retryDelay, delay, connected, registered>>

Stopped == pc = "stopped" /\ UNCHANGED vars

Next ==
  \/ Top \/ AttemptFails \/ Registered \/ SessionEnds \/ SessionInterrupted
  \/ WaitInterrupted \/ WaitElapses \/ Shutdown \/ Stopped

\* The runtime polls the loop's futures, and connecting and registering time
\* out.  Nothing is assumed of a session's end, nor of the backoff's timer: a
\* minute is too long to stop a process.
Fairness ==
  /\ WF_vars(Top) /\ WF_vars(AttemptFails \/ Registered)
  /\ WF_vars(SessionInterrupted) /\ WF_vars(WaitInterrupted)

Spec == Init /\ [][Next]_vars /\ Fairness

-----------------------------------------------------------------------------
\* Types; and the delay that connection_loop waits is at most the ceiling, or
\* what it was configured to begin with, and never falls to zero once it has
\* been through next_backoff.
DelayBounded ==
  /\ pc \in {"top", "attempt", "session", "wait", "stopped"}
  /\ {connected, shutdown, registered} \subseteq BOOLEAN
  /\ {retryDelay, delay} \subseteq 0..Most(Most(Initial, Max), 1)
  /\ 0 \in {retryDelay, delay} => Initial = 0

\* next_backoff: the waits around failed attempts never get shorter, except
\* by the jitter's half of the ceiling.
BackoffHolds ==
  [][Top /\ ~registered => delay' >= Least(delay, Most(Max \div 2, 1))]_vars

\* "a shutdown should not sit through the maximum 60 s backoff": whatever the
\* loop is doing when shutdown is called, it stops, and without the backoff's
\* timer having to fire.
ShutdownStops == shutdown ~> pc = "stopped"

\* retire_backoff's comment: the reconnect after a healthy session starts from
\* the initial delay.  (Violated: the loop waits, and stores back, the delay
\* it loaded before the session.)
HealthySessionResets ==
  (pc = "wait" /\ registered) => delay = Initial

=============================================================================
