--------------------------- MODULE CommandDelivery ---------------------------
(* AgentRegistry with handlers that push numbered commands: the registry's   *)
(* delivery guarantees, whatever the commands mean.                          *)
EXTENDS AgentRegistry

CONSTANTS MaxCommand,   \* bound: commands pushed
          MaxRemoval    \* bound: 1 lets the operator de-register the agent

ASSUME DeliveryAssumption == MaxCommand \in Nat /\ MaxRemoval \in {0, 1}

VARIABLE issued         \* commands pushed so far

vars == <<regVars, issued>>
Commands == 1..MaxCommand

Init == RegInit /\ issued = 0

\* An API handler has found the agent's row and pushes its next command.
Push(h) ==
  /\ row /\ issued < MaxCommand
  /\ issued' = issued + 1
  /\ SendCommand(h, issued')
  /\ UNCHANGED <<registry, streams, agent, agentRow, trace>>

Next ==
  \/ \E h \in Handlers : Push(h)
  \/ (\E s \in Senders : SendStep(s)) /\ UNCHANGED issued
  \/ (\E h \in Handlers : Cancelled(h)) /\ UNCHANGED issued
  \/ (Authorize \/ Abandoned) /\ UNCHANGED issued
  \/ (\E g \in Streams : StreamStep(g)) /\ UNCHANGED issued
  \/ (Stale \/ Receive \/ ClientDrop) /\ UNCHANGED issued
  \/ MaxRemoval = 1 /\ RemovalStep /\ UNCHANGED issued

Spec == Init /\ [][Next]_vars

\* Tasks that can run do run (the tokio scheduler), the agent keeps trying to
\* connect and reads its stream.  Nothing forces a stream to break.
Fairness ==
  /\ \A s \in Senders : WF_vars(SendStep(s) /\ UNCHANGED issued)
  /\ \A g \in Streams :
       WF_vars((Connect(g) \/ Replay(g) \/ Opened(g)) /\ UNCHANGED issued)
  /\ WF_vars(Authorize /\ UNCHANGED issued)
  /\ WF_vars(Receive /\ UNCHANGED issued)

FairSpec == Spec /\ Fairness

-----------------------------------------------------------------------------
\* Types and the two capacity bounds.
TypeOK == RegTypeOK(Commands) /\ issued \in 0..MaxCommand

\* registry.rs, connect and send_command: a command is in exactly one place
\* from its push on.  It is never delivered twice, and never vanishes without
\* one of four discards: pushed out of the queue, lost with
\* a stream, forgotten with the agent, given up with the request that pushed it.
OnePlace == \A c \in 1..issued : Cardinality(Places(c)) = 1

\* registry.rs, Connection.generation: as long as the newest stream has not
\* ended it is the registered one, so that commands go to it; no teardown of an
\* older stream, however late, unregisters it.
NewestStreamRegistered ==
  row /\ generation # NoStream /\ phase[generation] # "ended" => connected = generation

\* heartbeat's replay: the commands of one queue that arrive on the stream
\* that drained it arrive in the order they were queued.
ReplayInOrder ==
  \A g \in Streams :
    \A i, j \in 1..Len(drained[g]) :
      i < j =>
        ~\E k, l \in 1..Len(received) :
           /\ k < l
           /\ received[k] = [command |-> drained[g][j], stream |-> g]
           /\ received[l] = [command |-> drained[g][i], stream |-> g]

\* registry.rs's module comment: a pushed command is never silently lost as
\* long as the agent reconnects.  (Violated: what is in the channel of a dead
\* stream goes with it.)
NeverLost == \A d \in dropped : d[1] # "stream"

\* Connection.generation's comment: the stream the agent is on is not torn down
\* by another.  (Violated: a stream it has given up may connect after it, takes
\* the registration, and leaves the agent unregistered when it ends.)
LiveStreamRegistered == row /\ client # NoStream => connected = client

\* Connection.generation's comment: the old stream no longer marks the new
\* one offline.  (Violated: mark_offline looks at the age of the last
\* heartbeat, not at the generation.)
LiveStreamOnline ==
  row /\ client # NoStream /\ phase[client] = "open" => status = "online"

RemovalSettled ==
  removal = "done" /\ (\A s \in Senders : pc[s] = "idle")
    /\ (\A g \in Streams : phase[g] \in {"none", "ended"})

\* api/agents.rs, remove: nothing stays queued under the id of a removed
\* agent.  (Violated: a push that looked the agent up before the removal
\* queues after it.)
RemovedIsForgotten == RemovalSettled => pending = <<>> /\ connected = NoStream

\* registry.rs, force_disconnect: a node the operator just disconnected does
\* not keep reporting its last heartbeat.  (Violated: a heartbeat already on
\* the wire is recorded after the removal, and its stream's teardown finds no
\* connection to clean up after.)
RemovedIsSilent == RemovalSettled => metrics = NoStream

\* registry.rs's module comment and send_command's: a queued command goes out
\* on the next heartbeat.  (Violated: the queue is only drained by connect,
\* and a push that found the agent offline may queue after it connected.)
QueueDrains ==
  pending # <<>> /\ client # NoStream ~> pending = <<>> \/ client = NoStream
=============================================================================
