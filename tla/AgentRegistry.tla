---------------------------- MODULE AgentRegistry ----------------------------
(* The control plane's registry of live heartbeat streams, for one agent     *)
(* (pingwaf-server/src/grpc/registry.rs), with the stream handler that feeds *)
(* it (grpc/control_plane.rs, heartbeat) and the de-registration endpoint    *)
(* (api/agents.rs, remove).                                                  *)
(*                                                                           *)
(* API handlers push commands with send_command, which looks the sender up   *)
(* under the read lock, tries the channel with no lock held, and queues      *)
(* under the write lock: three steps, between which streams open, break and  *)
(* are torn down.  The agent drops and reopens its stream at will, and the   *)
(* server notices a dead stream late: streams of several generations are     *)
(* alive on the server at once, and the handler of one that the agent has    *)
(* given up may connect after that of the one it has opened since.           *)
EXTENDS Integers, Sequences, FiniteSets, SequencesExt

CONSTANTS Handlers,         \* API handlers
          MaxStream,        \* bound: heartbeat streams opened
          ChannelCapacity,  \* COMMAND_CHANNEL_CAPACITY
          PendingLimit      \* PENDING_COMMAND_LIMIT

ASSUME RegistryAssumption ==
  /\ MaxStream \in Nat /\ ChannelCapacity \in Nat \ {0}
  /\ PendingLimit \in Nat \ {0}

Streams == 1..MaxStream     \* a stream is its generation
Senders == Handlers \cup Streams
NoStream == 0
NoCommand == 0

\* Handlers are not streams.
ASSUME HandlersAssumption == Handlers \cap Streams = {}

VARIABLES
  \* AgentRegistry.inner, the entries of this agent
  connected,   \* generation of the registered connection, or NoStream
  pending,     \* queued commands
  generation,  \* next_generation
  metrics,     \* the stream whose counters are retained, or NoStream
  \* the streams, by generation
  phase,       \* the heartbeat handler and the task it spawns
  replay,      \* `queued`: drained commands still to be replayed
  channel,     \* the command channel
  receiver,    \* the response stream still holds the receiver
  \* the callers of send_command
  pc, hand, sender,
  \* the agent
  client,      \* the stream the agent reads, or NoStream
  received,    \* what it has received: [command, stream]
  dialing,     \* it waits for a stream to open
  waiting,     \* handlers of its streams that have found the row and not
               \* connected; unless dialing, of streams it has given up
  \* the agent's row
  row,         \* exists
  removal,     \* progress of DELETE /agents/{id}
  status,      \* agents.status
  fresh,       \* last_heartbeat is less than 2 s old
  \* history
  drained,     \* what connect took from pending, by stream
  dropped      \* commands discarded, with the reason

registry == <<connected, pending, generation, metrics>>
streams  == <<phase, replay, channel, receiver>>
senders  == <<pc, hand, sender>>
agent    == <<client, received, dialing, waiting>>
agentRow == <<row, removal, status, fresh>>
trace    == <<drained, dropped>>
regVars  == <<registry, streams, senders, agent, agentRow, trace>>

RegInit ==
  /\ connected = NoStream /\ pending = <<>> /\ generation = 0
  /\ metrics = NoStream
  /\ phase = [g \in Streams |-> "none"]
  /\ replay = [g \in Streams |-> <<>>]
  /\ channel = [g \in Streams |-> <<>>]
  /\ receiver = [g \in Streams |-> FALSE]
  /\ pc = [s \in Senders |-> "idle"]
  /\ hand = [s \in Senders |-> NoCommand]
  /\ sender = [s \in Senders |-> NoStream]
  /\ client = NoStream /\ received = <<>> /\ dialing = FALSE /\ waiting = 0
  /\ row = TRUE /\ removal = "idle" /\ status = "offline" /\ fresh = FALSE
  /\ drained = [g \in Streams |-> <<>>] /\ dropped = {}

-----------------------------------------------------------------------------
(* send_command *)

\* The caller enters send_command with a command.
SendCommand(s, c) ==
  /\ pc[s] = "idle"
  /\ pc' = [pc EXCEPT ![s] = "lookup"]
  /\ hand' = [hand EXCEPT ![s] = c]
  /\ UNCHANGED sender

\* The sender is cloned under the read lock.
Lookup(s) ==
  /\ pc[s] = "lookup"
  /\ sender' = [sender EXCEPT ![s] = connected]
  /\ pc' = [pc EXCEPT ![s] = IF connected = NoStream THEN "enqueue" ELSE "send"]
  /\ UNCHANGED <<registry, streams, hand, agent, agentRow, trace>>

\* try_send, no lock held: delivered, or queued because full or closed.
TrySend(s) ==
  /\ pc[s] = "send"
  /\ LET g == sender[s] IN
       IF receiver[g] /\ Len(channel[g]) < ChannelCapacity
       THEN /\ channel' = [channel EXCEPT ![g] = Append(@, hand[s])]
            /\ pc' = [pc EXCEPT ![s] = "idle"]
            /\ hand' = [hand EXCEPT ![s] = NoCommand]
       ELSE /\ pc' = [pc EXCEPT ![s] = "enqueue"]
            /\ UNCHANGED <<channel, hand>>
  /\ sender' = [sender EXCEPT ![s] = NoStream]
  /\ UNCHANGED <<registry, phase, replay, receiver, agent, agentRow, trace>>

\* Mutant: the bound is checked after the push, without the pop.
EnqueueUnbounded(s) ==
  /\ pc[s] = "enqueue"
  /\ pending' = Append(pending, hand[s])
  /\ pc' = [pc EXCEPT ![s] = "idle"]
  /\ hand' = [hand EXCEPT ![s] = NoCommand]
  /\ UNCHANGED <<connected, generation, metrics, streams, sender, agent, agentRow,
                 trace>>

\* enqueue: at the limit the oldest command makes room.
Enqueue(s) ==
  /\ pc[s] = "enqueue"
  /\ LET full == Len(pending) >= PendingLimit IN
       /\ pending' = Append(IF full THEN Tail(pending) ELSE pending, hand[s])
       /\ dropped' = IF full THEN dropped \cup {<<"overflow", Head(pending)>>}
                             ELSE dropped
  /\ pc' = [pc EXCEPT ![s] = "idle"]
  /\ hand' = [hand EXCEPT ![s] = NoCommand]
  /\ UNCHANGED <<connected, generation, metrics, streams, sender, agent, agentRow,
                 drained>>

\* The peer of the API request goes away: the handler's future is dropped at
\* an await of send_command, and the command with it.
Cancelled(h) ==
  /\ pc[h] \in {"lookup", "enqueue"}
  /\ pc' = [pc EXCEPT ![h] = "idle"]
  /\ hand' = [hand EXCEPT ![h] = NoCommand]
  /\ dropped' = dropped \cup {<<"cancelled", hand[h]>>}
  /\ UNCHANGED <<registry, streams, sender, agent, agentRow, drained>>

-----------------------------------------------------------------------------
(* The heartbeat stream *)

\* The agent registers, which marks its row online, and opens a stream, whose
\* handler has checked the token and the row.  The handlers of streams it has
\* given up may still be there.
Authorize ==
  /\ client = NoStream /\ ~dialing /\ row
  /\ generation + waiting < MaxStream
  /\ dialing' = TRUE /\ waiting' = waiting + 1
  /\ status' = "online" /\ fresh' = TRUE
  /\ UNCHANGED <<registry, streams, senders, client, received, row, removal, trace>>

\* A handler whose stream the agent has given up is waiting.
GivenUp == waiting > IF dialing THEN 1 ELSE 0

\* Its future is dropped at the await of the row, or of the registry's lock.
Abandoned ==
  /\ GivenUp
  /\ waiting' = waiting - 1
  /\ UNCHANGED <<registry, streams, senders, client, received, dialing, agentRow,
                 trace>>

\* Mutant: the queue is copied, not taken.
ConnectKeepsQueue(g) ==
  /\ waiting > 0 /\ g = generation + 1
  /\ waiting' = waiting - 1
  /\ generation' = g
  /\ connected' = g
  /\ metrics' = NoStream
  /\ replay' = [replay EXCEPT ![g] = pending]
  /\ drained' = [drained EXCEPT ![g] = pending]
  /\ phase' = [phase EXCEPT ![g] = "replay"]
  /\ receiver' = [receiver EXCEPT ![g] = TRUE]
  /\ \/ dialing /\ dialing' = FALSE /\ client' = g
     \/ GivenUp /\ UNCHANGED <<dialing, client>>
  /\ UNCHANGED <<pending, channel, senders, received, agentRow, dropped>>

\* AgentRegistry::connect, under the write lock: for the stream that the agent
\* waits for, or for one it has given up.
Connect(g) ==
  /\ waiting > 0 /\ g = generation + 1
  /\ waiting' = waiting - 1
  /\ generation' = g
  /\ connected' = g
  /\ metrics' = NoStream
  /\ pending' = <<>>
  /\ replay' = [replay EXCEPT ![g] = pending]
  /\ drained' = [drained EXCEPT ![g] = pending]
  /\ phase' = [phase EXCEPT ![g] = "replay"]
  /\ receiver' = [receiver EXCEPT ![g] = TRUE]
  /\ \/ dialing /\ dialing' = FALSE /\ client' = g
     \/ GivenUp /\ UNCHANGED <<dialing, client>>
  /\ UNCHANGED <<channel, senders, received, agentRow, dropped>>

\* Mutant: the queue is popped from its end.
ReplayLast(g) ==
  /\ phase[g] = "replay" /\ replay[g] # <<>>
  /\ SendCommand(g, Last(replay[g]))
  /\ replay' = [replay EXCEPT ![g] = Front(@)]
  /\ UNCHANGED <<registry, phase, channel, receiver, agent, agentRow, trace>>

\* heartbeat replays what was queued through send_command, one by one...
Replay(g) ==
  /\ phase[g] = "replay" /\ replay[g] # <<>>
  /\ SendCommand(g, Head(replay[g]))
  /\ replay' = [replay EXCEPT ![g] = Tail(@)]
  /\ UNCHANGED <<registry, phase, channel, receiver, agent, agentRow, trace>>

\* ...then records the first heartbeat, returns the response stream and
\* persists the heartbeat.  The update of a deleted row fails.
Opened(g) ==
  /\ phase[g] = "replay" /\ replay[g] = <<>> /\ pc[g] = "idle"
  /\ phase' = [phase EXCEPT ![g] = "open"]
  /\ metrics' = g
  /\ status' = IF row THEN "online" ELSE status
  /\ fresh' = (row \/ fresh)
  /\ UNCHANGED <<connected, pending, generation, replay, channel, receiver,
                 senders, agent, row, removal, trace>>

\* record_heartbeat and persist_heartbeat for a later message: the agent may
\* have left the stream by the time the server reads it.
Heartbeat(g) ==
  /\ phase[g] = "open"
  /\ metrics' = g
  /\ status' = IF row THEN "online" ELSE status
  /\ fresh' = (row \/ fresh)
  /\ UNCHANGED <<connected, pending, generation, streams, senders, agent, row,
                 removal, trace>>

\* Two seconds pass without a heartbeat.
Stale ==
  /\ fresh /\ fresh' = FALSE
  /\ UNCHANGED <<registry, streams, senders, agent, row, removal, status, trace>>

\* Mutant: teardown removes whatever is registered.
DisconnectAny(g) ==
  /\ phase[g] = "ending"
  /\ connected' = NoStream
  /\ metrics' = NoStream
  /\ phase' = [phase EXCEPT ![g] = "ended"]
  /\ UNCHANGED <<pending, generation, replay, channel, receiver, senders, agent,
                 agentRow, trace>>

\* The inbound half ends: mark_offline...
InboundEnds(g) ==
  /\ phase[g] = "open" /\ client # g
  /\ phase' = [phase EXCEPT ![g] = "ending"]
  /\ status' = IF row /\ ~fresh THEN "offline" ELSE status
  /\ UNCHANGED <<registry, replay, channel, receiver, senders, agent, row,
                 removal, fresh, trace>>

\* ...then AgentRegistry::disconnect, which spares a newer generation.
Disconnect(g) ==
  /\ phase[g] = "ending"
  /\ connected' = IF connected = g THEN NoStream ELSE connected
  /\ metrics' = IF connected = g THEN NoStream ELSE metrics
  /\ phase' = [phase EXCEPT ![g] = "ended"]
  /\ UNCHANGED <<pending, generation, replay, channel, receiver, senders, agent,
                 agentRow, trace>>

\* The outbound half ends, at its own time: the receiver is dropped, and with
\* it every command still in the channel.
ReceiverDropped(g) ==
  /\ receiver[g] /\ phase[g] \in {"open", "ending", "ended"} /\ client # g
  /\ receiver' = [receiver EXCEPT ![g] = FALSE]
  /\ channel' = [channel EXCEPT ![g] = <<>>]
  /\ dropped' = dropped \cup {<<"stream", c>> : c \in ToSet(channel[g])}
  /\ UNCHANGED <<registry, phase, replay, senders, agent, agentRow, drained>>

\* The peer goes away before the response is returned: the handler's future
\* is dropped at its next await, before the task that would tear the stream
\* down is spawned.  Commands not yet replayed are lost, and the connection
\* stays registered with a closed channel.
HandlerCancelled(g) ==
  /\ phase[g] = "replay" /\ client # g
  /\ phase' = [phase EXCEPT ![g] = "ended"]
  /\ receiver' = [receiver EXCEPT ![g] = FALSE]
  /\ channel' = [channel EXCEPT ![g] = <<>>]
  /\ replay' = [replay EXCEPT ![g] = <<>>]
  /\ pc' = [pc EXCEPT ![g] = "idle"]
  /\ hand' = [hand EXCEPT ![g] = NoCommand]
  /\ sender' = [sender EXCEPT ![g] = NoStream]
  /\ dropped' = dropped \cup
       {<<"stream", c>> : c \in ToSet(channel[g]) \cup ToSet(replay[g])
                                \cup ({hand[g]} \ {NoCommand})}
  /\ UNCHANGED <<registry, agent, agentRow, drained>>

-----------------------------------------------------------------------------
(* The agent *)

Receive ==
  /\ client # NoStream /\ phase[client] = "open"
  /\ channel[client] # <<>>
  /\ received' = Append(received, [command |-> Head(channel[client]),
                                   stream |-> client])
  /\ channel' = [channel EXCEPT ![client] = Tail(@)]
  /\ UNCHANGED <<registry, phase, replay, receiver, senders, client, dialing,
                 waiting, agentRow, trace>>

\* The agent loses the connection (network, restart), whether the stream has
\* opened or not, or the server ends it: all senders of the channel are gone
\* and it is drained.
ClientDrop ==
  /\ client # NoStream \/ dialing
  /\ client' = NoStream /\ dialing' = FALSE
  /\ UNCHANGED <<registry, streams, senders, received, waiting, agentRow, trace>>

-----------------------------------------------------------------------------
(* DELETE /api/v1/agents/{id} *)

DeleteRow ==
  /\ removal = "idle"
  /\ row' = FALSE /\ removal' = "row"
  /\ UNCHANGED <<registry, streams, senders, agent, status, fresh, trace>>

ForceDisconnect ==
  /\ removal = "row"
  /\ connected' = NoStream /\ metrics' = NoStream
  /\ removal' = "forced"
  /\ UNCHANGED <<pending, generation, streams, senders, agent, row, status, fresh,
                 trace>>

Forget ==
  /\ removal = "forced"
  /\ pending' = <<>> /\ metrics' = NoStream
  /\ removal' = "done"
  /\ dropped' = dropped \cup {<<"forgotten", c>> : c \in ToSet(pending)}
  /\ UNCHANGED <<connected, generation, streams, senders, agent, row, status,
                 fresh, drained>>

-----------------------------------------------------------------------------
SendStep(s) == Lookup(s) \/ TrySend(s) \/ Enqueue(s)
StreamStep(g) ==
  \/ Connect(g) \/ Replay(g) \/ Opened(g) \/ Heartbeat(g)
  \/ InboundEnds(g) \/ Disconnect(g) \/ ReceiverDropped(g) \/ HandlerCancelled(g)
RemovalStep == DeleteRow \/ ForceDisconnect \/ Forget

-----------------------------------------------------------------------------
(* Where a command is *)

InHand(c) == {<<"hand", s>> : s \in {s \in Senders : hand[s] = c}}
InReplay(c) ==
  {<<"replay", x[1], x[2]>> : x \in
     {x \in Streams \X (1..PendingLimit) :
        x[2] <= Len(replay[x[1]]) /\ replay[x[1]][x[2]] = c}}
InPending(c) ==
  {<<"pending", i>> : i \in {i \in 1..Len(pending) : pending[i] = c}}
InChannel(c) ==
  {<<"channel", x[1], x[2]>> : x \in
     {x \in Streams \X (1..ChannelCapacity) :
        x[2] <= Len(channel[x[1]]) /\ channel[x[1]][x[2]] = c}}
InReceived(c) ==
  {<<"received", i>> : i \in {i \in 1..Len(received) : received[i].command = c}}
Dropped(c) == {d \in dropped : d[2] = c}
Places(c) == InHand(c) \cup InReplay(c) \cup InPending(c) \cup InChannel(c)
               \cup InReceived(c) \cup Dropped(c)

RegTypeOK(Commands) ==
  /\ connected \in 0..MaxStream /\ generation \in 0..MaxStream
  /\ metrics \in 0..MaxStream
  /\ pending \in Seq(Commands) /\ Len(pending) <= PendingLimit
  /\ phase \in [Streams -> {"none", "replay", "open", "ending", "ended"}]
  /\ replay \in [Streams -> Seq(Commands)]
  /\ channel \in [Streams -> Seq(Commands)]
  /\ \A g \in Streams : Len(channel[g]) <= ChannelCapacity
  /\ receiver \in [Streams -> BOOLEAN]
  /\ pc \in [Senders -> {"idle", "lookup", "send", "enqueue"}]
  /\ hand \in [Senders -> Commands \cup {NoCommand}]
  /\ sender \in [Senders -> 0..MaxStream]
  /\ client \in 0..MaxStream /\ dialing \in BOOLEAN /\ waiting \in 0..MaxStream
  /\ received \in Seq([command : Commands, stream : Streams])
  /\ row \in BOOLEAN /\ removal \in {"idle", "row", "forced", "done"}
  /\ status \in {"online", "offline"} /\ fresh \in BOOLEAN
=============================================================================
