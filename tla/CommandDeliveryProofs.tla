------------------------ MODULE CommandDeliveryProofs ------------------------
(* Proofs about the registry of heartbeat streams and the commands pushed    *)
(* through it, for any number of handlers, streams and commands and any      *)
(* capacities.                                                               *)
EXTENDS CommandDelivery, FiniteSetTheorems, TLAPS

-----------------------------------------------------------------------------
(* Types *)

Reasons == {"overflow", "stream", "forgotten", "cancelled"}

\* Whoever is in send_command has a command in hand, and a sender between the
\* lookup and the send.
SenderInv ==
  \A s \in Senders : /\ pc[s] = "idle" <=> hand[s] = NoCommand
                     /\ pc[s] = "send" <=> sender[s] # NoStream

\* Only a stream that replays has something to replay.
ReplayInv ==
  \A g \in Streams : /\ Len(replay[g]) <= PendingLimit
                     /\ phase[g] # "replay" => replay[g] = <<>> /\ pc[g] = "idle"

\* Types, of which the commands issued so far are the commands; the bounds of
\* the queue, of the channels and of what connect takes from the queue.
RegInv ==
  /\ RegTypeOK(1..issued) /\ issued \in 0..MaxCommand
  /\ SenderInv /\ ReplayInv
  /\ dropped \subseteq Reasons \X (1..issued)

\* The generations of the streams: those up to the counter's have connected.
PhaseInv == \A g \in Streams : g <= generation <=> phase[g] # "none"

\* A queue of some commands is one of more commands.
LEMMA SeqMonotone ==
  ASSUME NEW S, NEW T, S \subseteq T PROVE \A q : q \in Seq(S) => q \in Seq(T)
<1>1. ASSUME NEW q \in Seq(S) PROVE q \in Seq(T)
  <2>1. Len(q) \in Nat /\ q \in [1..Len(q) -> S]
    OBVIOUS
  <2>2. q \in [1..Len(q) -> T]
    BY <2>1
  <2>3. QED
    BY <2>1, <2>2
<1>2. QED
  BY <1>1

\* An element of a queue.
LEMMA ElementOf ==
  ASSUME NEW S, NEW q \in Seq(S), NEW i \in 1..Len(q) PROVE q[i] \in S
OBVIOUS

\* The head and the tail of a queue.
LEMMA HeadTail ==
  ASSUME NEW S, NEW q \in Seq(S), q # <<>>
  PROVE  /\ Head(q) \in S /\ Head(q) = q[1] /\ Tail(q) \in Seq(S)
         /\ Len(q) \in Nat \ {0} /\ Len(Tail(q)) = Len(q) - 1
         /\ \A i \in 1..Len(Tail(q)) : Tail(q)[i] = q[i + 1]
OBVIOUS

\* The commands of a queue.
LEMMA ToSetType ==
  ASSUME NEW S, NEW q \in Seq(S)
  PROVE  ToSet(q) \subseteq S /\ \A c : c \in ToSet(q) <=> \E i \in 1..Len(q) : q[i] = c
BY DEF ToSet

\* Nothing is connected or queued at first.
LEMMA InitReg == Init => RegInv
<1> SUFFICES ASSUME Init PROVE RegInv
  OBVIOUS
<1> USE RegistryAssumption, DeliveryAssumption DEF Init, RegInit, NoStream, NoCommand
<1>1. RegTypeOK(1..issued) /\ issued \in 0..MaxCommand
  <2>1. <<>> \in Seq(1..issued) /\ <<>> \in Seq([command : 1..issued, stream : Streams])
    OBVIOUS
  <2>2. Len(<<>>) <= PendingLimit /\ Len(<<>>) <= ChannelCapacity
    OBVIOUS
  <2>3. /\ replay \in [Streams -> Seq(1..issued)] /\ channel \in [Streams -> Seq(1..issued)]
        /\ pending \in Seq(1..issued)
    BY <2>1
  <2>4. \A g \in Streams : Len(channel[g]) <= ChannelCapacity
    BY <2>2
  <2>5. hand \in [Senders -> 1..issued \cup {NoCommand}]
    OBVIOUS
  <2>6. /\ received \in Seq([command : 1..issued, stream : Streams])
        /\ receiver \in [Streams -> BOOLEAN] /\ row \in BOOLEAN /\ fresh \in BOOLEAN
        /\ dialing \in BOOLEAN
        /\ removal \in {"idle", "row", "forced", "done"} /\ status \in {"online", "offline"}
    BY <2>1
  <2>7. /\ connected \in 0..MaxStream /\ generation \in 0..MaxStream
        /\ metrics \in 0..MaxStream /\ client \in 0..MaxStream /\ waiting \in 0..MaxStream
        /\ Len(pending) <= PendingLimit
        /\ issued \in 0..MaxCommand
    BY <2>2
  <2>8. /\ phase \in [Streams -> {"none", "replay", "open", "ending", "ended"}]
        /\ pc \in [Senders -> {"idle", "lookup", "send", "enqueue"}]
        /\ sender \in [Senders -> 0..MaxStream]
    OBVIOUS
  <2> HIDE DEF Init
  <2>9. QED
    BY <2>3, <2>4, <2>5, <2>6, <2>7, <2>8 DEF RegTypeOK
<1>2. SenderInv /\ ReplayInv
  BY DEF SenderInv, ReplayInv, Senders
<1>3. QED
  BY <1>1, <1>2 DEF RegInv

\* Each step of send_command keeps the types.
LEMMA SendReg ==
  ASSUME RegInv, NEW s \in Senders, SendStep(s), UNCHANGED issued PROVE RegInv'
<1> USE DEF registry, streams, senders, agent, agentRow, trace
<1>1. CASE Lookup(s)
  BY <1>1 DEF Lookup, RegInv, RegTypeOK, SenderInv, ReplayInv, Senders, Streams, NoStream
<1>2. CASE TrySend(s)
  <2>1. sender[s] \in Streams /\ hand[s] \in 1..issued
    BY <1>2 DEF TrySend, RegInv, RegTypeOK, SenderInv, Streams, NoStream, NoCommand
  <2>2. CASE receiver[sender[s]] /\ Len(channel[sender[s]]) < ChannelCapacity
    <3>1. /\ channel' = [channel EXCEPT ![sender[s]] = Append(channel[sender[s]], hand[s])]
          /\ pc' = [pc EXCEPT ![s] = "idle"] /\ hand' = [hand EXCEPT ![s] = NoCommand]
          /\ sender' = [sender EXCEPT ![s] = NoStream]
      BY <1>2, <2>2 DEF TrySend
    <3>2. /\ Append(channel[sender[s]], hand[s]) \in Seq(1..issued)
          /\ Len(Append(channel[sender[s]], hand[s])) <= ChannelCapacity
      BY <2>1, <2>2, RegistryAssumption DEF RegInv, RegTypeOK
    <3>3. /\ channel' \in [Streams -> Seq(1..issued)]
          /\ \A g \in Streams : Len(channel'[g]) <= ChannelCapacity
      BY <2>1, <3>1, <3>2 DEF RegInv, RegTypeOK
    <3>4. /\ pc' \in [Senders -> {"idle", "lookup", "send", "enqueue"}]
          /\ hand' \in [Senders -> 1..issued \cup {NoCommand}]
          /\ sender' \in [Senders -> 0..MaxStream]
      BY <3>1, RegistryAssumption DEF RegInv, RegTypeOK, NoStream
    <3>5. SenderInv' /\ ReplayInv'
      BY <1>2, <3>1 DEF TrySend, RegInv, RegTypeOK, SenderInv, ReplayInv, Senders
    <3>6. QED
      BY <1>2, <3>3, <3>4, <3>5 DEF TrySend, RegInv, RegTypeOK
  <2>3. CASE ~(receiver[sender[s]] /\ Len(channel[sender[s]]) < ChannelCapacity)
    <3>1. /\ pc' = [pc EXCEPT ![s] = "enqueue"] /\ UNCHANGED <<channel, hand>>
          /\ sender' = [sender EXCEPT ![s] = NoStream]
      BY <1>2, <2>3 DEF TrySend
    <3>2. /\ pc' \in [Senders -> {"idle", "lookup", "send", "enqueue"}]
          /\ sender' \in [Senders -> 0..MaxStream]
      BY <3>1, RegistryAssumption DEF RegInv, RegTypeOK, NoStream
    <3>3. SenderInv' /\ ReplayInv'
      BY <1>2, <3>1 DEF TrySend, RegInv, RegTypeOK, SenderInv, ReplayInv, Senders
    <3>4. QED
      BY <1>2, <3>1, <3>2, <3>3 DEF TrySend, RegInv, RegTypeOK
  <2>4. QED
    BY <2>2, <2>3
<1>3. CASE Enqueue(s)
  <2>1. hand[s] \in 1..issued
    BY <1>3 DEF Enqueue, RegInv, RegTypeOK, SenderInv, NoCommand
  <2>2. pending' \in Seq(1..issued) /\ Len(pending') <= PendingLimit
    <3>1. CASE Len(pending) >= PendingLimit
      <4>1. Tail(pending) \in Seq(1..issued) /\ Len(Tail(pending)) < PendingLimit
        BY <3>1, RegistryAssumption DEF RegInv, RegTypeOK
      <4>2. pending' = Append(Tail(pending), hand[s])
        BY <1>3, <3>1 DEF Enqueue
      <4>3. QED
        BY <2>1, <4>1, <4>2, RegistryAssumption
    <3>2. CASE ~(Len(pending) >= PendingLimit)
      <4>1. pending \in Seq(1..issued) /\ Len(pending) < PendingLimit
        BY <3>2, RegistryAssumption DEF RegInv, RegTypeOK
      <4>2. pending' = Append(pending, hand[s])
        BY <1>3, <3>2 DEF Enqueue
      <4>3. QED
        BY <2>1, <4>1, <4>2, RegistryAssumption
    <3>3. QED
      BY <3>1, <3>2
  <2>3. dropped' \subseteq Reasons \X (1..issued)
    <3>1. Len(pending) >= PendingLimit => Head(pending) \in 1..issued
      BY RegistryAssumption DEF RegInv, RegTypeOK
    <3>2. QED
      BY <1>3, <3>1 DEF Enqueue, RegInv, Reasons
  <2>4. /\ pc' \in [Senders -> {"idle", "lookup", "send", "enqueue"}]
        /\ hand' \in [Senders -> 1..issued \cup {NoCommand}]
    BY <1>3 DEF Enqueue, RegInv, RegTypeOK
  <2>5. SenderInv'
    BY <1>3, <2>1 DEF Enqueue, RegInv, RegTypeOK, SenderInv, NoStream, NoCommand
  <2>6. ReplayInv'
    BY <1>3 DEF Enqueue, RegInv, RegTypeOK, ReplayInv, Senders
  <2>7. QED
    BY <1>3, <2>2, <2>3, <2>4, <2>5, <2>6 DEF Enqueue, RegInv, RegTypeOK
<1>4. QED
  BY <1>1, <1>2, <1>3 DEF SendStep

\* So does a handler that is dropped.
LEMMA CancelReg ==
  ASSUME RegInv, NEW h \in Handlers, Cancelled(h), UNCHANGED issued PROVE RegInv'
<1> USE DEF registry, streams, agent, agentRow
<1>1. h \in Senders /\ h \notin Streams /\ hand[h] \in 1..issued
  BY HandlersAssumption DEF Cancelled, RegInv, RegTypeOK, SenderInv, Senders, NoCommand
<1>2. /\ pc' \in [Senders -> {"idle", "lookup", "send", "enqueue"}]
      /\ hand' \in [Senders -> 1..issued \cup {NoCommand}]
      /\ \A g \in Streams : pc'[g] = pc[g]
  BY <1>1 DEF Cancelled, RegInv, RegTypeOK, Senders
<1>3. dropped' \subseteq Reasons \X (1..issued)
  BY <1>1 DEF Cancelled, RegInv, Reasons
<1>4. SenderInv'
  BY <1>1 DEF Cancelled, RegInv, RegTypeOK, SenderInv
<1>5. ReplayInv'
  BY <1>2 DEF Cancelled, RegInv, ReplayInv
<1>6. QED
  BY <1>2, <1>3, <1>4, <1>5 DEF Cancelled, RegInv, RegTypeOK

\* Entering send_command with an issued command keeps them.
LEMMA EnterReg ==
  ASSUME RegInv, NEW s \in Senders, NEW c \in 1..issued, SendCommand(s, c)
  PROVE  /\ pc' \in [Senders -> {"idle", "lookup", "send", "enqueue"}]
         /\ hand' \in [Senders -> 1..issued \cup {NoCommand}]
         /\ sender' \in [Senders -> 0..MaxStream]
         /\ SenderInv'
         /\ \A g \in Streams : g # s => pc'[g] = pc[g]
BY DEF SendCommand, RegInv, RegTypeOK, SenderInv, Senders, NoStream, NoCommand

\* Each step of a heartbeat stream keeps the types.
LEMMA StreamReg ==
  ASSUME RegInv, NEW g \in Streams, StreamStep(g), UNCHANGED issued PROVE RegInv'
<1> USE DEF registry, streams, senders, agent, agentRow, trace
<1>0. g \in 0..MaxStream /\ g \in Senders /\ NoStream \in 0..MaxStream
  BY RegistryAssumption DEF Streams, Senders, NoStream
<1>1. CASE Connect(g)
  <2>1. /\ replay' \in [Streams -> Seq(1..issued)] /\ receiver' \in [Streams -> BOOLEAN]
        /\ phase' \in [Streams -> {"none", "replay", "open", "ending", "ended"}]
    BY <1>1 DEF Connect, RegInv, RegTypeOK
  <2>2. pending' \in Seq(1..issued) /\ Len(pending') <= PendingLimit
    BY <1>1, RegistryAssumption DEF Connect
  <2>3. SenderInv' /\ ReplayInv'
    BY <1>1 DEF Connect, RegInv, RegTypeOK, SenderInv, ReplayInv
  <2>4. client' \in 0..MaxStream /\ waiting' \in 0..MaxStream
    BY <1>0, <1>1, RegistryAssumption DEF Connect, RegInv, RegTypeOK
  <2>5. dialing' \in BOOLEAN
    BY <1>1, Zenon DEF Connect, RegInv, RegTypeOK
  <2>6. QED
    BY <1>0, <1>1, <2>1, <2>2, <2>3, <2>4, <2>5 DEF Connect, RegInv, RegTypeOK
<1>2. CASE Replay(g)
  <2>1. /\ Head(replay[g]) \in 1..issued /\ Tail(replay[g]) \in Seq(1..issued)
        /\ Len(Tail(replay[g])) <= PendingLimit
    <3>1. /\ replay[g] \in Seq(1..issued) /\ replay[g] # <<>>
          /\ Len(replay[g]) <= PendingLimit
      BY <1>2 DEF Replay, RegInv, RegTypeOK, ReplayInv
    <3>2. /\ Head(replay[g]) \in 1..issued /\ Tail(replay[g]) \in Seq(1..issued)
          /\ Len(replay[g]) \in Nat /\ Len(Tail(replay[g])) = Len(replay[g]) - 1
      BY <3>1, HeadTail, Zenon
    <3>3. QED
      BY <3>1, <3>2, RegistryAssumption
  <2>2. SendCommand(g, Head(replay[g]))
    BY <1>2 DEF Replay
  <2>3. /\ pc' \in [Senders -> {"idle", "lookup", "send", "enqueue"}]
        /\ hand' \in [Senders -> 1..issued \cup {NoCommand}]
        /\ sender' \in [Senders -> 0..MaxStream]
        /\ SenderInv'
        /\ \A k \in Streams : k # g => pc'[k] = pc[k]
    BY <1>0, <2>1, <2>2, EnterReg
  <2>4. replay' \in [Streams -> Seq(1..issued)]
    BY <1>2, <2>1 DEF Replay, RegInv, RegTypeOK
  <2>5. ReplayInv'
    BY <1>2, <2>1, <2>3 DEF Replay, RegInv, RegTypeOK, ReplayInv
  <2>6. QED
    BY <1>2, <2>3, <2>4, <2>5 DEF Replay, RegInv, RegTypeOK
<1>3. CASE Opened(g)
  <2>1. /\ phase' \in [Streams -> {"none", "replay", "open", "ending", "ended"}]
        /\ status' \in {"online", "offline"} /\ fresh' \in BOOLEAN
    BY <1>3 DEF Opened, RegInv, RegTypeOK
  <2>2. SenderInv' /\ ReplayInv'
    BY <1>3 DEF Opened, RegInv, RegTypeOK, SenderInv, ReplayInv
  <2>3. QED
    BY <1>0, <1>3, <2>1, <2>2 DEF Opened, RegInv, RegTypeOK
<1>4. CASE Heartbeat(g)
  <2>1. status' \in {"online", "offline"} /\ fresh' \in BOOLEAN
    BY <1>4 DEF Heartbeat, RegInv, RegTypeOK
  <2>2. SenderInv' /\ ReplayInv'
    BY <1>4 DEF Heartbeat, RegInv, SenderInv, ReplayInv
  <2>3. QED
    BY <1>0, <1>4, <2>1, <2>2 DEF Heartbeat, RegInv, RegTypeOK
<1>5. CASE InboundEnds(g)
  <2>1. /\ phase' \in [Streams -> {"none", "replay", "open", "ending", "ended"}]
        /\ status' \in {"online", "offline"}
    BY <1>5 DEF InboundEnds, RegInv, RegTypeOK
  <2>2. SenderInv' /\ ReplayInv'
    BY <1>5 DEF InboundEnds, RegInv, RegTypeOK, SenderInv, ReplayInv
  <2>3. QED
    BY <1>5, <2>1, <2>2 DEF InboundEnds, RegInv, RegTypeOK
<1>6. CASE Disconnect(g)
  <2>1. phase' \in [Streams -> {"none", "replay", "open", "ending", "ended"}]
    BY <1>6 DEF Disconnect, RegInv, RegTypeOK
  <2>2. SenderInv' /\ ReplayInv'
    BY <1>6 DEF Disconnect, RegInv, RegTypeOK, SenderInv, ReplayInv
  <2>3. QED
    BY <1>0, <1>6, <2>1, <2>2 DEF Disconnect, RegInv, RegTypeOK
<1>7. CASE ReceiverDropped(g)
  <2>1. /\ receiver' \in [Streams -> BOOLEAN] /\ channel' \in [Streams -> Seq(1..issued)]
        /\ \A k \in Streams : Len(channel'[k]) <= ChannelCapacity
    BY <1>7, RegistryAssumption DEF ReceiverDropped, RegInv, RegTypeOK
  <2>2. ToSet(channel[g]) \subseteq 1..issued
    BY DEF RegInv, RegTypeOK, ToSet
  <2>3. dropped' \subseteq Reasons \X (1..issued)
    BY <1>7, <2>2 DEF ReceiverDropped, RegInv, Reasons
  <2>4. SenderInv' /\ ReplayInv'
    BY <1>7 DEF ReceiverDropped, RegInv, SenderInv, ReplayInv
  <2>5. QED
    BY <1>7, <2>1, <2>3, <2>4 DEF ReceiverDropped, RegInv, RegTypeOK
<1>8. CASE HandlerCancelled(g)
  <2>1. /\ receiver' \in [Streams -> BOOLEAN] /\ channel' \in [Streams -> Seq(1..issued)]
        /\ \A k \in Streams : Len(channel'[k]) <= ChannelCapacity
        /\ replay' \in [Streams -> Seq(1..issued)]
        /\ phase' \in [Streams -> {"none", "replay", "open", "ending", "ended"}]
    BY <1>8, RegistryAssumption DEF HandlerCancelled, RegInv, RegTypeOK
  <2>2. /\ pc' \in [Senders -> {"idle", "lookup", "send", "enqueue"}]
        /\ hand' \in [Senders -> 1..issued \cup {NoCommand}]
        /\ sender' \in [Senders -> 0..MaxStream]
    BY <1>0, <1>8 DEF HandlerCancelled, RegInv, RegTypeOK
  <2>3. SenderInv'
    BY <1>0, <1>8 DEF HandlerCancelled, RegInv, RegTypeOK, SenderInv
  <2>4. ReplayInv'
    BY <1>0, <1>8, RegistryAssumption
       DEF HandlerCancelled, RegInv, RegTypeOK, ReplayInv, Senders
  <2>5. ToSet(channel[g]) \cup ToSet(replay[g]) \cup ({hand[g]} \ {NoCommand}) \subseteq 1..issued
    <3>1. channel[g] \in Seq(1..issued) /\ replay[g] \in Seq(1..issued)
      BY DEF RegInv, RegTypeOK
    <3>2. hand[g] \in 1..issued \cup {NoCommand}
      BY <1>0 DEF RegInv, RegTypeOK
    <3>3. ToSet(channel[g]) \subseteq 1..issued /\ ToSet(replay[g]) \subseteq 1..issued
      BY <3>1, ToSetType, Zenon
    <3>4. QED
      BY <3>2, <3>3
  <2>6. dropped' \subseteq Reasons \X (1..issued)
    BY <1>8, <2>5 DEF HandlerCancelled, RegInv, Reasons
  <2>7. QED
    BY <1>8, <2>1, <2>2, <2>3, <2>4, <2>6 DEF HandlerCancelled, RegInv, RegTypeOK
<1>9. QED
  BY <1>1, <1>2, <1>3, <1>4, <1>5, <1>6, <1>7, <1>8 DEF StreamStep

\* So do the agent's steps and its removal.
LEMMA AgentReg ==
  ASSUME RegInv,
         Authorize \/ Abandoned \/ Stale \/ Receive \/ ClientDrop \/ RemovalStep,
         UNCHANGED issued
  PROVE  RegInv'
<1> USE DEF registry, streams, senders, agent, agentRow, trace
<1>1. CASE Authorize \/ Abandoned
  <2>1. waiting' \in 0..MaxStream
    BY <1>1, RegistryAssumption DEF Authorize, Abandoned, GivenUp, RegInv, RegTypeOK
  <2>2. dialing' \in BOOLEAN /\ fresh' \in BOOLEAN
    BY <1>1, Zenon DEF Authorize, Abandoned, RegInv, RegTypeOK
  <2>3. SenderInv' /\ ReplayInv'
    BY <1>1 DEF Authorize, Abandoned, RegInv, SenderInv, ReplayInv
  <2>4. QED
    BY <1>1, <2>1, <2>2, <2>3 DEF Authorize, Abandoned, RegInv, RegTypeOK
<1>2. CASE Stale \/ ClientDrop
  <2>1. SenderInv' /\ ReplayInv'
    BY <1>2 DEF Stale, ClientDrop, RegInv, SenderInv, ReplayInv
  <2>2. client' \in 0..MaxStream
    BY <1>2, RegistryAssumption DEF Stale, ClientDrop, RegInv, RegTypeOK, NoStream
  <2>3. fresh' \in BOOLEAN /\ dialing' \in BOOLEAN
    BY <1>2, Zenon DEF Stale, ClientDrop, RegInv, RegTypeOK
  <2>4. QED
    BY <1>2, <2>1, <2>2, <2>3 DEF Stale, ClientDrop, RegInv, RegTypeOK
<1>3. CASE Receive
  <2>1. /\ client \in Streams /\ channel[client] # <<>>
        /\ channel[client] \in Seq(1..issued) /\ Len(channel[client]) <= ChannelCapacity
    <3>1. client \in Streams
      BY <1>3, RegistryAssumption DEF Receive, RegInv, RegTypeOK, Streams, NoStream
    <3>2. QED
      BY <1>3, <3>1 DEF Receive, RegInv, RegTypeOK
  <2>2. /\ Head(channel[client]) \in 1..issued /\ Tail(channel[client]) \in Seq(1..issued)
        /\ Len(Tail(channel[client])) <= ChannelCapacity
    <3>1. /\ Head(channel[client]) \in 1..issued /\ Tail(channel[client]) \in Seq(1..issued)
          /\ Len(channel[client]) \in Nat /\ Len(Tail(channel[client])) = Len(channel[client]) - 1
      BY <2>1, HeadTail, Zenon
    <3>2. QED
      BY <2>1, <3>1, RegistryAssumption
  <2>3. /\ channel' \in [Streams -> Seq(1..issued)]
        /\ \A k \in Streams : Len(channel'[k]) <= ChannelCapacity
    BY <1>3, <2>1, <2>2 DEF Receive, RegInv, RegTypeOK
  <2>4. received' \in Seq([command : 1..issued, stream : Streams])
    BY <1>3, <2>1, <2>2 DEF Receive, RegInv, RegTypeOK
  <2>5. SenderInv' /\ ReplayInv'
    BY <1>3 DEF Receive, RegInv, SenderInv, ReplayInv
  <2>6. QED
    BY <1>3, <2>3, <2>4, <2>5 DEF Receive, RegInv, RegTypeOK
<1>4. CASE RemovalStep
  <2>1. SenderInv' /\ ReplayInv'
    BY <1>4 DEF RemovalStep, DeleteRow, ForceDisconnect, Forget, RegInv, SenderInv, ReplayInv
  <2>2. CASE DeleteRow
    BY <2>1, <2>2 DEF DeleteRow, RegInv, RegTypeOK
  <2>3. CASE ForceDisconnect
    BY <2>1, <2>3, RegistryAssumption DEF ForceDisconnect, RegInv, RegTypeOK, NoStream
  <2>4. CASE Forget
    <3>1. ToSet(pending) \subseteq 1..issued
      BY DEF RegInv, RegTypeOK, ToSet
    <3>2. dropped' \subseteq Reasons \X (1..issued)
      BY <2>4, <3>1 DEF Forget, RegInv, Reasons
    <3>3. pending' \in Seq(1..issued) /\ Len(pending') <= PendingLimit
      BY <2>4, RegistryAssumption DEF Forget
    <3>4. QED
      BY <2>1, <2>4, <3>2, <3>3, RegistryAssumption DEF Forget, RegInv, RegTypeOK, NoStream
  <2>5. QED
    BY <1>4, <2>2, <2>3, <2>4 DEF RemovalStep
<1>5. QED
  BY <1>1, <1>2, <1>3, <1>4

\* A push issues one command more.
LEMMA PushReg ==
  ASSUME RegInv, NEW h \in Handlers, Push(h) PROVE RegInv'
<1> USE DEF registry, streams, agent, agentRow, trace
<1>1. /\ issued' = issued + 1 /\ issued' \in 0..MaxCommand
      /\ 1..issued \subseteq 1..issued' /\ issued' \in 1..issued'
  BY DeliveryAssumption DEF Push, RegInv
<1>2. \A q : q \in Seq(1..issued) => q \in Seq(1..issued')
  BY <1>1, SeqMonotone
<1>3. received \in Seq([command : 1..issued', stream : Streams])
  <2>1. [command : 1..issued, stream : Streams] \subseteq [command : 1..issued', stream : Streams]
    BY <1>1
  <2>2. received \in Seq([command : 1..issued, stream : Streams])
    BY DEF RegInv, RegTypeOK
  <2>3. QED
    BY <2>1, <2>2, SeqMonotone, Zenon
<1>4. pc' = [pc EXCEPT ![h] = "lookup"] /\ hand' = [hand EXCEPT ![h] = issued']
      /\ UNCHANGED sender
  BY DEF Push, SendCommand
<1>5. /\ pc' \in [Senders -> {"idle", "lookup", "send", "enqueue"}]
      /\ hand' \in [Senders -> 1..issued' \cup {NoCommand}]
  BY <1>1, <1>4 DEF RegInv, RegTypeOK
<1>6. SenderInv'
  BY <1>1, <1>4 DEF Push, SendCommand, RegInv, RegTypeOK, SenderInv, Senders, NoCommand
<1>7. ReplayInv'
  <2>1. \A g \in Streams : g # h => pc'[g] = pc[g]
    BY <1>4 DEF RegInv, RegTypeOK, Senders
  <2>2. h \notin Streams
    BY HandlersAssumption
  <2>3. QED
    BY <2>1, <2>2 DEF Push, RegInv, ReplayInv
<1>8. dropped' \subseteq Reasons \X (1..issued')
  BY <1>1 DEF Push, RegInv
<1>9. RegTypeOK(1..issued)'
  BY <1>2, <1>3, <1>4, <1>5 DEF Push, RegInv, RegTypeOK
<1>10. QED
  BY <1>1, <1>6, <1>7, <1>8, <1>9 DEF RegInv

-----------------------------------------------------------------------------
(* The live stream *)

\* The stream that the agent reads replays or is open; and a row that exists has
\* the newest stream registered.
LiveInv ==
  /\ PhaseInv
  /\ row <=> removal = "idle"
  /\ client # NoStream => phase[client] \in {"replay", "open"}
  /\ NewestStreamRegistered

\* No stream is there at first.
LEMMA InitLive == Init => LiveInv
BY RegistryAssumption
   DEF Init, RegInit, LiveInv, PhaseInv, NewestStreamRegistered, NoStream, Streams

\* No teardown of a stale stream, and no other step, unregisters the newest one.
LEMMA NextLive == RegInv /\ LiveInv /\ [Next]_vars => LiveInv'
<1> SUFFICES ASSUME RegInv, LiveInv, [Next]_vars PROVE LiveInv'
  OBVIOUS
<1> USE DEF registry, streams, senders, agent, agentRow, trace
<1>0. /\ generation \in Nat /\ connected \in Nat /\ client \in 0..MaxStream
      /\ phase \in [Streams -> {"none", "replay", "open", "ending", "ended"}]
  BY RegistryAssumption DEF RegInv, RegTypeOK
<1>00. generation # NoStream => generation \in Streams
  BY RegistryAssumption DEF RegInv, RegTypeOK, Streams, NoStream
<1>1. ASSUME NEW h \in Handlers, Push(h) PROVE LiveInv'
  BY <1>1 DEF Push, LiveInv, PhaseInv, NewestStreamRegistered
<1>2. ASSUME NEW s \in Senders, SendStep(s) PROVE LiveInv'
  BY <1>2 DEF SendStep, Lookup, TrySend, Enqueue, LiveInv, PhaseInv, NewestStreamRegistered
<1>3. CASE Authorize \/ Abandoned \/ \E h \in Handlers : Cancelled(h)
  BY <1>3 DEF Authorize, Abandoned, Cancelled, LiveInv, PhaseInv, NewestStreamRegistered
<1>4. ASSUME NEW g \in Streams, StreamStep(g) PROVE LiveInv'
  <2>1. CASE Connect(g)
    BY <1>0, <2>1 DEF Connect, LiveInv, PhaseInv, NewestStreamRegistered, Streams, NoStream
  <2>2. CASE Replay(g) \/ Heartbeat(g) \/ ReceiverDropped(g)
    BY <2>2 DEF Replay, Heartbeat, ReceiverDropped, LiveInv, PhaseInv, NewestStreamRegistered
  <2>3. CASE Opened(g) \/ InboundEnds(g) \/ HandlerCancelled(g)
    <3>1. /\ phase[g] \in {"replay", "open"} /\ UNCHANGED <<generation, connected, client, row, removal>>
          /\ \/ phase' = [phase EXCEPT ![g] = "open"]
             \/ phase' = [phase EXCEPT ![g] = "ending"] /\ client # g
             \/ phase' = [phase EXCEPT ![g] = "ended"] /\ client # g
      BY <2>3 DEF Opened, InboundEnds, HandlerCancelled
    <3>2. PhaseInv'
      BY <1>0, <3>1 DEF LiveInv, PhaseInv
    <3>3. client' # NoStream => phase'[client'] \in {"replay", "open"}
      <4>1. client # NoStream => client \in Streams
        BY <1>0, RegistryAssumption DEF Streams, NoStream
      <4>2. QED
        BY <1>0, <3>1, <4>1 DEF LiveInv
    <3>4. NewestStreamRegistered' /\ (row <=> removal = "idle")'
      BY <1>0, <1>00, <3>1 DEF LiveInv, NewestStreamRegistered
    <3>5. QED
      BY <3>2, <3>3, <3>4 DEF LiveInv
  <2>4. CASE Disconnect(g)
    <3>1. client # g \/ client = NoStream
      BY <2>4 DEF Disconnect, LiveInv
    <3>2. PhaseInv'
      BY <1>0, <2>4 DEF Disconnect, LiveInv, PhaseInv
    <3>3. NewestStreamRegistered'
      BY <1>0, <1>00, <2>4 DEF Disconnect, LiveInv, NewestStreamRegistered
    <3>4. client' # NoStream => phase'[client'] \in {"replay", "open"}
      BY <1>0, <2>4 DEF Disconnect, LiveInv
    <3>5. QED
      BY <2>4, <3>2, <3>3, <3>4 DEF Disconnect, LiveInv
  <2>5. QED
    BY <1>4, <2>1, <2>2, <2>3, <2>4 DEF StreamStep
<1>5. CASE Stale \/ Receive \/ ClientDrop
  BY <1>5 DEF Stale, Receive, ClientDrop, LiveInv, PhaseInv, NewestStreamRegistered
<1>6. CASE RemovalStep
  BY <1>6 DEF RemovalStep, DeleteRow, ForceDisconnect, Forget, LiveInv, PhaseInv,
              NewestStreamRegistered
<1>7. CASE UNCHANGED vars
  BY <1>7 DEF vars, regVars, LiveInv, PhaseInv, NewestStreamRegistered
<1>8. QED
  BY <1>1, <1>2, <1>3, <1>4, <1>5, <1>6, <1>7 DEF Next

\* Every step keeps the types.
LEMMA NextReg == RegInv /\ [Next]_vars => RegInv'
<1> SUFFICES ASSUME RegInv, [Next]_vars PROVE RegInv'
  OBVIOUS
<1>1. CASE Next
  BY <1>1, PushReg, SendReg, CancelReg, StreamReg, AgentReg DEF Next
<1>2. CASE UNCHANGED vars
  BY <1>2 DEF vars, regVars, registry, streams, senders, agent, agentRow, trace, RegInv,
              RegTypeOK, SenderInv, ReplayInv
<1>3. QED
  BY <1>1, <1>2

-----------------------------------------------------------------------------
(* One place for each command *)

\* Places tells the positions of a queue apart, which shift.  A box is a whole
\* queue, and the invariant is that each command is in one box and in one
\* position of it.
Got == {received[i].command : i \in 1..Len(received)}

BoxHas(k, x, c) ==
  \/ k = "hand" /\ x \in Senders /\ hand[x] = c
  \/ k = "replay" /\ x \in Streams /\ c \in ToSet(replay[x])
  \/ k = "pending" /\ x = 0 /\ c \in ToSet(pending)
  \/ k = "channel" /\ x \in Streams /\ c \in ToSet(channel[x])
  \/ k = "received" /\ x = 0 /\ c \in Got
  \/ k \in Reasons /\ x = 0 /\ <<k, c>> \in dropped

Sole(c) ==
  \E k, x : BoxHas(k, x, c) /\ \A l, y : BoxHas(l, y, c) => l = k /\ y = x

Distinct(q) == \A i, j \in 1..Len(q) : q[i] = q[j] => i = j

DistinctInv ==
  /\ \A g \in Streams : Distinct(replay[g]) /\ Distinct(channel[g])
  /\ Distinct(pending)
  /\ \A i, j \in 1..Len(received) : received[i].command = received[j].command => i = j

BoxInv == DistinctInv /\ \A c \in 1..issued : Sole(c)

\* What leaves a queue of distinct commands at its head is not in it any more.
LEMMA TailOf ==
  ASSUME NEW S, NEW q \in Seq(S), q # <<>>, Distinct(q)
  PROVE  /\ Distinct(Tail(q)) /\ Head(q) \in ToSet(q)
         /\ ToSet(Tail(q)) = ToSet(q) \ {Head(q)}
<1> DEFINE t == Tail(q)
<1>1. /\ Head(q) = q[1] /\ t \in Seq(S)
      /\ Len(q) \in Nat \ {0} /\ Len(t) = Len(q) - 1
      /\ \A i \in 1..Len(t) : t[i] = q[i + 1]
  BY HeadTail
<1> HIDE DEF t
<1>2. Distinct(t)
  BY <1>1 DEF Distinct
<1>3. \A c : c \in ToSet(q) <=> \E i \in 1..Len(q) : q[i] = c
  BY ToSetType
<1>4. \A c : c \in ToSet(t) <=> \E i \in 1..Len(t) : t[i] = c
  BY <1>1, ToSetType
<1>5. ASSUME NEW c, c \in ToSet(t) PROVE c \in ToSet(q) \ {Head(q)}
  <2>1. PICK i \in 1..Len(t) : t[i] = c
    BY <1>4, <1>5
  <2>2. i + 1 \in 1..Len(q) /\ q[i + 1] = c /\ i + 1 # 1
    BY <1>1, <2>1
  <2>3. QED
    BY <1>1, <1>3, <2>2 DEF Distinct
<1>6. ASSUME NEW c, c \in ToSet(q) \ {Head(q)} PROVE c \in ToSet(t)
  <2>1. PICK i \in 1..Len(q) : q[i] = c
    BY <1>3, <1>6
  <2>2. i # 1 /\ i - 1 \in 1..Len(t) /\ t[i - 1] = q[(i - 1) + 1]
    BY <1>1, <1>6, <2>1
  <2>3. QED
    BY <1>4, <2>1, <2>2
<1>7. Head(q) \in ToSet(q) /\ ToSet(t) = ToSet(q) \ {Head(q)}
  BY <1>1, <1>3, <1>5, <1>6
<1>8. QED
  BY <1>2, <1>7 DEF t

\* What is appended to a queue comes last in it.
LEMMA AppendOf ==
  ASSUME NEW S, NEW q \in Seq(S), NEW c
  PROVE  /\ ToSet(Append(q, c)) = ToSet(q) \cup {c}
         /\ Distinct(q) /\ c \notin ToSet(q) => Distinct(Append(q, c))
<1> DEFINE p == Append(q, c)
<1>0. q \in Seq(S \cup {c})
  BY SeqMonotone
<1>1. /\ p \in Seq(S \cup {c}) /\ Len(q) \in Nat /\ Len(p) = Len(q) + 1
      /\ p[Len(q) + 1] = c /\ \A i \in 1..Len(q) : p[i] = q[i]
  BY <1>0
<1> HIDE DEF p
<1>2. \A d : d \in ToSet(q) <=> \E i \in 1..Len(q) : q[i] = d
  BY ToSetType
<1>3. \A d : d \in ToSet(p) <=> \E i \in 1..Len(p) : p[i] = d
  BY <1>1, ToSetType
<1>4. ToSet(p) = ToSet(q) \cup {c}
  <2>1. ASSUME NEW d, d \in ToSet(p) PROVE d \in ToSet(q) \cup {c}
    BY <1>1, <1>2, <1>3, <2>1
  <2>2. ASSUME NEW d, d \in ToSet(q) \cup {c} PROVE d \in ToSet(p)
    BY <1>1, <1>2, <1>3, <2>2
  <2>3. QED
    BY <2>1, <2>2
<1>5. Distinct(q) /\ c \notin ToSet(q) => Distinct(p)
  BY <1>1, <1>2 DEF Distinct
<1>6. QED
  BY <1>4, <1>5 DEF p

\* A command is in no other box than this.
OnlyIn(k, x, c) ==
  /\ \A y \in Senders : hand[y] = c => k = "hand" /\ x = y
  /\ \A y \in Streams : c \in ToSet(replay[y]) => k = "replay" /\ x = y
  /\ c \in ToSet(pending) => k = "pending" /\ x = 0
  /\ \A y \in Streams : c \in ToSet(channel[y]) => k = "channel" /\ x = y
  /\ c \in Got => k = "received" /\ x = 0
  /\ \A r \in Reasons : <<r, c>> \in dropped => k = r /\ x = 0

\* The step moves it neither into a box nor out of one.
Unmoved(c) ==
  /\ \A y \in Senders : hand'[y] = c <=> hand[y] = c
  /\ \A y \in Streams : c \in ToSet(replay'[y]) <=> c \in ToSet(replay[y])
  /\ c \in ToSet(pending') <=> c \in ToSet(pending)
  /\ \A y \in Streams : c \in ToSet(channel'[y]) <=> c \in ToSet(channel[y])
  /\ c \in Got' <=> c \in Got
  /\ \A r \in Reasons : <<r, c>> \in dropped' <=> <<r, c>> \in dropped

\* The box of a command is the only one.
LEMMA SoleBox ==
  ASSUME BoxInv, NEW c \in 1..issued, NEW k, NEW x, BoxHas(k, x, c) PROVE OnlyIn(k, x, c)
<1>1. \A l, y : BoxHas(l, y, c) => l = k /\ y = x
  BY DEF BoxInv, Sole
<1>2. /\ \A y \in Senders : hand[y] = c => BoxHas("hand", y, c)
      /\ \A y \in Streams : c \in ToSet(replay[y]) => BoxHas("replay", y, c)
      /\ c \in ToSet(pending) => BoxHas("pending", 0, c)
      /\ \A y \in Streams : c \in ToSet(channel[y]) => BoxHas("channel", y, c)
      /\ c \in Got => BoxHas("received", 0, c)
      /\ \A r \in Reasons : <<r, c>> \in dropped => BoxHas(r, 0, c)
  BY DEF BoxHas
<1>3. QED
  BY <1>1, <1>2 DEF OnlyIn

\* A command that stays in its box has only that one,...
LEMMA Stays ==
  ASSUME NEW c, Sole(c), Unmoved(c) PROVE Sole(c)'
<1>1. \A k, x : BoxHas(k, x, c)' <=> BoxHas(k, x, c)
  BY DEF Unmoved, BoxHas
<1>2. QED
  BY <1>1 DEF Sole

\* ...and so has one that moves to another box.
LEMMA Moves ==
  ASSUME NEW c, NEW k, NEW x, BoxHas(k, x, c)', OnlyIn(k, x, c)' PROVE Sole(c)'
<1>1. \A l, y : BoxHas(l, y, c)' => l = k /\ y = x
  BY DEF OnlyIn, BoxHas
<1>2. QED
  BY <1>1 DEF Sole

\* No command is issued at first.
LEMMA InitBox == Init => BoxInv
BY DEF Init, RegInit, BoxInv, DistinctInv, Distinct

\* Nothing moves where no box changes.
LEMMA BoxSame ==
  ASSUME BoxInv, UNCHANGED <<hand, replay, pending, channel, received, dropped, issued>>
  PROVE  BoxInv'
<1>1. \A c : Unmoved(c)
  BY DEF Unmoved, Got
<1>2. DistinctInv'
  BY DEF BoxInv, DistinctInv
<1>3. \A c \in 1..issued : Sole(c)'
  BY <1>1, Stays DEF BoxInv
<1>4. QED
  BY <1>2, <1>3 DEF BoxInv

\* send_command moves the command in hand into a channel or into the queue, and
\* what the queue has no room for out of it.
LEMMA SendBox ==
  ASSUME RegInv, BoxInv, NEW s \in Senders, SendStep(s), UNCHANGED issued PROVE BoxInv'
<1> USE DEF registry, streams, senders, agent, agentRow, trace
<1>1. CASE Lookup(s)
  BY <1>1, BoxSame DEF Lookup
<1>2. CASE TrySend(s)
  <2>1. PICK g \in Streams, d \in 1..issued : g = sender[s] /\ d = hand[s]
    BY <1>2 DEF TrySend, RegInv, RegTypeOK, SenderInv, Streams, NoStream, NoCommand
  <2>2. CASE ~(receiver[g] /\ Len(channel[g]) < ChannelCapacity)
    BY <1>2, <2>1, <2>2, BoxSame DEF TrySend
  <2>3. CASE receiver[g] /\ Len(channel[g]) < ChannelCapacity
    <3>1. /\ channel' = [channel EXCEPT ![g] = Append(channel[g], d)]
          /\ hand' = [hand EXCEPT ![s] = NoCommand]
          /\ UNCHANGED <<pending, replay, received, dropped>>
      BY <1>2, <2>1, <2>3 DEF TrySend
    <3>2. channel[g] \in Seq(1..issued) /\ Distinct(channel[g])
      BY DEF RegInv, RegTypeOK, BoxInv, DistinctInv
    <3>3. OnlyIn("hand", s, d)
      BY <2>1, SoleBox DEF BoxHas
    <3>4. /\ ToSet(Append(channel[g], d)) = ToSet(channel[g]) \cup {d}
          /\ Distinct(Append(channel[g], d))
      <4>1. d \in 1..issued /\ d \notin ToSet(channel[g])
        BY <3>3 DEF OnlyIn
      <4>2. QED
        BY <3>2, <4>1, AppendOf, Zenon
    <3>5. /\ channel'[g] = Append(channel[g], d)
          /\ \A x \in Streams : x # g => channel'[x] = channel[x]
      BY <3>1 DEF RegInv, RegTypeOK
    <3>6. hand'[s] = NoCommand /\ \A x \in Senders : x # s => hand'[x] = hand[x]
      BY <3>1 DEF RegInv, RegTypeOK
    <3>7. d # NoCommand /\ \A c \in 1..issued : c # NoCommand
      BY DEF NoCommand
    <3>8. DistinctInv'
      BY <3>1, <3>4, <3>5 DEF BoxInv, DistinctInv
    <3>9. ASSUME NEW c \in 1..issued, c # d PROVE Unmoved(c)
      BY <2>1, <3>1, <3>4, <3>5, <3>6, <3>7, <3>9 DEF Unmoved, Got
    <3>10. BoxHas("channel", g, d)'
      BY <3>4, <3>5 DEF BoxHas
    <3>11. OnlyIn("channel", g, d)'
      BY <3>1, <3>3, <3>4, <3>5, <3>6, <3>7 DEF OnlyIn, Got, Reasons
    <3>12. QED
      BY <3>8, <3>9, <3>10, <3>11, Stays, Moves DEF BoxInv
  <2>4. QED
    BY <2>2, <2>3
<1>3. CASE Enqueue(s)
  <2>0. pending \in Seq(1..issued) /\ Distinct(pending)
    BY DEF RegInv, RegTypeOK, BoxInv, DistinctInv
  <2>1. PICK d \in 1..issued : d = hand[s]
    BY <1>3 DEF Enqueue, RegInv, RegTypeOK, SenderInv, NoCommand
  <2>2. hand'[s] = NoCommand /\ \A x \in Senders : x # s => hand'[x] = hand[x]
    BY <1>3 DEF Enqueue, RegInv, RegTypeOK
  <2>3. UNCHANGED <<replay, channel, received>>
    BY <1>3 DEF Enqueue
  <2>4. OnlyIn("hand", s, d)
    BY <2>1, SoleBox DEF BoxHas
  <2>5. d \in 1..issued /\ d \notin ToSet(pending)
    BY <2>4 DEF OnlyIn
  <2>6. d # NoCommand /\ \A c \in 1..issued : c # NoCommand
    BY DEF NoCommand
  <2>7. CASE Len(pending) >= PendingLimit
    <3>1. pending # <<>>
      BY <2>7, RegistryAssumption
    <3>2. /\ Tail(pending) \in Seq(1..issued) /\ Head(pending) \in 1..issued
      BY <2>0, <3>1, HeadTail
    <3>3. PICK o \in 1..issued : o = Head(pending)
      BY <3>2
    <3>4. /\ pending' = Append(Tail(pending), d)
          /\ dropped' = dropped \cup {<<"overflow", o>>}
      BY <1>3, <2>1, <2>7, <3>3 DEF Enqueue
    <3>5. /\ Distinct(Tail(pending)) /\ o \in ToSet(pending)
          /\ ToSet(Tail(pending)) = ToSet(pending) \ {o}
      BY <2>0, <3>1, <3>3, TailOf
    <3>6. d \notin ToSet(Tail(pending)) /\ d # o
      BY <2>5, <3>5
    <3>7. /\ ToSet(pending') = (ToSet(pending) \ {o}) \cup {d}
          /\ Distinct(pending')
      <4>1. /\ ToSet(pending') = ToSet(Tail(pending)) \cup {d}
            /\ Distinct(pending')
        BY <2>5, <3>2, <3>4, <3>5, <3>6, AppendOf, Zenon
      <4>2. QED
        BY <3>5, <4>1
    <3>8. OnlyIn("pending", 0, o)
      BY <3>5, SoleBox DEF BoxHas
    <3>9. DistinctInv'
      BY <2>3, <3>7 DEF BoxInv, DistinctInv
    <3>10. ASSUME NEW c \in 1..issued, c # d, c # o PROVE Unmoved(c)
      BY <2>1, <2>2, <2>3, <2>6, <3>4, <3>7, <3>10 DEF Unmoved, Got
    <3>11. BoxHas("pending", 0, d)' /\ BoxHas("overflow", 0, o)'
      BY <3>4, <3>7 DEF BoxHas, Reasons
    <3>12. OnlyIn("pending", 0, d)'
      BY <2>2, <2>3, <2>4, <2>6, <3>4, <3>6, <3>7 DEF OnlyIn, Got, Reasons
    <3>13. OnlyIn("overflow", 0, o)'
      BY <2>2, <2>3, <2>6, <3>4, <3>6, <3>7, <3>8 DEF OnlyIn, Got, Reasons
    <3>14. QED
      BY <3>9, <3>10, <3>11, <3>12, <3>13, Stays, Moves DEF BoxInv
  <2>8. CASE ~(Len(pending) >= PendingLimit)
    <3>1. pending' = Append(pending, d) /\ UNCHANGED dropped
      BY <1>3, <2>1, <2>8 DEF Enqueue
    <3>2. ToSet(pending') = ToSet(pending) \cup {d} /\ Distinct(pending')
      BY <2>0, <2>5, <3>1, AppendOf, Zenon
    <3>3. DistinctInv'
      BY <2>3, <3>2 DEF BoxInv, DistinctInv
    <3>4. ASSUME NEW c \in 1..issued, c # d PROVE Unmoved(c)
      BY <2>1, <2>2, <2>3, <2>6, <3>1, <3>2, <3>4 DEF Unmoved, Got
    <3>5. BoxHas("pending", 0, d)'
      BY <3>2 DEF BoxHas
    <3>6. OnlyIn("pending", 0, d)'
      BY <2>2, <2>3, <2>4, <2>6, <3>1, <3>2 DEF OnlyIn, Got, Reasons
    <3>7. QED
      BY <3>3, <3>4, <3>5, <3>6, Stays, Moves DEF BoxInv
  <2>9. QED
    BY <2>7, <2>8
<1>4. QED
  BY <1>1, <1>2, <1>3 DEF SendStep

\* A handler that is dropped takes its command with it.
LEMMA CancelBox ==
  ASSUME RegInv, BoxInv, NEW h \in Handlers, Cancelled(h), UNCHANGED issued PROVE BoxInv'
<1> USE DEF registry, streams, agent, agentRow
<1>1. PICK d \in 1..issued : d = hand[h]
  BY DEF Cancelled, RegInv, RegTypeOK, SenderInv, Senders, NoCommand
<1>2. h \in Senders /\ hand'[h] = NoCommand /\ \A x \in Senders : x # h => hand'[x] = hand[x]
  BY DEF Cancelled, RegInv, RegTypeOK, Senders
<1>3. /\ UNCHANGED <<replay, pending, channel, received>>
      /\ \A r, c : <<r, c>> \in dropped' <=> <<r, c>> \in dropped \/ (r = "cancelled" /\ c = d)
  BY <1>1 DEF Cancelled
<1>4. \A c \in 1..issued : c # NoCommand
  BY DEF NoCommand
<1>5. OnlyIn("hand", h, d)
  BY <1>1, <1>2, SoleBox DEF BoxHas
<1>6. DistinctInv'
  BY <1>3 DEF BoxInv, DistinctInv
<1>7. ASSUME NEW c \in 1..issued, c # d PROVE Unmoved(c)
  BY <1>1, <1>2, <1>3, <1>4, <1>7 DEF Unmoved, Got
<1>8. BoxHas("cancelled", 0, d)'
  BY <1>3 DEF BoxHas, Reasons
<1>9. OnlyIn("cancelled", 0, d)'
  BY <1>2, <1>3, <1>4, <1>5 DEF OnlyIn, Got, Reasons
<1>10. QED
  BY <1>6, <1>7, <1>8, <1>9, Stays, Moves DEF BoxInv

\* connect moves the queue into the stream's replay, which hands its commands to
\* send_command; a stream that ends discards what it has.
LEMMA StreamBox ==
  ASSUME RegInv, PhaseInv, BoxInv, NEW g \in Streams, StreamStep(g), UNCHANGED issued
  PROVE  BoxInv'
<1> USE DEF registry, streams, senders, agent, agentRow, trace
<1>0. /\ g \in Senders /\ ToSet(<<>>) = {} /\ Distinct(<<>>)
      /\ \A c \in 1..issued : c # NoCommand
  BY DEF Senders, ToSet, Distinct, NoCommand
<1>1. CASE Connect(g)
  <2>1. UNCHANGED <<hand, channel, received, dropped>>
    BY <1>1 DEF Connect
  <2>2. replay[g] = <<>> /\ pending' = <<>>
    BY <1>1, RegistryAssumption DEF Connect, RegInv, RegTypeOK, ReplayInv, PhaseInv
  <2>3. /\ replay'[g] = pending
        /\ \A x \in Streams : x # g => replay'[x] = replay[x]
    BY <1>1 DEF Connect, RegInv, RegTypeOK
  <2>4. DistinctInv'
    BY <1>0, <2>1, <2>2, <2>3 DEF BoxInv, DistinctInv
  <2>5. ASSUME NEW c \in 1..issued, c \notin ToSet(pending) PROVE Unmoved(c)
    BY <1>0, <2>1, <2>2, <2>3, <2>5 DEF Unmoved, Got
  <2>6. ASSUME NEW c \in 1..issued, c \in ToSet(pending) PROVE Sole(c)'
    <3>1. OnlyIn("pending", 0, c)
      BY <2>6, SoleBox DEF BoxHas
    <3>2. BoxHas("replay", g, c)'
      BY <2>3, <2>6 DEF BoxHas
    <3>3. OnlyIn("replay", g, c)'
      BY <1>0, <2>1, <2>2, <2>3, <3>1 DEF OnlyIn, Got, Reasons
    <3>4. QED
      BY <3>2, <3>3, Moves
  <2>7. QED
    BY <2>4, <2>5, <2>6, Stays DEF BoxInv
<1>2. CASE Replay(g)
  <2>1. UNCHANGED <<pending, channel, received, dropped>>
    BY <1>2 DEF Replay
  <2>2. replay[g] \in Seq(1..issued) /\ replay[g] # <<>> /\ Distinct(replay[g])
    BY <1>2 DEF Replay, RegInv, RegTypeOK, BoxInv, DistinctInv
  <2>3. Head(replay[g]) \in 1..issued
    BY <2>2, HeadTail, Zenon
  <2>4. PICK o \in 1..issued : o = Head(replay[g])
    BY <2>3
  <2>5. /\ Distinct(Tail(replay[g])) /\ o \in ToSet(replay[g])
        /\ ToSet(Tail(replay[g])) = ToSet(replay[g]) \ {o}
    BY <2>2, <2>4, TailOf, Zenon
  <2>6. /\ replay'[g] = Tail(replay[g])
        /\ \A x \in Streams : x # g => replay'[x] = replay[x]
    BY <1>2 DEF Replay, RegInv, RegTypeOK
  <2>7. /\ hand[g] = NoCommand /\ hand'[g] = o
        /\ \A x \in Senders : x # g => hand'[x] = hand[x]
    BY <1>0, <1>2, <2>4 DEF Replay, SendCommand, RegInv, RegTypeOK, SenderInv
  <2>8. DistinctInv'
    BY <2>1, <2>5, <2>6 DEF BoxInv, DistinctInv
  <2>9. ASSUME NEW c \in 1..issued, c # o PROVE Unmoved(c)
    BY <1>0, <2>1, <2>5, <2>6, <2>7, <2>9 DEF Unmoved, Got
  <2>10. OnlyIn("replay", g, o)
    BY <2>5, SoleBox DEF BoxHas
  <2>11. BoxHas("hand", g, o)'
    BY <1>0, <2>7 DEF BoxHas
  <2>12. OnlyIn("hand", g, o)'
    BY <2>1, <2>5, <2>6, <2>7, <2>10 DEF OnlyIn, Got, Reasons
  <2>13. QED
    BY <2>8, <2>9, <2>11, <2>12, Stays, Moves DEF BoxInv
<1>3. CASE Opened(g) \/ Heartbeat(g) \/ InboundEnds(g) \/ Disconnect(g)
  BY <1>3, BoxSame DEF Opened, Heartbeat, InboundEnds, Disconnect
<1>4. CASE ReceiverDropped(g)
  <2>1. UNCHANGED <<hand, replay, pending, received>>
    BY <1>4 DEF ReceiverDropped
  <2>2. /\ channel'[g] = <<>>
        /\ \A x \in Streams : x # g => channel'[x] = channel[x]
    BY <1>4 DEF ReceiverDropped, RegInv, RegTypeOK
  <2>3. \A r, c : <<r, c>> \in dropped' <=>
                    <<r, c>> \in dropped \/ (r = "stream" /\ c \in ToSet(channel[g]))
    BY <1>4 DEF ReceiverDropped
  <2>4. DistinctInv'
    BY <1>0, <2>1, <2>2 DEF BoxInv, DistinctInv
  <2>5. ASSUME NEW c \in 1..issued, c \notin ToSet(channel[g]) PROVE Unmoved(c)
    BY <1>0, <2>1, <2>2, <2>3, <2>5 DEF Unmoved, Got
  <2>6. ASSUME NEW c \in 1..issued, c \in ToSet(channel[g]) PROVE Sole(c)'
    <3>1. OnlyIn("channel", g, c)
      BY <2>6, SoleBox DEF BoxHas
    <3>2. BoxHas("stream", 0, c)'
      BY <2>3, <2>6 DEF BoxHas, Reasons
    <3>3. OnlyIn("stream", 0, c)'
      BY <1>0, <2>1, <2>2, <2>3, <3>1 DEF OnlyIn, Got, Reasons
    <3>4. QED
      BY <3>2, <3>3, Moves
  <2>7. QED
    BY <2>4, <2>5, <2>6, Stays DEF BoxInv
<1>5. CASE HandlerCancelled(g)
  <2> DEFINE Lost(c) == c \in ToSet(channel[g]) \/ c \in ToSet(replay[g]) \/ c = hand[g]
  <2>1. UNCHANGED <<pending, received>>
    BY <1>5 DEF HandlerCancelled
  <2>2. /\ channel'[g] = <<>> /\ replay'[g] = <<>> /\ hand'[g] = NoCommand
        /\ \A x \in Streams : x # g => channel'[x] = channel[x] /\ replay'[x] = replay[x]
        /\ \A x \in Senders : x # g => hand'[x] = hand[x]
    BY <1>0, <1>5 DEF HandlerCancelled, RegInv, RegTypeOK
  <2>3. \A r : \A c \in 1..issued : <<r, c>> \in dropped' <=>
                    <<r, c>> \in dropped \/ (r = "stream" /\ Lost(c))
    BY <1>0, <1>5 DEF HandlerCancelled
  <2>4. DistinctInv'
    BY <1>0, <2>1, <2>2 DEF BoxInv, DistinctInv
  <2>5. ASSUME NEW c \in 1..issued, ~Lost(c) PROVE Unmoved(c)
    BY <1>0, <2>1, <2>2, <2>3, <2>5 DEF Unmoved, Got
  <2>6. ASSUME NEW c \in 1..issued, Lost(c) PROVE Sole(c)'
    <3>1. PICK k \in {"channel", "replay", "hand"} : OnlyIn(k, g, c)
      BY <1>0, <2>6, SoleBox DEF BoxHas
    <3>2. BoxHas("stream", 0, c)'
      BY <2>3, <2>6 DEF BoxHas, Reasons
    <3>3. OnlyIn("stream", 0, c)'
      BY <1>0, <2>1, <2>2, <2>3, <3>1 DEF OnlyIn, Got, Reasons
    <3>4. QED
      BY <3>2, <3>3, Moves
  <2>7. QED
    BY <2>4, <2>5, <2>6, Stays DEF BoxInv
<1>6. QED
  BY <1>1, <1>2, <1>3, <1>4, <1>5 DEF StreamStep

\* The agent takes the oldest command of the channel; forget_pending discards the
\* queue.
LEMMA AgentBox ==
  ASSUME RegInv, BoxInv, UNCHANGED issued,
         Authorize \/ Abandoned \/ Stale \/ Receive \/ ClientDrop \/ RemovalStep
  PROVE  BoxInv'
<1> USE DEF registry, streams, senders, agent, agentRow, trace
<1>1. CASE Authorize \/ Abandoned \/ Stale \/ ClientDrop \/ DeleteRow \/ ForceDisconnect
  BY <1>1, BoxSame DEF Authorize, Abandoned, Stale, ClientDrop, DeleteRow, ForceDisconnect
<1>2. CASE Receive
  <2>1. UNCHANGED <<hand, replay, pending, dropped>>
    BY <1>2 DEF Receive
  <2>2. PICK g \in Streams : g = client
    BY <1>2, RegistryAssumption DEF Receive, RegInv, RegTypeOK, Streams, NoStream
  <2>3. channel[g] \in Seq(1..issued) /\ channel[g] # <<>> /\ Distinct(channel[g])
    BY <1>2, <2>2 DEF Receive, RegInv, RegTypeOK, BoxInv, DistinctInv
  <2>4. Head(channel[g]) \in 1..issued
    BY <2>3, HeadTail, Zenon
  <2>5. PICK o \in 1..issued : o = Head(channel[g])
    BY <2>4
  <2>6. /\ Distinct(Tail(channel[g])) /\ o \in ToSet(channel[g])
        /\ ToSet(Tail(channel[g])) = ToSet(channel[g]) \ {o}
    BY <2>3, <2>5, TailOf, Zenon
  <2>7. /\ channel'[g] = Tail(channel[g])
        /\ \A x \in Streams : x # g => channel'[x] = channel[x]
    BY <1>2, <2>2 DEF Receive, RegInv, RegTypeOK
  <2>8. OnlyIn("channel", g, o)
    BY <2>6, SoleBox DEF BoxHas
  <2>9. /\ Len(received) \in Nat /\ Len(received') = Len(received) + 1
        /\ received'[Len(received) + 1].command = o
        /\ \A i \in 1..Len(received) : received'[i] = received[i]
    <3>1. received \in Seq([command : 1..issued, stream : Streams])
      BY DEF RegInv, RegTypeOK
    <3>2. received' = Append(received, [command |-> o, stream |-> g])
      BY <1>2, <2>2, <2>5 DEF Receive
    <3>3. [command |-> o, stream |-> g] \in [command : 1..issued, stream : Streams]
      OBVIOUS
    <3>4. QED
      BY <3>1, <3>2, <3>3
  <2>10. Got' = Got \cup {o}
    <3>1. ASSUME NEW c, c \in Got' PROVE c \in Got \cup {o}
      BY <2>9, <3>1 DEF Got
    <3>2. ASSUME NEW c, c \in Got PROVE c \in Got'
      BY <2>9, <3>2 DEF Got
    <3>3. o \in Got'
      BY <2>9 DEF Got
    <3>4. QED
      BY <3>1, <3>2, <3>3
  <2>11. DistinctInv'
    <3>1. o \notin Got
      BY <2>8 DEF OnlyIn
    <3>2. \A i, j \in 1..Len(received') :
            received'[i].command = received'[j].command => i = j
      BY <2>9, <3>1 DEF Got, BoxInv, DistinctInv
    <3>3. QED
      BY <2>1, <2>6, <2>7, <3>2 DEF BoxInv, DistinctInv
  <2>12. ASSUME NEW c \in 1..issued, c # o PROVE Unmoved(c)
    BY <2>1, <2>6, <2>7, <2>10, <2>12 DEF Unmoved
  <2>13. BoxHas("received", 0, o)'
    BY <2>10 DEF BoxHas
  <2>14. OnlyIn("received", 0, o)'
    BY <2>1, <2>6, <2>7, <2>8 DEF OnlyIn, Reasons
  <2>15. QED
    BY <2>11, <2>12, <2>13, <2>14, Stays, Moves DEF BoxInv
<1>3. CASE Forget
  <2>1. UNCHANGED <<hand, replay, channel, received>> /\ pending' = <<>>
    BY <1>3 DEF Forget
  <2>2. ToSet(<<>>) = {} /\ Distinct(<<>>)
    BY DEF ToSet, Distinct
  <2>3. \A r, c : <<r, c>> \in dropped' <=>
                    <<r, c>> \in dropped \/ (r = "forgotten" /\ c \in ToSet(pending))
    BY <1>3 DEF Forget
  <2>4. DistinctInv'
    BY <2>1, <2>2 DEF BoxInv, DistinctInv
  <2>5. ASSUME NEW c \in 1..issued, c \notin ToSet(pending) PROVE Unmoved(c)
    BY <2>1, <2>2, <2>3, <2>5 DEF Unmoved, Got
  <2>6. ASSUME NEW c \in 1..issued, c \in ToSet(pending) PROVE Sole(c)'
    <3>1. OnlyIn("pending", 0, c)
      BY <2>6, SoleBox DEF BoxHas
    <3>2. BoxHas("forgotten", 0, c)'
      BY <2>3, <2>6 DEF BoxHas, Reasons
    <3>3. OnlyIn("forgotten", 0, c)'
      BY <2>1, <2>2, <2>3, <3>1 DEF OnlyIn, Got, Reasons
    <3>4. QED
      BY <3>2, <3>3, Moves
  <2>7. QED
    BY <2>4, <2>5, <2>6, Stays DEF BoxInv
<1>4. QED
  BY <1>1, <1>2, <1>3 DEF RemovalStep

\* A new command is in the hand of its handler.
LEMMA PushBox ==
  ASSUME RegInv, BoxInv, NEW h \in Handlers, Push(h) PROVE BoxInv'
<1> USE DEF registry, streams, agent, agentRow, trace
<1>1. PICK n : n = issued + 1 /\ n = issued' /\ n \in Nat \ {0} /\ 1..n = 1..issued \cup {n}
  BY DEF Push, RegInv
<1>2. UNCHANGED <<replay, pending, channel, received, dropped>>
  BY DEF Push
<1>3. /\ h \in Senders /\ hand[h] = NoCommand /\ hand'[h] = n
      /\ \A x \in Senders : x # h => hand'[x] = hand[x]
  BY <1>1 DEF Push, SendCommand, RegInv, RegTypeOK, SenderInv, Senders
<1>4. n \notin 1..issued /\ n # NoCommand /\ \A c \in 1..issued : c # NoCommand /\ c # n
  BY <1>1 DEF RegInv, NoCommand
<1>5. /\ \A x \in Senders : hand[x] # n
      /\ \A x \in Streams : n \notin ToSet(replay[x]) /\ n \notin ToSet(channel[x])
      /\ n \notin ToSet(pending) /\ n \notin Got
      /\ \A r : <<r, n>> \notin dropped
  <2>1. \A x \in Senders : hand[x] # n
    BY <1>4 DEF RegInv, RegTypeOK
  <2>2. ASSUME NEW q \in Seq(1..issued) PROVE n \notin ToSet(q)
    BY <1>4, ToSetType, Zenon
  <2>3. n \notin Got
    <3>1. received \in Seq([command : 1..issued, stream : Streams])
      BY DEF RegInv, RegTypeOK
    <3>2. ASSUME NEW i \in 1..Len(received) PROVE received[i].command # n
      <4>1. received[i] \in [command : 1..issued, stream : Streams]
        BY <3>1, ElementOf, Zenon
      <4>2. received[i].command \in 1..issued
        BY <4>1, Zenon
      <4>3. QED
        BY <1>4, <4>2
    <3>3. QED
      BY <3>2 DEF Got
  <2>4. \A r : <<r, n>> \notin dropped
    BY <1>4 DEF RegInv
  <2>5. QED
    BY <2>1, <2>2, <2>3, <2>4 DEF RegInv, RegTypeOK
<1>6. DistinctInv'
  BY <1>2 DEF BoxInv, DistinctInv
<1>7. ASSUME NEW c \in 1..issued PROVE Unmoved(c)
  BY <1>2, <1>3, <1>4 DEF Unmoved, Got
<1>8. BoxHas("hand", h, n)'
  BY <1>3 DEF BoxHas
<1>9. OnlyIn("hand", h, n)'
  BY <1>2, <1>3, <1>5 DEF OnlyIn, Got
<1>10. QED
  BY <1>1, <1>6, <1>7, <1>8, <1>9, Stays, Moves DEF BoxInv

\* No step puts a command into two boxes, or in none.
LEMMA NextBox == RegInv /\ LiveInv /\ BoxInv /\ [Next]_vars => BoxInv'
<1> SUFFICES ASSUME RegInv, LiveInv, BoxInv, [Next]_vars PROVE BoxInv'
  OBVIOUS
<1>1. CASE Next
  BY <1>1, PushBox, SendBox, CancelBox, StreamBox, AgentBox DEF Next, LiveInv
<1>2. CASE UNCHANGED vars
  BY <1>2, BoxSame DEF vars, regVars, registry, streams, senders, agent, agentRow, trace
<1>3. QED
  BY <1>1, <1>2

\* One box, and one position of it, are one place.
LEMMA BoxPlace == RegInv /\ BoxInv => OnePlace
<1> SUFFICES ASSUME RegInv, BoxInv, NEW c \in 1..issued PROVE \E p : Places(c) = {p}
  BY FS_Singleton DEF OnePlace
<1>1. PICK k, x : BoxHas(k, x, c)
  BY DEF BoxInv, Sole
<1>2. OnlyIn(k, x, c)
  BY <1>1, SoleBox
<1>3. /\ \A g \in Streams : \A i \in 1..Len(replay[g]) : replay[g][i] = c => c \in ToSet(replay[g])
      /\ \A g \in Streams : \A i \in 1..Len(channel[g]) : channel[g][i] = c => c \in ToSet(channel[g])
      /\ \A i \in 1..Len(pending) : pending[i] = c => c \in ToSet(pending)
      /\ \A i \in 1..Len(received) : received[i].command = c => c \in Got
  <2>1. \A q \in Seq(1..issued) : \A i \in 1..Len(q) : q[i] = c => c \in ToSet(q)
    BY ToSetType, Zenon
  <2>2. \A i \in 1..Len(received) : received[i].command = c => c \in Got
    BY DEF Got
  <2>3. QED
    BY <2>1, <2>2 DEF RegInv, RegTypeOK
<1>4. \A g \in Streams : /\ Len(replay[g]) \in 0..PendingLimit
                         /\ Len(channel[g]) \in 0..ChannelCapacity
  BY RegistryAssumption DEF RegInv, RegTypeOK, ReplayInv
<1>5. /\ k # "hand" => InHand(c) = {}
      /\ k # "pending" => InPending(c) = {}
      /\ k # "received" => InReceived(c) = {}
  BY <1>2, <1>3 DEF OnlyIn, InHand, InPending, InReceived
<1>6. k # "replay" => InReplay(c) = {}
  BY <1>2, <1>3, <1>4, RegistryAssumption DEF OnlyIn, InReplay
<1>7. k # "channel" => InChannel(c) = {}
  BY <1>2, <1>3, <1>4, RegistryAssumption DEF OnlyIn, InChannel
<1>8. \A d \in Dropped(c) : k \in Reasons /\ d = <<k, c>>
  BY <1>2 DEF OnlyIn, Dropped, RegInv
<1>9. CASE k = "hand"
  <2>1. InHand(c) = {<<"hand", x>>}
    BY <1>1, <1>2, <1>9 DEF BoxHas, OnlyIn, InHand, Reasons
  <2>2. QED
    BY <1>5, <1>6, <1>7, <1>8, <1>9, <2>1 DEF Places, Reasons
<1>10. CASE k = "replay"
  <2>1. x \in Streams /\ c \in ToSet(replay[x])
    BY <1>1, <1>10 DEF BoxHas, Reasons
  <2>2. PICK i \in 1..Len(replay[x]) : replay[x][i] = c
    BY <2>1 DEF RegInv, RegTypeOK, ToSet
  <2>3. \A g \in Streams : \A j \in 1..Len(replay[g]) : replay[g][j] = c => g = x /\ j = i
    BY <1>2, <1>3, <2>1, <2>2 DEF OnlyIn, BoxInv, DistinctInv, Distinct
  <2>4. i \in 1..PendingLimit /\ i <= Len(replay[x])
    BY <1>4, <2>1, <2>2, RegistryAssumption
  <2>5. InReplay(c) = {<<"replay", x, i>>}
    <3>1. <<"replay", x, i>> \in InReplay(c)
      <4>1. /\ <<x, i>> \in Streams \X (1..PendingLimit)
            /\ <<x, i>>[1] = x /\ <<x, i>>[2] = i
        BY <2>1, <2>4
      <4>2. QED
        BY <2>2, <2>4, <4>1 DEF InReplay
    <3>2. ASSUME NEW p \in InReplay(c) PROVE p = <<"replay", x, i>>
      <4>1. PICK y \in Streams \X (1..PendingLimit) :
              p = <<"replay", y[1], y[2]>> /\ y[2] <= Len(replay[y[1]]) /\ replay[y[1]][y[2]] = c
        BY DEF InReplay
      <4>2. y[1] \in Streams /\ y[2] \in 1..Len(replay[y[1]])
        BY <1>4, <4>1, RegistryAssumption
      <4>3. QED
        BY <2>3, <4>1, <4>2
    <3>3. QED
      BY <3>1, <3>2
  <2>6. QED
    BY <1>5, <1>7, <1>8, <1>10, <2>5 DEF Places, Reasons
<1>11. CASE k = "pending"
  <2>1. c \in ToSet(pending)
    BY <1>1, <1>11 DEF BoxHas, Reasons
  <2>2. PICK i \in 1..Len(pending) : pending[i] = c
    BY <2>1 DEF RegInv, RegTypeOK, ToSet
  <2>3. InPending(c) = {<<"pending", i>>}
    BY <2>2 DEF InPending, BoxInv, DistinctInv, Distinct
  <2>4. QED
    BY <1>5, <1>6, <1>7, <1>8, <1>11, <2>3 DEF Places, Reasons
<1>12. CASE k = "channel"
  <2>1. x \in Streams /\ c \in ToSet(channel[x])
    BY <1>1, <1>12 DEF BoxHas, Reasons
  <2>2. PICK i \in 1..Len(channel[x]) : channel[x][i] = c
    BY <2>1 DEF RegInv, RegTypeOK, ToSet
  <2>3. \A g \in Streams : \A j \in 1..Len(channel[g]) : channel[g][j] = c => g = x /\ j = i
    BY <1>2, <1>3, <2>1, <2>2 DEF OnlyIn, BoxInv, DistinctInv, Distinct
  <2>4. i \in 1..ChannelCapacity /\ i <= Len(channel[x])
    BY <1>4, <2>1, <2>2, RegistryAssumption
  <2>5. InChannel(c) = {<<"channel", x, i>>}
    <3>1. <<"channel", x, i>> \in InChannel(c)
      <4>1. /\ <<x, i>> \in Streams \X (1..ChannelCapacity)
            /\ <<x, i>>[1] = x /\ <<x, i>>[2] = i
        BY <2>1, <2>4
      <4>2. QED
        BY <2>2, <2>4, <4>1 DEF InChannel
    <3>2. ASSUME NEW p \in InChannel(c) PROVE p = <<"channel", x, i>>
      <4>1. PICK y \in Streams \X (1..ChannelCapacity) :
              p = <<"channel", y[1], y[2]>> /\ y[2] <= Len(channel[y[1]]) /\ channel[y[1]][y[2]] = c
        BY DEF InChannel
      <4>2. y[1] \in Streams /\ y[2] \in 1..Len(channel[y[1]])
        BY <1>4, <4>1, RegistryAssumption
      <4>3. QED
        BY <2>3, <4>1, <4>2
    <3>3. QED
      BY <3>1, <3>2
  <2>6. QED
    BY <1>5, <1>6, <1>8, <1>12, <2>5 DEF Places, Reasons
<1>13. CASE k = "received"
  <2>1. c \in Got
    BY <1>1, <1>13 DEF BoxHas, Reasons
  <2>2. PICK i \in 1..Len(received) : received[i].command = c
    BY <2>1 DEF Got
  <2>3. InReceived(c) = {<<"received", i>>}
    BY <2>2 DEF InReceived, BoxInv, DistinctInv
  <2>4. QED
    BY <1>5, <1>6, <1>7, <1>8, <1>13, <2>3 DEF Places, Reasons
<1>14. CASE k \in Reasons
  <2>1. <<k, c>> \in dropped
    BY <1>1, <1>14 DEF BoxHas, Reasons
  <2>2. Dropped(c) = {<<k, c>>}
    BY <1>8, <2>1 DEF Dropped
  <2>3. QED
    BY <1>5, <1>6, <1>7, <1>14, <2>2 DEF Places, Reasons
<1>15. QED
  BY <1>1, <1>9, <1>10, <1>11, <1>12, <1>13, <1>14 DEF BoxHas

-----------------------------------------------------------------------------
(* The order of the replay *)

\* Only the newest stream is registered, and no stream sends on an older one.
GenerationInv ==
  /\ connected \in {NoStream, generation}
  /\ \A k \in Streams : sender[k] # NoStream => k <= sender[k]

\* What connect took from the queue.
DrainedInv ==
  /\ drained \in [Streams -> Seq(1..issued)]
  /\ \A g \in Streams : Distinct(drained[g]) /\ (generation < g => drained[g] = <<>>)

\* A command once queued is never again in the hand of a handler, nor of a
\* stream older than the one that drained it.
HolderInv ==
  \A g \in Streams : \A c \in ToSet(drained[g]) :
    /\ \A h \in Handlers : hand[h] # c
    /\ \A k \in Streams : hand[k] = c \/ c \in ToSet(replay[k]) => g <= k

\* A stream replays what it drained from some point on, and has the command
\* before that point in hand, if any.
CursorInv ==
  \A g \in Streams : phase[g] = "replay" =>
    \E n \in 0..Len(drained[g]) :
      /\ Len(replay[g]) = Len(drained[g]) - n
      /\ \A i \in 1..Len(replay[g]) : replay[g][i] = drained[g][n + i]
      /\ hand[g] # NoCommand => n # 0 /\ hand[g] = drained[g][n]

DrainInv == GenerationInv /\ DrainedInv /\ HolderInv /\ CursorInv

\* Nothing is drained at first.
LEMMA InitDrain == Init => DrainInv
<1> SUFFICES ASSUME Init PROVE DrainInv
  OBVIOUS
<1> USE DEF Init, RegInit
<1>1. GenerationInv
  BY DEF GenerationInv, Senders
<1>2. <<>> \in Seq(1..issued) /\ Distinct(<<>>) /\ ToSet(<<>>) = {}
  BY DEF Distinct, ToSet
<1>3. DrainedInv /\ HolderInv
  BY <1>2 DEF DrainedInv, HolderInv
<1>4. CursorInv
  BY DEF CursorInv
<1>5. QED
  BY <1>1, <1>3, <1>4 DEF DrainInv

\* Only connect changes the generation, and only lookups what is sent on.
LEMMA NextGeneration ==
  ASSUME RegInv, LiveInv, GenerationInv, [Next]_vars PROVE GenerationInv'
<1> USE DEF registry, streams, senders, agent, agentRow, trace
<1>0. /\ generation \in Nat /\ connected \in Nat /\ sender \in [Senders -> 0..MaxStream]
      /\ Streams \subseteq Nat \ {0} /\ Streams \subseteq Senders
  BY RegistryAssumption DEF RegInv, RegTypeOK, Streams, Senders
<1>1. ASSUME NEW h \in Handlers, Push(h) PROVE GenerationInv'
  BY <1>1 DEF Push, SendCommand, GenerationInv
<1>2. ASSUME NEW s \in Senders, SendStep(s) PROVE GenerationInv'
  <2>1. CASE Lookup(s)
    <3>1. s \in Streams => s <= generation
      BY <2>1 DEF Lookup, RegInv, ReplayInv, LiveInv, PhaseInv
    <3>2. UNCHANGED <<connected, generation>> /\ sender' = [sender EXCEPT ![s] = connected]
      BY <2>1 DEF Lookup
    <3>3. QED
      BY <1>0, <3>1, <3>2 DEF GenerationInv
  <2>2. CASE TrySend(s)
    <3>1. UNCHANGED <<connected, generation>> /\ sender' = [sender EXCEPT ![s] = NoStream]
      BY <2>2 DEF TrySend
    <3>2. QED
      BY <1>0, <3>1 DEF GenerationInv
  <2>3. CASE Enqueue(s)
    BY <2>3 DEF Enqueue, GenerationInv
  <2>4. QED
    BY <1>2, <2>1, <2>2, <2>3 DEF SendStep
<1>3. ASSUME NEW g \in Streams, StreamStep(g) PROVE GenerationInv'
  <2>1. CASE Connect(g)
    BY <2>1 DEF Connect, GenerationInv
  <2>2. CASE HandlerCancelled(g)
    <3>1. UNCHANGED <<connected, generation>> /\ sender' = [sender EXCEPT ![g] = NoStream]
      BY <2>2 DEF HandlerCancelled
    <3>2. QED
      BY <1>0, <3>1 DEF GenerationInv
  <2>3. CASE ~Connect(g) /\ ~HandlerCancelled(g)
    <3>1. UNCHANGED <<generation, sender>> /\ connected' \in {connected, NoStream}
      BY <1>3, <2>3 DEF StreamStep, Replay, SendCommand, Opened, Heartbeat, InboundEnds,
                        Disconnect, ReceiverDropped
    <3>2. QED
      BY <3>1 DEF GenerationInv
  <2>4. QED
    BY <2>1, <2>2, <2>3
<1>4. CASE \/ Authorize \/ Abandoned \/ Stale \/ Receive \/ ClientDrop \/ RemovalStep
           \/ \E h \in Handlers : Cancelled(h)
  <2>1. UNCHANGED <<generation, sender>> /\ connected' \in {connected, NoStream}
    BY <1>4 DEF Authorize, Abandoned, Cancelled, Stale, Receive, ClientDrop, RemovalStep, DeleteRow, ForceDisconnect,
                Forget
  <2>2. QED
    BY <2>1 DEF GenerationInv
<1>5. CASE UNCHANGED vars
  BY <1>5 DEF vars, regVars, GenerationInv
<1>6. QED
  BY <1>1, <1>2, <1>3, <1>4, <1>5 DEF Next

\* Only connect drains the queue, and of a new stream.
LEMMA NextDrained ==
  ASSUME RegInv, LiveInv, BoxInv, DrainedInv, [Next]_vars PROVE DrainedInv'
<1> USE DEF registry, streams, senders, agent, agentRow, trace
<1>0. /\ generation \in Nat /\ issued \in Nat
      /\ Streams \subseteq Nat \ {0}
  BY RegistryAssumption DEF RegInv, RegTypeOK, Streams
<1>1. ASSUME NEW g \in Streams, Connect(g) PROVE DrainedInv'
  <2>1. g = generation + 1 /\ generation' = g
    BY <1>1 DEF Connect, LiveInv, PhaseInv
  <2>2. pending \in Seq(1..issued) /\ Distinct(pending)
    BY DEF RegInv, RegTypeOK, BoxInv, DistinctInv
  <2>3. drained' = [drained EXCEPT ![g] = pending]
    BY <1>1 DEF Connect
  <2>4. issued' = issued
    BY <1>1, <2>1 DEF Next, Push, vars, regVars
  <2>5. QED
    BY <1>0, <2>1, <2>2, <2>3, <2>4 DEF DrainedInv
<1>2. CASE UNCHANGED <<drained, generation>>
  <2>1. issued' \in Nat /\ issued <= issued'
    BY <1>0, <1>2 DEF Next, Push, vars
  <2>2. 1..issued \subseteq 1..issued'
    BY <1>0, <2>1
  <2>3. \A q : q \in Seq(1..issued) => q \in Seq(1..issued')
    BY <2>2, SeqMonotone, Zenon
  <2>4. drained' \in [Streams -> Seq(1..issued')]
    BY <1>2, <2>3 DEF DrainedInv
  <2>5. QED
    BY <1>2, <2>4 DEF DrainedInv
<1>3. UNCHANGED <<drained, generation>> \/ \E g \in Streams : Connect(g)
  BY DEF Next, Push, SendStep, Lookup, TrySend, Enqueue, Cancelled, Authorize, Abandoned, StreamStep, Replay, Opened,
         Heartbeat, InboundEnds, Disconnect, ReceiverDropped, HandlerCancelled, Stale, Receive,
         ClientDrop, RemovalStep, DeleteRow, ForceDisconnect, Forget, vars, regVars
<1>4. QED
  BY <1>1, <1>2, <1>3

\* Nobody takes a drained command into hand but the stream that replays it.
LEMMA NextHolder ==
  ASSUME RegInv, LiveInv, BoxInv, DrainedInv, HolderInv, [Next]_vars PROVE HolderInv'
<1> USE DEF registry, streams, senders, agent, agentRow, trace
<1>0. /\ generation \in Nat /\ Streams \subseteq Nat \ {0} /\ Streams \subseteq Senders
      /\ Handlers \subseteq Senders /\ hand \in [Senders -> 1..issued \cup {NoCommand}]
      /\ replay \in [Streams -> Seq(1..issued)] /\ ToSet(<<>>) = {}
      /\ NoCommand \notin 1..issued
  BY RegistryAssumption DEF RegInv, RegTypeOK, Streams, Senders, ToSet, NoCommand
<1>00. \A g \in Streams : ToSet(drained[g]) \subseteq 1..issued
  <2>1. \A q \in Seq(1..issued) : ToSet(q) \subseteq 1..issued
    BY ToSetType, Zenon
  <2>2. QED
    BY <2>1 DEF DrainedInv
<1>1. ASSUME NEW h \in Handlers, Push(h) PROVE HolderInv'
  <2>1. /\ hand'[h] = issued + 1 /\ issued + 1 \notin 1..issued
        /\ \A x \in Senders : x # h => hand'[x] = hand[x]
    BY <1>0, <1>1 DEF Push, SendCommand, RegInv
  <2>2. h \notin Streams
    BY HandlersAssumption
  <2>3. UNCHANGED <<drained, replay>>
    BY <1>1 DEF Push
  <2>4. QED
    BY <1>0, <1>00, <2>1, <2>2, <2>3 DEF HolderInv
<1>2. ASSUME \A x \in Senders : hand'[x] \in {hand[x], NoCommand},
             \A x \in Streams : ToSet(replay'[x]) \subseteq ToSet(replay[x]),
             UNCHANGED drained
      PROVE  HolderInv'
  <2>1. ASSUME NEW x \in Streams, NEW c \in ToSet(drained[x])
        PROVE  /\ \A h \in Handlers : hand'[h] # c
               /\ \A k \in Streams : hand'[k] = c \/ c \in ToSet(replay'[k]) => x <= k
    <3>1. c # NoCommand
      BY <1>0, <1>00, <2>1
    <3>2. /\ \A y \in Senders : hand'[y] = c => hand[y] = c
          /\ \A y \in Streams : c \in ToSet(replay'[y]) => c \in ToSet(replay[y])
      BY <1>2, <3>1
    <3>3. QED
      BY <1>0, <2>1, <3>2 DEF HolderInv
  <2>2. QED
    BY <1>2, <2>1 DEF HolderInv
<1>3. ASSUME NEW s \in Senders, SendStep(s) PROVE HolderInv'
  BY <1>0, <1>2, <1>3 DEF SendStep, Lookup, TrySend, Enqueue
<1>4. ASSUME NEW g \in Streams, Connect(g) PROVE HolderInv'
  <2>1. g = generation + 1 /\ UNCHANGED hand
    BY <1>4 DEF Connect, LiveInv, PhaseInv
  <2>2. /\ drained'[g] = pending /\ replay'[g] = pending
        /\ \A x \in Streams : x # g => drained'[x] = drained[x] /\ replay'[x] = replay[x]
    BY <1>0, <1>4 DEF Connect, DrainedInv
  <2>3. ASSUME NEW c \in ToSet(pending) PROVE OnlyIn("pending", 0, c)
    <3>1. c \in 1..issued
      <4>1. pending \in Seq(1..issued)
        BY DEF RegInv, RegTypeOK
      <4>2. QED
        BY <4>1, ToSetType, Zenon
    <3>2. QED
      BY <3>1, SoleBox DEF BoxHas
  <2>4. ASSUME NEW c \in ToSet(pending)
        PROVE  /\ \A x \in Senders : hand[x] # c
               /\ \A x \in Streams : c \notin ToSet(replay[x])
    BY <2>3 DEF OnlyIn
  <2>5. \A x \in Streams : x # g /\ ToSet(drained[x]) # {} => x <= g
    BY <1>0, <2>1 DEF DrainedInv
  <2>6. ASSUME NEW x \in Streams, NEW c \in ToSet(drained'[x])
        PROVE  /\ \A h \in Handlers : hand'[h] # c
               /\ \A k \in Streams : hand'[k] = c \/ c \in ToSet(replay'[k]) => x <= k
    <3>1. CASE x = g
      <4>1. c \in ToSet(pending) /\ g <= g
        BY <1>0, <2>2, <2>6, <3>1
      <4>2. QED
        BY <1>0, <2>1, <2>2, <2>4, <3>1, <4>1
    <3>2. CASE x # g
      <4>1. c \in ToSet(drained[x]) /\ x <= g
        BY <2>2, <2>5, <2>6, <3>2
      <4>2. QED
        BY <2>1, <2>2, <4>1 DEF HolderInv
    <3>3. QED
      BY <3>1, <3>2
  <2>7. QED
    BY <2>6 DEF HolderInv
<1>5. ASSUME NEW g \in Streams, Replay(g) PROVE HolderInv'
  <2>1. replay[g] \in Seq(1..issued) /\ replay[g] # <<>> /\ Distinct(replay[g])
    BY <1>5 DEF Replay, RegInv, RegTypeOK, BoxInv, DistinctInv
  <2>2. /\ Head(replay[g]) \in ToSet(replay[g])
        /\ ToSet(Tail(replay[g])) = ToSet(replay[g]) \ {Head(replay[g])}
    BY <2>1, TailOf, Zenon
  <2>3. /\ hand'[g] = Head(replay[g]) /\ replay'[g] = Tail(replay[g])
        /\ \A x \in Senders : x # g => hand'[x] = hand[x]
        /\ \A x \in Streams : x # g => replay'[x] = replay[x]
    BY <1>0, <1>5 DEF Replay, SendCommand
  <2>4. g \notin Handlers /\ UNCHANGED drained
    BY <1>5, HandlersAssumption DEF Replay
  <2>5. ASSUME NEW x \in Streams, NEW c \in ToSet(drained[x])
        PROVE  /\ \A h \in Handlers : hand'[h] # c
               /\ \A k \in Streams : hand'[k] = c \/ c \in ToSet(replay'[k]) => x <= k
    <3>1. /\ \A y \in Senders : hand'[y] = c => hand[y] = c \/ (y = g /\ c \in ToSet(replay[g]))
          /\ \A y \in Streams : c \in ToSet(replay'[y]) => c \in ToSet(replay[y])
      BY <2>2, <2>3
    <3>2. QED
      BY <1>0, <2>4, <2>5, <3>1 DEF HolderInv
  <2>6. QED
    BY <2>4, <2>5 DEF HolderInv
<1>6. ASSUME NEW g \in Streams, HandlerCancelled(g) PROVE HolderInv'
  <2>1. /\ hand'[g] = NoCommand /\ replay'[g] = <<>>
        /\ \A x \in Senders : x # g => hand'[x] = hand[x]
        /\ \A x \in Streams : x # g => replay'[x] = replay[x]
    BY <1>0, <1>6 DEF HandlerCancelled
  <2>2. UNCHANGED drained
    BY <1>6 DEF HandlerCancelled
  <2>3. /\ \A x \in Senders : hand'[x] \in {hand[x], NoCommand}
        /\ \A x \in Streams : ToSet(replay'[x]) \subseteq ToSet(replay[x])
    BY <1>0, <2>1
  <2>4. QED
    BY <1>2, <2>2, <2>3
<1>7. CASE UNCHANGED <<hand, replay, drained>>
  BY <1>2, <1>7
<1>8. ASSUME NEW g \in Streams, StreamStep(g) PROVE HolderInv'
  <2>1. \/ Connect(g) \/ Replay(g) \/ HandlerCancelled(g)
        \/ UNCHANGED <<hand, replay, drained>>
    BY <1>8 DEF StreamStep, Opened, Heartbeat, InboundEnds, Disconnect, ReceiverDropped
  <2>2. QED
    BY <1>4, <1>5, <1>6, <1>7, <2>1
<1>9. CASE \/ Authorize \/ Abandoned \/ Stale \/ Receive \/ ClientDrop \/ RemovalStep
           \/ UNCHANGED vars
  <2>1. UNCHANGED <<hand, replay, drained>>
    BY <1>9 DEF Authorize, Abandoned, Stale, Receive, ClientDrop, RemovalStep, DeleteRow, ForceDisconnect,
                Forget, vars, regVars
  <2>2. QED
    BY <1>7, <2>1
<1>10. ASSUME NEW h \in Handlers, Cancelled(h) PROVE HolderInv'
  BY <1>0, <1>2, <1>10 DEF Cancelled
<1>11. QED
  BY <1>1, <1>3, <1>8, <1>9, <1>10 DEF Next

\* The replay advances by one command at a time.
LEMMA NextCursor ==
  ASSUME RegInv, LiveInv, DrainedInv, CursorInv, [Next]_vars PROVE CursorInv'
<1> USE DEF registry, streams, senders, agent, agentRow, trace
<1>0. /\ Streams \subseteq Senders /\ hand \in [Senders -> 1..issued \cup {NoCommand}]
      /\ phase \in [Streams -> {"none", "replay", "open", "ending", "ended"}]
      /\ replay \in [Streams -> Seq(1..issued)] /\ drained \in [Streams -> Seq(1..issued)]
  BY DEF RegInv, RegTypeOK, Senders, DrainedInv
<1>1. ASSUME \A g \in Streams : phase'[g] = "replay" =>
               /\ phase[g] = "replay" /\ UNCHANGED <<replay[g], drained[g]>>
               /\ hand'[g] \in {hand[g], NoCommand}
      PROVE  CursorInv'
  <2> SUFFICES ASSUME NEW g \in Streams, phase'[g] = "replay"
               PROVE  \E n \in 0..Len(drained'[g]) :
                        /\ Len(replay'[g]) = Len(drained'[g]) - n
                        /\ \A i \in 1..Len(replay'[g]) : replay'[g][i] = drained'[g][n + i]
                        /\ hand'[g] # NoCommand => n # 0 /\ hand'[g] = drained'[g][n]
    BY DEF CursorInv
  <2>1. /\ phase[g] = "replay" /\ replay'[g] = replay[g] /\ drained'[g] = drained[g]
        /\ hand'[g] \in {hand[g], NoCommand}
    BY <1>1
  <2>2. QED
    BY <2>1 DEF CursorInv
<1>2. ASSUME NEW h \in Handlers, Push(h) PROVE CursorInv'
  <2>1. h \notin Streams /\ UNCHANGED <<phase, replay, drained>>
    BY <1>2, HandlersAssumption DEF Push
  <2>2. \A g \in Streams : hand'[g] = hand[g]
    BY <1>0, <1>2, <2>1 DEF Push, SendCommand
  <2>3. QED
    BY <1>1, <2>1, <2>2
<1>3. ASSUME NEW s \in Senders, SendStep(s) PROVE CursorInv'
  <2>1. UNCHANGED <<phase, replay, drained>>
    BY <1>3 DEF SendStep, Lookup, TrySend, Enqueue
  <2>2. \A g \in Streams : hand'[g] \in {hand[g], NoCommand}
    BY <1>0, <1>3 DEF SendStep, Lookup, TrySend, Enqueue
  <2>3. QED
    BY <1>1, <2>1, <2>2
<1>4. ASSUME NEW g \in Streams, StreamStep(g) PROVE CursorInv'
  <2>1. CASE Connect(g)
    <3>1. /\ drained'[g] = pending /\ replay'[g] = pending /\ phase'[g] = "replay"
          /\ \A x \in Streams : x # g => /\ drained'[x] = drained[x] /\ replay'[x] = replay[x]
                                          /\ phase'[x] = phase[x]
      BY <1>0, <2>1 DEF Connect
    <3>2. hand[g] = NoCommand /\ UNCHANGED hand
      <4>1. phase[g] # "replay"
        BY <2>1, RegistryAssumption DEF Connect, LiveInv, PhaseInv, RegInv, RegTypeOK
      <4>2. QED
        BY <1>0, <2>1, <4>1 DEF Connect, RegInv, ReplayInv, SenderInv
    <3>3. pending \in Seq(1..issued)
      BY DEF RegInv, RegTypeOK
    <3>4. Len(pending) \in Nat /\ Len(pending) = Len(pending) - 0
          /\ \A i \in 1..Len(pending) : pending[i] = pending[0 + i]
      BY <3>3
    <3>5. ASSUME NEW x \in Streams, phase'[x] = "replay"
          PROVE  \E n \in 0..Len(drained'[x]) :
                   /\ Len(replay'[x]) = Len(drained'[x]) - n
                   /\ \A i \in 1..Len(replay'[x]) : replay'[x][i] = drained'[x][n + i]
                   /\ hand'[x] # NoCommand => n # 0 /\ hand'[x] = drained'[x][n]
      <4>1. CASE x = g
        <5>1. 0 \in 0..Len(pending)
          BY <3>4
        <5>2. QED
          BY <3>1, <3>2, <3>4, <4>1, <5>1
      <4>2. CASE x # g
        <5>1. phase[x] = "replay" /\ drained'[x] = drained[x] /\ replay'[x] = replay[x]
          BY <3>1, <3>5, <4>2
        <5>2. hand'[x] = hand[x]
          BY <3>2
        <5>3. PICK n \in 0..Len(drained[x]) :
                /\ Len(replay[x]) = Len(drained[x]) - n
                /\ \A i \in 1..Len(replay[x]) : replay[x][i] = drained[x][n + i]
                /\ hand[x] # NoCommand => n # 0 /\ hand[x] = drained[x][n]
          BY <5>1, Zenon DEF CursorInv
        <5>4. QED
          BY <5>1, <5>2, <5>3, Zenon
      <4>3. QED
        BY <4>1, <4>2
    <3>6. QED
      BY <3>5 DEF CursorInv
  <2>2. CASE Replay(g)
    <3>1. replay[g] \in Seq(1..issued) /\ replay[g] # <<>> /\ phase[g] = "replay"
      BY <1>0, <2>2 DEF Replay
    <3>2. /\ Head(replay[g]) = replay[g][1] /\ Len(replay[g]) \in Nat \ {0}
          /\ Len(Tail(replay[g])) = Len(replay[g]) - 1
          /\ \A i \in 1..Len(Tail(replay[g])) : Tail(replay[g])[i] = replay[g][i + 1]
      BY <3>1, HeadTail, Zenon
    <3>3. /\ hand'[g] = Head(replay[g]) /\ replay'[g] = Tail(replay[g])
          /\ UNCHANGED <<phase, drained>>
          /\ \A x \in Senders : x # g => hand'[x] = hand[x]
          /\ \A x \in Streams : x # g => replay'[x] = replay[x]
      BY <1>0, <2>2 DEF Replay, SendCommand
    <3>4. PICK n \in 0..Len(drained[g]) :
            /\ Len(replay[g]) = Len(drained[g]) - n
            /\ \A i \in 1..Len(replay[g]) : replay[g][i] = drained[g][n + i]
      BY <3>1 DEF CursorInv
    <3>5. Len(drained[g]) \in Nat
      BY <1>0
    <3>6. n + 1 \in 0..Len(drained[g]) /\ Len(Tail(replay[g])) = Len(drained[g]) - (n + 1)
      BY <3>2, <3>4, <3>5
    <3>7. ASSUME NEW i \in 1..Len(Tail(replay[g]))
          PROVE  Tail(replay[g])[i] = drained[g][(n + 1) + i]
      <4>1. i + 1 \in 1..Len(replay[g]) /\ n + (i + 1) = (n + 1) + i
        BY <3>2, <3>4
      <4>2. QED
        BY <3>2, <3>4, <4>1
    <3>8. Head(replay[g]) = drained[g][n + 1] /\ n + 1 # 0
      BY <3>2, <3>4
    <3>9. ASSUME NEW x \in Streams, phase'[x] = "replay"
          PROVE  \E m \in 0..Len(drained'[x]) :
                   /\ Len(replay'[x]) = Len(drained'[x]) - m
                   /\ \A i \in 1..Len(replay'[x]) : replay'[x][i] = drained'[x][m + i]
                   /\ hand'[x] # NoCommand => m # 0 /\ hand'[x] = drained'[x][m]
      <4>1. CASE x = g
        BY <3>3, <3>6, <3>7, <3>8, <4>1, ZenonT(60)
      <4>2. CASE x # g
        <5>1. /\ phase[x] = "replay" /\ drained'[x] = drained[x] /\ replay'[x] = replay[x]
              /\ hand'[x] = hand[x]
          BY <1>0, <3>3, <3>9, <4>2
        <5>2. PICK m \in 0..Len(drained[x]) :
                /\ Len(replay[x]) = Len(drained[x]) - m
                /\ \A i \in 1..Len(replay[x]) : replay[x][i] = drained[x][m + i]
                /\ hand[x] # NoCommand => m # 0 /\ hand[x] = drained[x][m]
          BY <5>1 DEF CursorInv
        <5>3. QED
          BY <5>1, <5>2
      <4>3. QED
        BY <4>1, <4>2
    <3>10. QED
      BY <3>9 DEF CursorInv
  <2>3. CASE HandlerCancelled(g)
    <3>1. /\ phase'[g] # "replay" /\ UNCHANGED drained
          /\ \A x \in Streams : x # g => /\ hand'[x] = hand[x] /\ replay'[x] = replay[x]
                                          /\ phase'[x] = phase[x]
      BY <1>0, <2>3 DEF HandlerCancelled
    <3>2. QED
      BY <1>1, <3>1
  <2>4. CASE ~Connect(g) /\ ~Replay(g) /\ ~HandlerCancelled(g)
    <3>1. /\ UNCHANGED <<hand, replay, drained>>
          /\ \A x \in Streams : phase'[x] = "replay" => phase[x] = "replay"
      BY <1>0, <1>4, <2>4 DEF StreamStep, Opened, Heartbeat, InboundEnds, Disconnect,
                              ReceiverDropped
    <3>2. QED
      BY <1>1, <3>1
  <2>5. QED
    BY <2>1, <2>2, <2>3, <2>4
<1>5. CASE \/ Authorize \/ Abandoned \/ Stale \/ Receive \/ ClientDrop \/ RemovalStep
           \/ UNCHANGED vars
  <2>1. UNCHANGED <<hand, replay, drained, phase>>
    BY <1>5 DEF Authorize, Abandoned, Stale, Receive, ClientDrop, RemovalStep, DeleteRow,
                      ForceDisconnect, Forget, vars, regVars
  <2>2. QED
    BY <1>1, <2>1
<1>6. ASSUME NEW h \in Handlers, Cancelled(h) PROVE CursorInv'
  <2>1. UNCHANGED <<phase, replay, drained>>
    BY <1>6 DEF Cancelled
  <2>2. \A g \in Streams : hand'[g] \in {hand[g], NoCommand}
    BY <1>0, <1>6 DEF Cancelled
  <2>3. QED
    BY <1>1, <2>1, <2>2
<1>7. QED
  BY <1>2, <1>3, <1>4, <1>5, <1>6 DEF Next

\* One command was queued before another when a stream drained the queue.
Before(g, c, d) ==
  \E i, j \in 1..Len(drained[g]) : i < j /\ drained[g][i] = c /\ drained[g][j] = d

\* Whatever a stream drained is in order in its channel and where it was received,
\* and what was received came before what is still in the channel.
InOrder(g, c, d) ==
  /\ \A a, b \in 1..Len(channel[g]) : channel[g][a] = c /\ channel[g][b] = d => a < b
  /\ c \in ToSet(channel[g]) =>
       \A k \in 1..Len(received) : received[k] # [command |-> d, stream |-> g]
  /\ \A k, l \in 1..Len(received) :
       received[k] = [command |-> d, stream |-> g] /\ received[l] = [command |-> c, stream |-> g]
         => ~(k < l)

OrderInv == \A g \in Streams : \A c, d : Before(g, c, d) => InOrder(g, c, d)

\* What was queued earlier is another command.
LEMMA BeforeType ==
  ASSUME DrainedInv, NEW g \in Streams, NEW c, NEW d, Before(g, c, d)
  PROVE  c \in ToSet(drained[g]) /\ d \in ToSet(drained[g]) /\ c # d
<1>1. drained[g] \in Seq(1..issued) /\ Distinct(drained[g])
  BY DEF DrainedInv
<1>2. PICK i \in 1..Len(drained[g]), j \in 1..Len(drained[g]) :
        i < j /\ drained[g][i] = c /\ drained[g][j] = d
  BY DEF Before
<1>3. c # d
  BY <1>1, <1>2 DEF Distinct
<1>4. c \in ToSet(drained[g]) /\ d \in ToSet(drained[g])
  BY <1>1, <1>2, ToSetType, Zenon
<1>5. QED
  BY <1>3, <1>4

\* When a drained command is sent on the stream that drained it, those that were
\* queued after it are still to be replayed.
LEMMA SentInOrder ==
  ASSUME RegInv, LiveInv, BoxInv, DrainInv, NEW s \in Senders, pc[s] = "send",
         NEW g \in Streams, g = sender[s], NEW d, Before(g, hand[s], d)
  PROVE  d \in ToSet(replay[g])
<1>1. hand[s] \in ToSet(drained[g]) /\ hand[s] # d
  BY BeforeType DEF DrainInv
<1>2. s = g
  <2>1. s \in Streams
    BY <1>1 DEF DrainInv, HolderInv, Senders
  <2>2. g <= s
    BY <1>1, <2>1 DEF DrainInv, HolderInv
  <2>3. s <= g
    BY <2>1 DEF DrainInv, GenerationInv, RegInv, SenderInv
  <2>4. QED
    BY <2>1, <2>2, <2>3 DEF Streams
<1>3. phase[g] = "replay" /\ hand[g] # NoCommand
  BY <1>2 DEF RegInv, ReplayInv, SenderInv
<1>4. PICK n \in 0..Len(drained[g]) :
        /\ Len(replay[g]) = Len(drained[g]) - n
        /\ \A i \in 1..Len(replay[g]) : replay[g][i] = drained[g][n + i]
        /\ n # 0 /\ hand[g] = drained[g][n]
  BY <1>3 DEF DrainInv, CursorInv
<1>5. PICK i \in 1..Len(drained[g]), j \in 1..Len(drained[g]) :
        i < j /\ drained[g][i] = hand[s] /\ drained[g][j] = d
  BY DEF Before
<1>6. Len(drained[g]) \in Nat /\ Distinct(drained[g]) /\ replay[g] \in Seq(1..issued)
  BY DEF DrainInv, DrainedInv, RegInv, RegTypeOK
<1>7. i = n
  <2>1. n \in 1..Len(drained[g])
    BY <1>4, <1>6
  <2>2. drained[g][i] = drained[g][n]
    BY <1>2, <1>4, <1>5
  <2>3. QED
    BY <1>6, <2>1, <2>2 DEF Distinct
<1>8. j - n \in 1..Len(replay[g]) /\ n + (j - n) = j
  BY <1>4, <1>5, <1>6, <1>7
<1>9. replay[g][j - n] = d
  BY <1>4, <1>5, <1>8
<1>10. d \in ToSet(replay[g]) <=> \E k \in 1..Len(replay[g]) : replay[g][k] = d
  BY <1>6, ToSetType, Zenon
<1>11. QED
  BY <1>8, <1>9, <1>10

\* Nothing is in any order at first.
LEMMA InitOrder == Init => OrderInv
BY DEF Init, RegInit, OrderInv, Before

\* Sending appends in the order of the replay, and receiving takes from the front.
LEMMA NextOrder ==
  ASSUME RegInv, LiveInv, BoxInv, DrainInv, OrderInv, [Next]_vars PROVE OrderInv'
<1> USE DEF registry, streams, senders, agent, agentRow, trace
<1>0. /\ channel \in [Streams -> Seq(1..issued)] /\ drained \in [Streams -> Seq(1..issued)]
      /\ ToSet(<<>>) = {} /\ Len(<<>>) = 0
  BY DEF RegInv, RegTypeOK, DrainInv, DrainedInv, ToSet
<1>1. ASSUME UNCHANGED <<drained, received>>,
             \A g \in Streams : channel'[g] = channel[g] \/ channel'[g] = <<>>
      PROVE  OrderInv'
  <2> SUFFICES ASSUME NEW g \in Streams, NEW c, NEW d, Before(g, c, d)' PROVE InOrder(g, c, d)'
    BY DEF OrderInv
  <2>1. InOrder(g, c, d)
    BY <1>1 DEF OrderInv, Before
  <2>2. CASE channel'[g] = channel[g]
    BY <1>1, <2>1, <2>2 DEF InOrder
  <2>3. CASE channel'[g] = <<>>
    BY <1>0, <1>1, <2>1, <2>3 DEF InOrder
  <2>4. QED
    BY <1>1, <2>2, <2>3
<1>2. ASSUME NEW s \in Senders, TrySend(s) PROVE OrderInv'
  <2>1. PICK g \in Streams, e \in 1..issued : g = sender[s] /\ e = hand[s]
    BY <1>2 DEF TrySend, RegInv, RegTypeOK, SenderInv, Streams, NoStream, NoCommand
  <2>2. CASE UNCHANGED channel
    BY <1>1, <1>2, <2>2 DEF TrySend
  <2>3. CASE channel' = [channel EXCEPT ![g] = Append(channel[g], e)]
    <3>1. UNCHANGED <<drained, received>> /\ pc[s] = "send"
      BY <1>2 DEF TrySend
    <3>2. /\ channel'[g] = Append(channel[g], e)
          /\ \A x \in Streams : x # g => channel'[x] = channel[x]
      BY <1>0, <2>3
    <3>3. channel[g] \in Seq(1..issued)
      BY <1>0
    <3>4. ToSet(channel'[g]) = ToSet(channel[g]) \cup {e}
      BY <3>2, <3>3, AppendOf, Zenon
    <3>5. /\ Len(channel[g]) \in Nat /\ Len(channel'[g]) = Len(channel[g]) + 1
          /\ channel'[g][Len(channel[g]) + 1] = e
          /\ \A a \in 1..Len(channel[g]) : channel'[g][a] = channel[g][a]
      BY <3>2, <3>3
    <3> SUFFICES ASSUME NEW x \in Streams, NEW c, NEW d, Before(x, c, d)'
                 PROVE  InOrder(x, c, d)'
      BY DEF OrderInv
    <3>6. Before(x, c, d) /\ InOrder(x, c, d)
      BY <3>1 DEF OrderInv, Before
    <3>7. CASE x # g
      BY <3>1, <3>2, <3>6, <3>7 DEF InOrder
    <3>8. CASE x = g /\ c # e
      <4>1. ASSUME NEW a \in 1..Len(channel'[g]), NEW b \in 1..Len(channel'[g]),
                   channel'[g][a] = c, channel'[g][b] = d
            PROVE  a < b
        <5>1. a \in 1..Len(channel[g]) /\ channel[g][a] = c
          BY <3>5, <3>8, <4>1, SMTT(60)
        <5>2. CASE b \in 1..Len(channel[g])
          <6>1. channel[g][b] = d
            BY <3>5, <4>1, <5>2
          <6>2. QED
            BY <3>6, <3>8, <5>1, <5>2, <6>1 DEF InOrder
        <5>3. CASE b = Len(channel[g]) + 1
          BY <3>5, <5>1, <5>3
        <5>4. QED
          BY <3>5, <4>1, <5>2, <5>3
      <4>2. QED
        BY <3>1, <3>4, <3>6, <3>8, <4>1 DEF InOrder
    <3>9. CASE x = g /\ c = e
      <4>1. d \in ToSet(replay[g]) /\ c # d
        BY <2>1, <3>1, <3>6, <3>9, SentInOrder, BeforeType DEF DrainInv
      <4>2. d \in 1..issued
        <5>1. replay[g] \in Seq(1..issued)
          BY DEF RegInv, RegTypeOK
        <5>2. QED
          BY <4>1, <5>1, ToSetType, Zenon
      <4>3. OnlyIn("replay", g, d)
        BY <4>1, <4>2, SoleBox DEF BoxHas
      <4>4. d \notin ToSet(channel[g]) /\ d \notin Got
        BY <4>3 DEF OnlyIn
      <4>5. \A b \in 1..Len(channel'[g]) : channel'[g][b] # d
        <5>1. \A b \in 1..Len(channel[g]) : channel[g][b] # d
          BY <3>3, <4>4, ToSetType, ZenonT(60)
        <5>2. QED
          BY <3>5, <3>9, <4>1, <5>1
      <4>6. \A k \in 1..Len(received) : received[k] # [command |-> d, stream |-> g]
        BY <4>4 DEF Got
      <4>7. QED
        BY <3>1, <3>9, <4>5, <4>6 DEF InOrder
    <3>10. QED
      BY <3>7, <3>8, <3>9
  <2>4. QED
    BY <1>2, <2>1, <2>2, <2>3 DEF TrySend
<1>3. CASE Receive
  <2>1. PICK g \in Streams : g = client
    BY <1>3, RegistryAssumption DEF Receive, RegInv, RegTypeOK, Streams, NoStream
  <2>2. channel[g] \in Seq(1..issued) /\ channel[g] # <<>> /\ Distinct(channel[g])
    BY <1>3, <2>1 DEF Receive, RegInv, RegTypeOK, BoxInv, DistinctInv
  <2>3. /\ Head(channel[g]) \in 1..issued /\ Head(channel[g]) = channel[g][1]
        /\ Len(channel[g]) \in Nat \ {0} /\ Len(Tail(channel[g])) = Len(channel[g]) - 1
        /\ \A i \in 1..Len(Tail(channel[g])) : Tail(channel[g])[i] = channel[g][i + 1]
        /\ Tail(channel[g]) \in Seq(1..issued)
    BY <2>2, HeadTail, Zenon
  <2>4. PICK e \in 1..issued : e = Head(channel[g])
    BY <2>3
  <2>5. /\ channel'[g] = Tail(channel[g]) /\ UNCHANGED drained
        /\ \A x \in Streams : x # g => channel'[x] = channel[x]
    BY <1>0, <1>3, <2>1 DEF Receive
  <2>6. /\ e \in ToSet(channel[g]) /\ ToSet(channel'[g]) = ToSet(channel[g]) \ {e}
    BY <2>2, <2>4, <2>5, TailOf
  <2>7. /\ Len(received) \in Nat /\ Len(received') = Len(received) + 1
        /\ received'[Len(received) + 1] = [command |-> e, stream |-> g]
        /\ \A i \in 1..Len(received) : received'[i] = received[i]
    <3>1. received \in Seq([command : 1..issued, stream : Streams])
      BY DEF RegInv, RegTypeOK
    <3>2. received' = Append(received, [command |-> e, stream |-> g])
      BY <1>3, <2>1, <2>4 DEF Receive
    <3>3. [command |-> e, stream |-> g] \in [command : 1..issued, stream : Streams]
      OBVIOUS
    <3>4. QED
      BY <3>1, <3>2, <3>3
  <2> SUFFICES ASSUME NEW x \in Streams, NEW c, NEW d, Before(x, c, d)'
               PROVE  InOrder(x, c, d)'
    BY DEF OrderInv
  <2>8. Before(x, c, d) /\ InOrder(x, c, d) /\ c # d
    <3>1. Before(x, c, d)
      BY <2>5 DEF Before
    <3>2. QED
      BY <3>1, BeforeType DEF OrderInv, DrainInv
  <2>9. CASE x # g
    <3>1. [command |-> e, stream |-> g] # [command |-> c, stream |-> x]
          /\ [command |-> e, stream |-> g] # [command |-> d, stream |-> x]
      BY <2>9
    <3>2. \A k \in 1..Len(received') :
            \/ k \in 1..Len(received) /\ received'[k] = received[k]
            \/ k = Len(received) + 1 /\ received'[k] = [command |-> e, stream |-> g]
      BY <2>7
    <3>3. QED
      BY <2>5, <2>8, <2>9, <3>1, <3>2 DEF InOrder
  <2>10. CASE x = g
    <3>1. ASSUME NEW a \in 1..Len(channel'[g]), NEW b \in 1..Len(channel'[g]),
                 channel'[g][a] = c, channel'[g][b] = d
          PROVE  a < b
      <4>1. /\ a + 1 \in 1..Len(channel[g]) /\ channel[g][a + 1] = c
            /\ b + 1 \in 1..Len(channel[g]) /\ channel[g][b + 1] = d
        BY <2>3, <2>5, <3>1
      <4>2. a + 1 < b + 1
        BY <2>8, <2>10, <4>1 DEF InOrder
      <4>3. QED
        BY <2>3, <2>5, <3>1, <4>2
    <3>2. c \in ToSet(channel'[g]) => d # e
      <4>1. SUFFICES ASSUME c \in ToSet(channel'[g]), d = e PROVE FALSE
        OBVIOUS
      <4>2. PICK a \in 1..Len(channel'[g]) : channel'[g][a] = c
        <5>1. PICK q \in Seq(1..issued) : q = channel'[g]
          BY <2>3, <2>5
        <5>2. c \in ToSet(q) <=> \E k \in 1..Len(q) : q[k] = c
          BY ToSetType, Zenon
        <5>3. QED
          BY <4>1, <5>1, <5>2
      <4>3. a + 1 \in 1..Len(channel[g]) /\ channel[g][a + 1] = c /\ 1 \in 1..Len(channel[g])
        BY <2>3, <2>5, <4>2
      <4>4. a + 1 < 1
        BY <2>3, <2>4, <2>8, <2>10, <4>1, <4>3 DEF InOrder
      <4>5. QED
        BY <2>3, <2>5, <4>2, <4>4
    <3>3. [command |-> e, stream |-> g] = [command |-> d, stream |-> g] => d = e
      OBVIOUS
    <3>4. [command |-> e, stream |-> g] = [command |-> c, stream |-> g] => c = e
      OBVIOUS
    <3>5. \A k \in 1..Len(received') :
            \/ k \in 1..Len(received) /\ received'[k] = received[k]
            \/ k = Len(received) + 1 /\ received'[k] = [command |-> e, stream |-> g]
      BY <2>7
    <3>6. c \in ToSet(channel'[g]) =>
            \A k \in 1..Len(received') : received'[k] # [command |-> d, stream |-> g]
      BY <2>6, <2>8, <2>10, <3>2, <3>3, <3>5 DEF InOrder
    <3>7. ASSUME NEW k \in 1..Len(received'), NEW l \in 1..Len(received'), k < l,
                 received'[k] = [command |-> d, stream |-> g],
                 received'[l] = [command |-> c, stream |-> g]
          PROVE  FALSE
      <4>1. k \in 1..Len(received) /\ received[k] = [command |-> d, stream |-> g]
        BY <2>7, <3>5, <3>7
      <4>2. CASE l \in 1..Len(received) /\ received'[l] = received[l]
        BY <2>8, <2>10, <3>7, <4>1, <4>2 DEF InOrder
      <4>3. CASE received'[l] = [command |-> e, stream |-> g]
        <5>1. c = e
          BY <3>4, <3>7, <4>3
        <5>2. QED
          BY <2>6, <2>8, <2>10, <4>1, <5>1 DEF InOrder
      <4>4. QED
        BY <3>5, <4>2, <4>3
    <3>8. QED
      BY <2>10, <3>1, <3>6, <3>7 DEF InOrder
  <2>11. QED
    BY <2>9, <2>10
<1>4. ASSUME NEW g \in Streams, Connect(g) PROVE OrderInv'
  <2>1. /\ drained'[g] = pending /\ UNCHANGED <<channel, received>>
        /\ \A x \in Streams : x # g => drained'[x] = drained[x]
    BY <1>0, <1>4 DEF Connect
  <2>2. pending \in Seq(1..issued)
    BY DEF RegInv, RegTypeOK
  <2> SUFFICES ASSUME NEW x \in Streams, NEW c, NEW d, Before(x, c, d)'
               PROVE  InOrder(x, c, d)'
    BY DEF OrderInv
  <2>3. CASE x # g
    <3>1. InOrder(x, c, d)
      BY <2>1, <2>3 DEF OrderInv, Before
    <3>2. QED
      BY <2>1, <3>1 DEF InOrder
  <2>4. CASE x = g
    <3>1. c \in 1..issued /\ c \in ToSet(pending) /\ d \in 1..issued /\ d \in ToSet(pending)
      <4>1. PICK i \in 1..Len(pending), j \in 1..Len(pending) : pending[i] = c /\ pending[j] = d
        BY <2>1, <2>4 DEF Before
      <4>2. QED
        BY <2>2, <4>1, ToSetType, Zenon
    <3>2. OnlyIn("pending", 0, c) /\ OnlyIn("pending", 0, d)
      BY <3>1, SoleBox DEF BoxHas
    <3>3. c \notin ToSet(channel[g]) /\ d \notin Got
      BY <3>2 DEF OnlyIn
    <3>4. \A a \in 1..Len(channel[g]) : channel[g][a] # c
      <4>1. PICK q \in Seq(1..issued) : q = channel[g]
        BY <1>0
      <4>2. c \in ToSet(q) <=> \E k \in 1..Len(q) : q[k] = c
        BY ToSetType, Zenon
      <4>3. QED
        BY <3>3, <4>1, <4>2
    <3>5. \A k \in 1..Len(received) : received[k] # [command |-> d, stream |-> g]
      BY <3>3 DEF Got
    <3>6. QED
      BY <2>1, <2>4, <3>3, <3>4, <3>5 DEF InOrder
  <2>5. QED
    BY <2>3, <2>4
<1>5. ASSUME NEW h \in Handlers, Push(h) PROVE OrderInv'
  BY <1>1, <1>5 DEF Push
<1>6. ASSUME NEW s \in Senders, SendStep(s) PROVE OrderInv'
  <2>1. CASE Lookup(s) \/ Enqueue(s)
    BY <1>1, <2>1 DEF Lookup, Enqueue
  <2>2. QED
    BY <1>2, <1>6, <2>1 DEF SendStep
<1>7. ASSUME NEW g \in Streams, StreamStep(g) PROVE OrderInv'
  <2>1. CASE ~Connect(g)
    <3>1. /\ UNCHANGED <<drained, received>>
          /\ channel' = channel \/ channel' = [channel EXCEPT ![g] = <<>>]
      BY <1>7, <2>1 DEF StreamStep, Replay, Opened, Heartbeat, InboundEnds, Disconnect,
                        ReceiverDropped, HandlerCancelled
    <3>2. \A x \in Streams : channel'[x] = channel[x] \/ channel'[x] = <<>>
      BY <1>0, <3>1
    <3>3. QED
      BY <1>1, <3>1, <3>2
  <2>2. QED
    BY <1>4, <2>1
<1>8. CASE \/ Authorize \/ Abandoned \/ Stale \/ ClientDrop \/ RemovalStep \/ UNCHANGED vars
           \/ \E h \in Handlers : Cancelled(h)
  <2>1. UNCHANGED <<drained, received, channel>>
    BY <1>8 DEF Authorize, Abandoned, Cancelled, Stale, ClientDrop, RemovalStep, DeleteRow, ForceDisconnect, Forget,
                vars, regVars
  <2>2. QED
    BY <1>1, <2>1
<1>9. QED
  BY <1>3, <1>5, <1>6, <1>7, <1>8 DEF Next

-----------------------------------------------------------------------------
(* The results *)

DeliveryInv == RegInv /\ LiveInv /\ BoxInv /\ DrainInv /\ OrderInv

\* The whole of it is inductive.
THEOREM DeliveryInductive == Spec => []DeliveryInv
<1>1. Init => DeliveryInv
  BY InitReg, InitLive, InitBox, InitDrain, InitOrder DEF DeliveryInv
<1>2. DeliveryInv /\ [Next]_vars => DeliveryInv'
  BY NextReg, NextLive, NextBox, NextGeneration, NextDrained, NextHolder, NextCursor, NextOrder
     DEF DeliveryInv, DrainInv
<1>3. QED
  BY <1>1, <1>2, PTL DEF Spec

\* Types, and the bounds of the queue and of the channels (TypeOK).
THEOREM DeliveryTypes == Spec => []TypeOK
<1>1. DeliveryInv => TypeOK
  <2> SUFFICES ASSUME DeliveryInv PROVE TypeOK
    OBVIOUS
  <2>1. RegTypeOK(1..issued) /\ issued \in 0..MaxCommand
    BY DEF DeliveryInv, RegInv
  <2>2. 1..issued \subseteq Commands
    BY <2>1, DeliveryAssumption DEF Commands
  <2>3. \A q : q \in Seq(1..issued) => q \in Seq(Commands)
    BY <2>2, SeqMonotone, Zenon
  <2>4. received \in Seq([command : Commands, stream : Streams])
    <3> DEFINE R == [command : 1..issued, stream : Streams]
               S == [command : Commands, stream : Streams]
    <3>1. R \subseteq S /\ received \in Seq(R)
      BY <2>1, <2>2 DEF RegTypeOK
    <3> HIDE DEF R, S
    <3>2. received \in Seq(S)
      BY <3>1, SeqMonotone, Zenon
    <3>3. QED
      BY <3>2 DEF S
  <2>5. hand \in [Senders -> Commands \cup {NoCommand}]
    BY <2>1, <2>2 DEF RegTypeOK
  <2>6. QED
    BY <2>1, <2>3, <2>4, <2>5 DEF TypeOK, RegTypeOK
<1>2. QED
  BY <1>1, DeliveryInductive, PTL

\* No teardown of an older stream, however late, unregisters the newest one
\* (NewestStreamRegistered), however many streams are alive on the server and
\* however many handlers are yet to connect.
THEOREM NewestStreamKept == Spec => []NewestStreamRegistered
<1>1. DeliveryInv => NewestStreamRegistered
  BY DEF DeliveryInv, LiveInv
<1>2. QED
  BY <1>1, DeliveryInductive, PTL

\* A command is in exactly one place from its push on (OnePlace): never twice,
\* and gone only by one of the four discards.
THEOREM CommandInOnePlace == Spec => []OnePlace
<1>1. DeliveryInv => OnePlace
  BY BoxPlace DEF DeliveryInv
<1>2. QED
  BY <1>1, DeliveryInductive, PTL

\* The commands of one queue that arrive on the stream that drained it arrive in
\* the order they were queued (ReplayInOrder), whatever else is pushed, dropped or
\* queued again meanwhile.
THEOREM ReplayedInOrder == Spec => []ReplayInOrder
<1>1. DeliveryInv => ReplayInOrder
  BY DEF DeliveryInv, OrderInv, InOrder, Before, ReplayInOrder
<1>2. QED
  BY <1>1, DeliveryInductive, PTL
=============================================================================
