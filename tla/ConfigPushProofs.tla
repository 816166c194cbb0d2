-------------------------- MODULE ConfigPushProofs ---------------------------
(* Proofs about configuration changes on their way to an agent, for any       *)
(* number of handlers, sites, streams and changes and any capacities.  The    *)
(* registry's own invariants are those of CommandDelivery, which the          *)
(* configuration pushes implement: a payload is a numbered command.           *)
EXTENDS ConfigPush, FiniteSetTheorems, TLAPS

D == INSTANCE CommandDeliveryProofs
       WITH issued <- Len(payload), MaxCommand <- MaxEdit, MaxRemoval <- 0

-----------------------------------------------------------------------------
(* The pushes implement CommandDelivery *)

\* The handlers that have committed a change and not yet built its payload.
Waiting == {h \in Handlers : job[h] # {}}

\* Every payload and every handler that is about to build one has a change of
\* its own; and the agent's row stays.
CountInv ==
  /\ row
  /\ db \in Configs /\ edits \in 1..MaxEdit /\ removes \in 0..MaxRemove
  /\ job \in [Handlers -> SUBSET Sites] /\ payload \in Seq(Configs)
  /\ IsFiniteSet(Waiting) /\ Cardinality(Waiting) + Len(payload) < edits

\* The constants meet what CommandDelivery assumes of its own.
LEMMA DeliveryConstants ==
  D!RegistryAssumption /\ D!DeliveryAssumption /\ D!HandlersAssumption
BY RegistryAssumption, HandlersAssumption, ConfigAssumption
   DEF D!RegistryAssumption, D!DeliveryAssumption, D!HandlersAssumption, Streams, D!Streams

\* One change is committed at first, and no handler waits.
LEMMA InitCount == Init => CountInv
<1> SUFFICES ASSUME Init PROVE CountInv
  OBVIOUS
<1>1. Waiting = {}
  BY DEF Init, Waiting
<1>2. IsFiniteSet(Waiting) /\ Cardinality(Waiting) = 0
  BY <1>1, FS_EmptySet
<1>3. /\ row /\ db \in Configs /\ edits = 1 /\ removes \in 0..MaxRemove
      /\ job \in [Handlers -> SUBSET Sites] /\ payload = <<>>
  BY ConfigAssumption DEF Init, RegInit, Configs
<1>4. payload \in Seq(Configs) /\ Len(payload) = 0
  BY <1>3
<1>5. QED
  BY <1>2, <1>3, <1>4, ConfigAssumption DEF CountInv

\* A handler commits a change and waits, or stops waiting.
LEMMA CountWaiting ==
  ASSUME CountInv, NEW h \in Handlers, NEW ks \in SUBSET Sites,
         job' = [job EXCEPT ![h] = ks]
  PROVE  /\ ks # {} /\ job[h] = {} =>
              IsFiniteSet(Waiting') /\ Cardinality(Waiting') = Cardinality(Waiting) + 1
         /\ ks = {} /\ job[h] # {} =>
              IsFiniteSet(Waiting') /\ Cardinality(Waiting') = Cardinality(Waiting) - 1
         /\ Cardinality(Waiting) \in Nat
<1>1. IsFiniteSet(Waiting) /\ job \in [Handlers -> SUBSET Sites]
  BY DEF CountInv
<1>2. ASSUME ks # {}, job[h] = {} PROVE Waiting' = Waiting \cup {h} /\ h \notin Waiting
  BY <1>1, <1>2 DEF Waiting
<1>3. ASSUME ks = {}, job[h] # {} PROVE Waiting' = Waiting \ {h} /\ h \in Waiting
  BY <1>1, <1>3 DEF Waiting
<1>4. QED
  BY <1>1, <1>2, <1>3, FS_AddElement, FS_RemoveElement, FS_CardinalityType

\* Every step keeps the count.
LEMMA NextCount == CountInv /\ [Next]_vars => CountInv'
<1> SUFFICES ASSUME CountInv, [Next]_vars PROVE CountInv'
  OBVIOUS
<1> USE DEF config, regVars, registry, streams, senders, agent, agentRow, trace
<1>0. /\ row /\ db \in Configs /\ edits \in 1..MaxEdit /\ removes \in 0..MaxRemove
      /\ job \in [Handlers -> SUBSET Sites] /\ payload \in Seq(Configs)
      /\ IsFiniteSet(Waiting) /\ Cardinality(Waiting) + Len(payload) < edits
  BY DEF CountInv
<1>1. ASSUME NEW h \in Handlers, NEW s \in Sites, Commit(h, s) \/ RemoveSite(h, s)
      PROVE  CountInv'
  <2>1. /\ job' = [job EXCEPT ![h] = {s}] /\ job[h] = {} /\ edits' = edits + 1
        /\ edits < MaxEdit /\ payload' = payload /\ row' = row
    BY <1>1 DEF Commit, RemoveSite, Busy
  <2>2. {s} \in SUBSET Sites /\ {s} # {}
    OBVIOUS
  <2>3. /\ IsFiniteSet(Waiting') /\ Cardinality(Waiting') = Cardinality(Waiting) + 1
        /\ Cardinality(Waiting) \in Nat
    BY <2>1, <2>2, CountWaiting
  <2>4. db' \in Configs /\ removes' \in 0..MaxRemove
    <3>1. edits' \in 0..MaxEdit /\ Absent \in 0..MaxEdit
      BY <1>0, <2>1, ConfigAssumption DEF Absent
    <3>2. db' \in {[db EXCEPT ![s] = edits'], [db EXCEPT ![s] = Absent]}
      BY <1>1 DEF Commit, RemoveSite
    <3>3. db' \in Configs
      BY <1>0, <3>1, <3>2 DEF Configs
    <3>4. removes' = removes \/ (removes' = removes + 1 /\ removes < MaxRemove)
      BY <1>1 DEF Commit, RemoveSite
    <3>5. QED
      BY <1>0, <3>3, <3>4, ConfigAssumption
  <2>5. edits' \in 1..MaxEdit /\ Cardinality(Waiting') + Len(payload') < edits'
    <3>1. Len(payload) \in Nat /\ edits \in Nat /\ MaxEdit \in Nat
      BY <1>0, ConfigAssumption
    <3>2. QED
      BY <1>0, <2>1, <2>3, <3>1
  <2>6. QED
    BY <1>0, <2>1, <2>3, <2>4, <2>5 DEF CountInv
<1>2. ASSUME NEW h \in Handlers, Notify(h) \/ GiveUp(h) PROVE CountInv'
  <2>1. /\ job' = [job EXCEPT ![h] = {}] /\ job[h] # {} /\ edits' = edits /\ removes' = removes
        /\ db' = db /\ row' = row /\ payload' \in {payload, Append(payload, db)}
    BY <1>2 DEF Notify, GiveUp, SendCommand
  <2>2. {} \in SUBSET Sites
    OBVIOUS
  <2>3. /\ IsFiniteSet(Waiting') /\ Cardinality(Waiting') = Cardinality(Waiting) - 1
        /\ Cardinality(Waiting) \in Nat
    BY <2>1, <2>2, CountWaiting
  <2>4. payload' \in Seq(Configs) /\ Len(payload') <= Len(payload) + 1 /\ Len(payload') \in Nat
    BY <1>0, <2>1
  <2>5. Cardinality(Waiting') + Len(payload') < edits'
    <3>1. Len(payload) \in Nat /\ edits \in Nat
      BY <1>0, ConfigAssumption
    <3>2. QED
      BY <1>0, <2>1, <2>3, <2>4, <3>1
  <2>6. QED
    BY <1>0, <2>1, <2>3, <2>4, <2>5 DEF CountInv
<1>3. ASSUME UNCHANGED <<row, db, edits, removes, job, payload>> PROVE CountInv'
  <2>1. Waiting' = Waiting
    BY <1>3 DEF Waiting
  <2>2. QED
    BY <1>0, <1>3, <2>1 DEF CountInv
<1>4. ASSUME \/ \E s \in Senders : SendStep(s) /\ UNCHANGED config
             \/ \E h \in Handlers : CancelPush(h)
             \/ Register \/ Apply
             \/ \E g \in Streams :
                  /\ \/ Connect(g) \/ Replay(g) \/ Opened(g) \/ InboundEnds(g)
                     \/ Disconnect(g) \/ ReceiverDropped(g) \/ HandlerCancelled(g)
                  /\ UNCHANGED config
             \/ (ClientDrop \/ Abandoned) /\ UNCHANGED config
             \/ UNCHANGED vars
      PROVE  UNCHANGED <<row, db, edits, removes, job, payload>>
  BY <1>4 DEF SendStep, Lookup, TrySend, Enqueue, Register, Authorize, Apply, Receive, Connect,
     Replay, Opened, InboundEnds, Disconnect, ReceiverDropped, HandlerCancelled, ClientDrop,
     Abandoned, CancelPush, Cancelled, SendCommand, vars
<1>5. QED
  BY <1>1, <1>2, <1>3, <1>4 DEF Next, Step

\* A step of the pushes is a step of the registry that CommandDelivery allows.
LEMMA StepDelivery == CountInv /\ [Next]_vars => [D!Next]_(D!vars)
<1> SUFFICES ASSUME CountInv, [Next]_vars PROVE [D!Next]_(D!vars)
  OBVIOUS
<1> USE DEF config, regVars, registry, streams, senders, agent, agentRow, trace,
        D!regVars, D!registry, D!streams, D!senders, D!agent, D!agentRow, D!trace,
        Streams, D!Streams, Senders, D!Senders, NoStream, D!NoStream, NoCommand, D!NoCommand
<1>1. ASSUME NEW h \in Handlers, Notify(h) PROVE [D!Next]_(D!vars)
  <2>1. CASE payload' = payload /\ UNCHANGED regVars
    BY <2>1 DEF D!vars
  <2>2. CASE payload' = Append(payload, db) /\ SendCommand(h, Len(payload'))
               /\ UNCHANGED <<registry, streams, agent, agentRow, trace>>
    <3>1. Len(payload') = Len(payload) + 1 /\ Len(payload) < MaxEdit /\ row
      <4>1. Waiting # {} => Cardinality(Waiting) \in Nat
        BY FS_CardinalityType DEF CountInv
      <4>2. Waiting # {}
        BY <1>1 DEF Notify, Waiting
      <4>3. payload \in Seq(Configs) /\ edits \in 1..MaxEdit /\ row
            /\ Cardinality(Waiting) + Len(payload) < edits
        BY DEF CountInv
      <4>4. QED
        BY <2>2, <4>1, <4>2, <4>3, ConfigAssumption
    <3>2. D!SendCommand(h, Len(payload'))
      BY <2>2 DEF SendCommand, D!SendCommand
    <3>3. D!Push(h)
      BY <2>2, <3>1, <3>2 DEF D!Push
    <3>4. QED
      BY <3>3 DEF D!Next
  <2>3. QED
    BY <1>1, <2>1, <2>2 DEF Notify
<1>2. ASSUME NEW s \in Senders, SendStep(s), UNCHANGED config PROVE [D!Next]_(D!vars)
  <2>1. D!SendStep(s)
    BY <1>2 DEF SendStep, D!SendStep, Lookup, D!Lookup, TrySend, D!TrySend, Enqueue, D!Enqueue
  <2>2. QED
    BY <1>2, <2>1 DEF D!Next
<1>3. ASSUME Register \/ Apply \/ ((ClientDrop \/ Abandoned) /\ UNCHANGED config)
      PROVE  [D!Next]_(D!vars)
  <2>1. D!Authorize \/ D!Abandoned \/ D!Receive \/ D!ClientDrop
    BY <1>3 DEF Register, Authorize, D!Authorize, Apply, Receive, D!Receive, ClientDrop,
                D!ClientDrop, Abandoned, D!Abandoned, GivenUp, D!GivenUp
  <2>2. payload' = payload
    BY <1>3 DEF Register, Apply
  <2>3. QED
    BY <2>1, <2>2 DEF D!Next
<1>4. ASSUME NEW g \in Streams, UNCHANGED config,
             \/ Connect(g) \/ Replay(g) \/ Opened(g) \/ InboundEnds(g)
             \/ Disconnect(g) \/ ReceiverDropped(g) \/ HandlerCancelled(g)
      PROVE  [D!Next]_(D!vars)
  <2>1. D!StreamStep(g)
    <3>1. CASE Connect(g) \/ Opened(g) \/ InboundEnds(g) \/ Disconnect(g)
      BY <3>1 DEF D!StreamStep, Connect, D!Connect, GivenUp, D!GivenUp, Opened, D!Opened, InboundEnds, D!InboundEnds,
                  Disconnect, D!Disconnect
    <3>2. CASE Replay(g)
      BY <3>2 DEF D!StreamStep, Replay, D!Replay, SendCommand, D!SendCommand
    <3>3. CASE ReceiverDropped(g)
      BY <3>3 DEF D!StreamStep, ReceiverDropped, D!ReceiverDropped, ToSet, D!ToSet
    <3>4. CASE HandlerCancelled(g)
      BY <3>4 DEF D!StreamStep, HandlerCancelled, D!HandlerCancelled, ToSet, D!ToSet
    <3>5. QED
      BY <1>4, <3>1, <3>2, <3>3, <3>4
  <2>2. QED
    BY <1>4, <2>1 DEF D!Next
<1>5. ASSUME \/ \E h \in Handlers, s \in Sites : Commit(h, s) \/ RemoveSite(h, s)
             \/ \E h \in Handlers : GiveUp(h)
             \/ UNCHANGED vars
      PROVE  [D!Next]_(D!vars)
  BY <1>5 DEF Commit, RemoveSite, GiveUp, vars, D!vars
<1>6. ASSUME NEW h \in Handlers, CancelPush(h) PROVE [D!Next]_(D!vars)
  <2>1. D!Cancelled(h) /\ payload' = payload
    BY <1>6 DEF CancelPush, Cancelled, D!Cancelled
  <2>2. QED
    BY <2>1 DEF D!Next
<1>7. QED
  BY <1>1, <1>2, <1>3, <1>4, <1>5, <1>6 DEF Next, Step

\* notify_config_changed hands each payload to send_command as one more command:
\* configuration pushes implement CommandDelivery, so that all that is proved of
\* its commands holds of them.
THEOREM PushImplementsDelivery == Spec => D!Spec
<1>1. Init => D!Init
  BY DEF Init, RegInit, D!Init, D!RegInit, NoStream, D!NoStream, NoCommand, D!NoCommand,
         Streams, D!Streams, Senders, D!Senders
<1>2. QED
  BY <1>1, InitCount, NextCount, StepDelivery, PTL DEF Spec, D!Spec

\* What is proved of CommandDelivery's states holds of these.
LEMMA PushDelivery == Spec => []D!DeliveryInv
BY PushImplementsDelivery, D!DeliveryInductive, DeliveryConstants, PTL

-----------------------------------------------------------------------------
(* What the registry guarantees, and types *)

\* The registry's invariants that are used below.
Ground ==
  /\ RegTypeOK(Commands)
  /\ \A s \in Senders : pc[s] = "send" <=> sender[s] # NoStream
  /\ \A s \in Senders : pc[s] = "idle" <=> hand[s] = NoCommand
  /\ \A g \in Streams : phase[g] # "replay" => replay[g] = <<>> /\ pc[g] = "idle"
  /\ \A g \in Streams : g <= generation <=> phase[g] # "none"
  /\ client # NoStream => phase[client] \in {"replay", "open"}
  /\ generation # NoStream /\ phase[generation] # "ended" => connected = generation

LEMMA DeliveryGround == CountInv /\ D!DeliveryInv => Ground
<1> SUFFICES ASSUME CountInv, D!DeliveryInv PROVE Ground
  OBVIOUS
<1> USE DEF Streams, D!Streams, Senders, D!Senders, NoStream, D!NoStream, NoCommand, D!NoCommand
<1>1. D!RegInv /\ D!LiveInv
  BY DEF D!DeliveryInv
<1>2. RegTypeOK(Commands)
  BY <1>1 DEF D!RegInv, D!RegTypeOK, RegTypeOK, Commands
<1>3. /\ \A s \in Senders : pc[s] = "send" <=> sender[s] # NoStream
      /\ \A s \in Senders : pc[s] = "idle" <=> hand[s] = NoCommand
  BY <1>1 DEF D!RegInv, D!SenderInv
<1>4. \A g \in Streams : phase[g] # "replay" => replay[g] = <<>> /\ pc[g] = "idle"
  BY <1>1 DEF D!RegInv, D!ReplayInv
<1>5. \A g \in Streams : g <= generation <=> phase[g] # "none"
  BY <1>1 DEF D!LiveInv, D!PhaseInv
<1>6. /\ client # NoStream => phase[client] \in {"replay", "open"}
      /\ generation # NoStream /\ phase[generation] # "ended" => connected = generation
  BY <1>1 DEF D!LiveInv, D!NewestStreamRegistered, CountInv
<1>7. QED
  BY <1>2, <1>3, <1>4, <1>5, <1>6 DEF Ground

\* A stream has a receiver and a channel from its connect on, and the agent
\* holds the receiver of the stream it reads.
FlowInv ==
  /\ agentCfg \in Configs /\ behind \in BOOLEAN
  /\ \A g \in Streams : phase[g] = "none" => channel[g] = <<>> /\ ~receiver[g]
  /\ client # NoStream => receiver[client] /\ ~dialing

LEMMA InitFlow == Init => FlowInv
<1> SUFFICES ASSUME Init PROVE FlowInv
  OBVIOUS
<1>1. behind \in BOOLEAN
  BY Zenon DEF Init
<1>2. agentCfg \in Configs
  BY ConfigAssumption DEF Init, Configs
<1>3. QED
  BY <1>1, <1>2 DEF Init, RegInit, FlowInv

\* Every step keeps it.
LEMMA NextFlow == CountInv /\ Ground /\ FlowInv /\ [Next]_vars => FlowInv'
<1> SUFFICES ASSUME CountInv, Ground, FlowInv, [Next]_vars PROVE FlowInv'
  OBVIOUS
<1> USE DEF config, regVars, registry, streams, senders, agent, agentRow, trace
<1>0. /\ phase \in [Streams -> {"none", "replay", "open", "ending", "ended"}]
      /\ channel \in [Streams -> Seq(Commands)] /\ receiver \in [Streams -> BOOLEAN]
      /\ sender \in [Senders -> 0..MaxStream] /\ client \in 0..MaxStream
      /\ generation \in 0..MaxStream
  BY DEF Ground, RegTypeOK
<1>1. ASSUME NEW h \in Handlers, NEW s \in Sites,
             Commit(h, s) \/ RemoveSite(h, s)
      PROVE  FlowInv'
  BY <1>1 DEF Commit, RemoveSite, FlowInv
<1>2. ASSUME NEW s \in Senders, SendStep(s), UNCHANGED config PROVE FlowInv'
  <2>1. CASE Lookup(s) \/ Enqueue(s)
    BY <1>2, <2>1 DEF Lookup, Enqueue, FlowInv
  <2>2. CASE TrySend(s)
    <3>1. sender[s] \in Streams
      BY <1>0, <2>2 DEF TrySend, Ground, Streams, NoStream
    <3>2. \A g \in Streams : channel'[g] # channel[g] => receiver[g]
      BY <1>0, <2>2, <3>1 DEF TrySend
    <3>3. QED
      BY <1>2, <2>2, <3>2 DEF TrySend, FlowInv
  <2>3. QED
    BY <1>2, <2>1, <2>2 DEF SendStep
<1>3. CASE Register
  <2>1. agentCfg' \in Configs
    BY <1>3 DEF Register, CountInv, FlowInv
  <2>2. behind' \in BOOLEAN
    BY <1>3, Zenon DEF Register
  <2>3. QED
    BY <1>3, <2>1, <2>2 DEF Register, Authorize, FlowInv
<1>4. CASE Apply
  <2>1. client \in Streams /\ phase[client] = "open" /\ channel[client] # <<>>
    BY <1>0, <1>4 DEF Apply, Receive, Streams, NoStream
  <2>2. Head(channel[client]) \in Commands
    BY <1>0, <2>1
  <2>3. agentCfg' \in Configs
    BY <1>4, <2>2 DEF Apply, CountInv, Commands
  <2>4. QED
    BY <1>0, <1>4, <2>1, <2>3 DEF Apply, Receive, FlowInv
<1>5. ASSUME NEW g \in Streams, UNCHANGED config,
             \/ Connect(g) \/ Replay(g) \/ Opened(g) \/ InboundEnds(g)
             \/ Disconnect(g) \/ ReceiverDropped(g) \/ HandlerCancelled(g)
      PROVE  FlowInv'
  <2>1. CASE Connect(g)
    <3>1. client # g /\ (client # NoStream => client \in Streams)
      BY <1>0, <2>1 DEF Connect, Ground, Streams, NoStream
    <3>2. client' # NoStream => receiver'[client'] /\ ~dialing'
      BY <1>0, <2>1, <3>1 DEF Connect, FlowInv
    <3>3. QED
      BY <1>0, <1>5, <2>1, <3>2 DEF Connect, FlowInv
  <2>2. CASE Replay(g) \/ Opened(g) \/ InboundEnds(g) \/ Disconnect(g)
    <3>1. \A k \in Streams : phase'[k] = "none" => phase[k] = "none"
      BY <1>0, <2>2 DEF Replay, Opened, InboundEnds, Disconnect
    <3>2. UNCHANGED <<channel, receiver, client, dialing>>
      BY <2>2 DEF Replay, Opened, InboundEnds, Disconnect
    <3>3. QED
      BY <1>5, <3>1, <3>2 DEF FlowInv
  <2>3. CASE ReceiverDropped(g)
    BY <1>0, <1>5, <2>3 DEF ReceiverDropped, FlowInv
  <2>4. CASE HandlerCancelled(g)
    BY <1>0, <1>5, <2>4 DEF HandlerCancelled, FlowInv
  <2>5. QED
    BY <1>5, <2>1, <2>2, <2>3, <2>4
<1>6. CASE (ClientDrop \/ Abandoned) /\ UNCHANGED config
  BY <1>6 DEF ClientDrop, Abandoned, FlowInv
<1>7. CASE UNCHANGED vars
  BY <1>7 DEF vars, FlowInv
<1>8. ASSUME NEW h \in Handlers, Notify(h) \/ GiveUp(h) \/ CancelPush(h) PROVE FlowInv'
  <2>1. behind' \in BOOLEAN
    BY <1>8, Zenon DEF Notify, GiveUp, CancelPush, FlowInv
  <2>2. QED
    BY <1>8, <2>1 DEF Notify, GiveUp, CancelPush, Cancelled, SendCommand, FlowInv
<1>9. QED
  BY <1>1, <1>2, <1>3, <1>4, <1>5, <1>6, <1>7, <1>8 DEF Next, Step

\* Types.
LEMMA GroundTypes == CountInv /\ Ground /\ FlowInv => TypeOK
BY DEF CountInv, Ground, FlowInv, TypeOK

-----------------------------------------------------------------------------
(* Changes that overlap nothing *)

AnyBusy == \E h \in Handlers : Busy(h)
Alone == \A h, k \in Handlers : Busy(h) /\ Busy(k) => h = k

\* Nothing sent to the registered connection would arrive.
Down == connected = NoStream \/ ~receiver[connected]

\* The last configuration on its way to the agent on stream g, or the one it
\* has.
Tip(g) == IF replay[g] # <<>> THEN payload[Last(replay[g])]
          ELSE IF pc[g] # "idle" THEN payload[hand[g]]
          ELSE IF channel[g] # <<>> THEN payload[Last(channel[g])]
          ELSE agentCfg

\* Every site is there.
RowsThere == \A s \in Sites : db[s] # Absent

\* A stream that replays is the registered one, and replays into itself.
ReplayPart ==
  \A g \in Streams : phase[g] = "replay" =>
    /\ connected = g /\ receiver[g]
    /\ pc[g] # "enqueue" /\ (pc[g] = "send" => sender[g] = g)

\* The agent reads the newest stream.
LivePart == client # NoStream => client = generation /\ connected = client

\* A handler pushes what the database says, and no earlier push that was given
\* up matters any more.  It sends to the registered
\* connection, no stream replays meanwhile, and nothing is queued if the send
\* can succeed; if the agent has registered again since, it did so after the
\* change.  It queues only what could not be sent.
PushPart ==
  \A h \in Handlers :
    /\ job[h] # {} => pc[h] = "idle"
    /\ pc[h] # "idle" => payload[hand[h]] = db /\ ~behind
    /\ pc[h] = "send" => /\ Opening = {} /\ connected \in {sender[h], NoStream}
                         /\ receiver[sender[h]] => pending = <<>>
                         /\ dialing => agentCfg = db
    /\ pc[h] = "enqueue" => Opening = {} /\ Down

\* The queue is filled only while nothing can be sent, and unless a push is
\* under way or was given up its last payload is up to date.
QueuePart ==
  pending # <<>> => Down /\ (~AnyBusy /\ ~behind => payload[Last(pending)] = db)

\* Unless a push is under way or was given up, the last configuration on its
\* way is up to date: to an agent on a stream, and to one that has registered for
\* the next.
TipPart ==
  ~AnyBusy /\ ~behind => /\ dialing /\ pending = <<>> => agentCfg = db
                         /\ client # NoStream => Tip(client) = db

Calm == RowsThere /\ ReplayPart /\ LivePart /\ PushPart /\ QueuePart /\ TipPart
CalmInv == ~overlapped /\ Alone => Calm

\* The agent starts with the sites as they are.
LEMMA InitCalm == Init => CalmInv
<1> SUFFICES ASSUME Init PROVE CalmInv
  OBVIOUS
<1> USE DEF Init, RegInit
<1>1. RowsThere /\ ReplayPart /\ LivePart
  BY DEF RowsThere, ReplayPart, LivePart, Absent
<1>2. PushPart
  BY DEF PushPart, Senders
<1>3. QueuePart /\ TipPart
  BY DEF QueuePart, TipPart
<1>4. QED
  BY <1>1, <1>2, <1>3 DEF CalmInv, Calm

\* A handler commits a change, builds the payload for it, or gives up.
LEMMA ApiCalm ==
  ASSUME CountInv, Ground, Calm, Alone, ~Overlap, Alone', NEW h \in Handlers,
         \/ Notify(h) \/ GiveUp(h) \/ CancelPush(h)
         \/ \E s \in Sites : Commit(h, s) \/ RemoveSite(h, s)
  PROVE  Calm'
<1> USE DEF config, regVars, registry, streams, senders, agent, agentRow, trace
<1>0. /\ pc \in [Senders -> {"idle", "lookup", "send", "enqueue"}]
      /\ hand \in [Senders -> Commands \cup {NoCommand}] /\ Handlers \subseteq Senders
      /\ job \in [Handlers -> SUBSET Sites] /\ payload \in Seq(Configs)
      /\ edits \in 1..MaxEdit /\ db \in Configs
  BY DEF Ground, RegTypeOK, CountInv, Senders
<1>1. ASSUME NEW s \in Sites, RemoveSite(h, s) PROVE FALSE
  BY <1>1 DEF RemoveSite, Overlap, CountInv
<1>2. ASSUME NEW s \in Sites, Commit(h, s) PROVE Calm'
  <2>1. job' = [job EXCEPT ![h] = {s}] /\ UNCHANGED <<regVars, payload, agentCfg>>
    BY <1>2 DEF Commit
  <2>2. Busy(h)' /\ AnyBusy'
    BY <1>0, <2>1 DEF Busy, AnyBusy
  <2>3. \A k \in Handlers : pc[k] = "idle" /\ pc'[k] = "idle"
    BY <1>0, <1>2, <2>1, <2>2 DEF Busy, Alone, Commit
  <2>4. RowsThere'
    BY <1>0, <1>2 DEF Calm, RowsThere, Commit, Configs, Absent
  <2>5. ReplayPart' /\ LivePart' /\ PushPart'
    BY <2>1, <2>3 DEF Calm, ReplayPart, LivePart, PushPart
  <2>6. QueuePart' /\ TipPart'
    BY <2>1, <2>2 DEF Calm, QueuePart, TipPart, Down
  <2>7. QED
    BY <2>4, <2>5, <2>6 DEF Calm
<1>3. ASSUME Notify(h) PROVE Calm'
  <2>1. /\ payload' = Append(payload, db) /\ SendCommand(h, Len(payload'))
        /\ UNCHANGED <<registry, streams, agent, agentRow, trace, db, agentCfg>>
        /\ job' = [job EXCEPT ![h] = {}] /\ behind' = FALSE
    BY <1>0, <1>3 DEF Notify, Calm, RowsThere
  <2>2. /\ pc' = [pc EXCEPT ![h] = "lookup"] /\ hand' = [hand EXCEPT ![h] = Len(payload')]
        /\ sender' = sender /\ payload'[Len(payload')] = db
    BY <1>0, <2>1 DEF SendCommand
  <2>3. AnyBusy'
    BY <1>0, <2>2 DEF Busy, AnyBusy
  <2>4. \A k \in Handlers : k # h => pc[k] = "idle" /\ job[k] = {}
    BY <1>3 DEF Busy, Alone, Notify
  <2>5. \A g \in Streams : pc'[g] = pc[g]
    BY <1>0, <2>2, HandlersAssumption DEF Senders
  <2>6. RowsThere' /\ ReplayPart' /\ LivePart'
    BY <2>1, <2>2, <2>5 DEF Calm, RowsThere, ReplayPart, LivePart
  <2>7. PushPart'
    <3>1. ASSUME NEW k \in Handlers, k # h PROVE pc'[k] = "idle" /\ job'[k] = {}
      BY <1>0, <2>1, <2>2, <2>4, <3>1
    <3>2. pc'[h] = "lookup" /\ payload'[hand'[h]] = db' /\ job'[h] = {}
      BY <1>0, <2>1, <2>2
    <3>3. QED
      BY <2>1, <3>1, <3>2 DEF PushPart
  <2>8. QueuePart' /\ TipPart'
    BY <2>1, <2>3 DEF Calm, QueuePart, TipPart, Down
  <2>9. QED
    BY <2>6, <2>7, <2>8 DEF Calm
<1>4. ASSUME GiveUp(h) \/ CancelPush(h) PROVE Calm'
  <2>1. behind' = TRUE /\ UNCHANGED <<registry, streams, agent, db, payload, agentCfg, sender>>
    BY <1>4 DEF GiveUp, CancelPush, Cancelled
  <2>2. Busy(h) /\ (job[h] # {} => pc[h] = "idle")
    BY <1>4 DEF GiveUp, CancelPush, Cancelled, Busy, Calm, PushPart
  <2>3. \A k \in Handlers : k # h => pc[k] = "idle" /\ job[k] = {}
    BY <2>2 DEF Busy, Alone
  <2>4. \A k \in Handlers : pc'[k] = "idle"
    BY <1>0, <1>4, <2>2, <2>3 DEF GiveUp, CancelPush, Cancelled
  <2>5. \A g \in Streams : pc'[g] = pc[g]
    BY <1>0, <1>4, HandlersAssumption DEF GiveUp, CancelPush, Cancelled, Senders
  <2>6. RowsThere' /\ ReplayPart' /\ LivePart'
    BY <2>1, <2>5 DEF Calm, RowsThere, ReplayPart, LivePart
  <2>7. PushPart'
    BY <2>4 DEF PushPart
  <2>8. QueuePart' /\ TipPart'
    BY <2>1 DEF Calm, QueuePart, TipPart, Down
  <2>9. QED
    BY <2>6, <2>7, <2>8 DEF Calm
<1>5. QED
  BY <1>1, <1>2, <1>3, <1>4

\* The last command of a queue.
LEMMA LastOf ==
  ASSUME NEW S, NEW q \in Seq(S)
  PROVE  /\ \A c \in S : Append(q, c) # <<>> /\ Last(Append(q, c)) = c
         /\ q # <<>> => /\ Tail(q) = <<>> => Last(q) = Head(q)
                        /\ Tail(q) # <<>> => Last(Tail(q)) = Last(q)
BY DEF Last

\* A handler is in send_command.
LEMMA HandlerSendCalm ==
  ASSUME CountInv, Ground, FlowInv, Calm, Alone, ~Overlap, NEW h \in Handlers,
         SendStep(h), UNCHANGED config
  PROVE  Calm'
<1> USE DEF config, regVars, registry, streams, senders, agent, agentRow, trace
<1>0. /\ pc \in [Senders -> {"idle", "lookup", "send", "enqueue"}]
      /\ hand \in [Senders -> Commands \cup {NoCommand}]
      /\ sender \in [Senders -> 0..MaxStream]
      /\ channel \in [Streams -> Seq(Commands)] /\ pending \in Seq(Commands)
      /\ h \in Senders /\ Handlers \subseteq Senders /\ h \notin Streams
      /\ client \in 0..MaxStream
  BY HandlersAssumption DEF Ground, RegTypeOK, Senders
<1>1. pc[h] # "idle" /\ job[h] = {} /\ payload[hand[h]] = db /\ ~behind
  BY DEF SendStep, Lookup, TrySend, Enqueue, Calm, PushPart
<1>2. \A k \in Handlers : k # h => pc[k] = "idle" /\ job[k] = {}
  BY <1>1 DEF Alone, Busy
<1>3. hand[h] \in Commands
  BY <1>0, <1>1 DEF Ground
<1>4. RowsThere' /\ LivePart'
  BY DEF Calm, RowsThere, LivePart, SendStep, Lookup, TrySend, Enqueue
<1>5. CASE Lookup(h)
  <2>1. /\ sender' = [sender EXCEPT ![h] = connected] /\ UNCHANGED hand
        /\ pc' = [pc EXCEPT ![h] = IF connected = NoStream THEN "enqueue" ELSE "send"]
        /\ UNCHANGED <<registry, streams, agent, agentRow, trace>>
    BY <1>5 DEF Lookup
  <2>2. pc[h] = "lookup" /\ pc'[h] \in {"send", "enqueue"}
    BY <1>0, <1>5, <2>1 DEF Lookup
  <2>3. Opening = {} /\ (connected = NoStream \/ ~dialing)
    BY <2>2 DEF Overlap
  <2>4. AnyBusy'
    BY <2>2 DEF AnyBusy, Busy
  <2>5. \A g \in Streams : pc'[g] = pc[g] /\ sender'[g] = sender[g]
    BY <1>0, <2>1 DEF Senders
  <2>6. ReplayPart'
    BY <2>1, <2>5 DEF Calm, ReplayPart
  <2>7. PushPart'
    <3>1. ASSUME NEW k \in Handlers, k # h PROVE pc'[k] = "idle" /\ job'[k] = {}
      BY <1>0, <1>2, <2>1, <3>1
    <3>2. pc'[h] # "idle" /\ payload'[hand'[h]] = db' /\ job'[h] = {} /\ ~behind'
      BY <1>1, <2>1, <2>2
    <3>3. Opening' = {}
      BY <2>1, <2>3 DEF Opening
    <3>4. CASE connected = NoStream
      <4>1. pc'[h] = "enqueue" /\ Down'
        BY <1>0, <2>1, <3>4 DEF Down
      <4>2. QED
        BY <3>1, <3>2, <3>3, <4>1 DEF PushPart
    <3>5. CASE connected # NoStream
      <4>1. pc'[h] = "send" /\ sender'[h] = connected' /\ ~dialing'
        BY <1>0, <2>1, <2>3, <3>5
      <4>2. receiver'[sender'[h]] => pending' = <<>>
        BY <2>1, <3>5, <4>1 DEF Calm, QueuePart, Down
      <4>3. QED
        BY <3>1, <3>2, <3>3, <4>1, <4>2 DEF PushPart
    <3>6. QED
      BY <3>4, <3>5
  <2>8. QueuePart' /\ TipPart'
    BY <2>1, <2>4 DEF Calm, QueuePart, TipPart, Down
  <2>9. QED
    BY <1>4, <2>6, <2>7, <2>8 DEF Calm
<1>6. CASE TrySend(h) /\ receiver[sender[h]] /\ Len(channel[sender[h]]) < ChannelCapacity
  <2>1. /\ channel' = [channel EXCEPT ![sender[h]] = Append(channel[sender[h]], hand[h])]
        /\ pc' = [pc EXCEPT ![h] = "idle"] /\ hand' = [hand EXCEPT ![h] = NoCommand]
        /\ sender' = [sender EXCEPT ![h] = NoStream] /\ pc[h] = "send"
        /\ UNCHANGED <<registry, phase, replay, receiver, agent, agentRow, trace>>
    BY <1>6 DEF TrySend
  <2>2. sender[h] \in Streams
    BY <1>0, <2>1 DEF Ground, Streams, NoStream
  <2>3. /\ Opening = {} /\ connected \in {sender[h], NoStream} /\ pending = <<>>
        /\ dialing => agentCfg = db
    BY <1>6, <2>1 DEF Calm, PushPart
  <2>4. \A k \in Handlers : pc'[k] = "idle" /\ job'[k] = {}
    BY <1>0, <1>1, <1>2, <2>1
  <2>5. \A g \in Streams : pc'[g] = pc[g] /\ sender'[g] = sender[g] /\ hand'[g] = hand[g]
    BY <1>0, <2>1 DEF Senders
  <2>6. ReplayPart'
    BY <2>1, <2>5 DEF Calm, ReplayPart
  <2>7. PushPart' /\ QueuePart'
    BY <2>1, <2>3, <2>4 DEF PushPart, QueuePart
  <2>8. TipPart'
    <3>1. dialing' => agentCfg' = db'
      BY <2>1, <2>3
    <3>2. ASSUME client' # NoStream PROVE Tip(client)' = db'
      <4>1. client = sender[h] /\ client' = client /\ phase[client] = "open"
        BY <2>1, <2>2, <2>3, <3>2 DEF Calm, LivePart, Ground, Opening
      <4>2. replay'[client] = <<>> /\ pc'[client] = "idle"
        BY <2>1, <2>2, <2>5, <4>1 DEF Ground
      <4>3. channel'[client] = Append(channel[client], hand[h])
        BY <1>0, <2>1, <2>2, <4>1
      <4>4. channel'[client] # <<>> /\ Last(channel'[client]) = hand[h]
        BY <1>0, <1>3, <2>2, <4>1, <4>3, LastOf
      <4>5. QED
        BY <1>1, <2>1, <4>1, <4>2, <4>4 DEF Tip
    <3>3. QED
      BY <3>1, <3>2 DEF TipPart
  <2>9. QED
    BY <1>4, <2>6, <2>7, <2>8 DEF Calm
<1>7. CASE TrySend(h) /\ ~(receiver[sender[h]] /\ Len(channel[sender[h]]) < ChannelCapacity)
  <2>1. /\ pc' = [pc EXCEPT ![h] = "enqueue"] /\ UNCHANGED <<channel, hand>>
        /\ sender' = [sender EXCEPT ![h] = NoStream] /\ pc[h] = "send"
        /\ UNCHANGED <<registry, phase, replay, receiver, agent, agentRow, trace>>
    BY <1>7 DEF TrySend
  <2>2. ~receiver[sender[h]]
    BY <1>0, <2>1 DEF Overlap
  <2>3. Opening = {} /\ Down
    BY <2>1, <2>2 DEF Calm, PushPart, Down
  <2>4. pc'[h] = "enqueue" /\ AnyBusy'
    BY <1>0, <2>1 DEF AnyBusy, Busy
  <2>5. \A g \in Streams : pc'[g] = pc[g] /\ sender'[g] = sender[g]
    BY <1>0, <2>1 DEF Senders
  <2>6. ReplayPart'
    BY <2>1, <2>5 DEF Calm, ReplayPart
  <2>7. PushPart'
    <3>1. ASSUME NEW k \in Handlers, k # h PROVE pc'[k] = "idle" /\ job'[k] = {}
      BY <1>0, <1>2, <2>1, <3>1
    <3>2. payload'[hand'[h]] = db' /\ job'[h] = {} /\ Opening' = {} /\ Down' /\ ~behind'
      BY <1>1, <2>1, <2>3 DEF Opening, Down
    <3>3. QED
      BY <2>4, <3>1, <3>2 DEF PushPart
  <2>8. QueuePart' /\ TipPart'
    BY <2>1, <2>4 DEF Calm, QueuePart, TipPart, Down
  <2>9. QED
    BY <1>4, <2>6, <2>7, <2>8 DEF Calm
<1>8. CASE Enqueue(h)
  <2>1. /\ pc' = [pc EXCEPT ![h] = "idle"] /\ hand' = [hand EXCEPT ![h] = NoCommand]
        /\ UNCHANGED <<connected, streams, sender, agent>> /\ pc[h] = "enqueue"
    BY <1>8 DEF Enqueue
  <2>2. Opening = {} /\ Down
    BY <2>1 DEF Calm, PushPart
  <2>3. pending' # <<>> /\ Last(pending') = hand[h]
    <3>1. PICK q \in Seq(Commands) : pending' = Append(q, hand[h])
      <4>1. Len(pending) >= PendingLimit => Tail(pending) \in Seq(Commands)
        BY <1>0, RegistryAssumption
      <4>2. QED
        BY <1>0, <1>8, <4>1 DEF Enqueue
    <3>2. QED
      BY <1>3, <3>1, LastOf
  <2>4. \A k \in Handlers : pc'[k] = "idle" /\ job'[k] = {}
    BY <1>0, <1>1, <1>2, <2>1
  <2>5. \A g \in Streams : pc'[g] = pc[g]
    BY <1>0, <2>1 DEF Senders
  <2>6. ReplayPart'
    BY <2>1, <2>5 DEF Calm, ReplayPart
  <2>7. PushPart'
    BY <2>4 DEF PushPart
  <2>8. QueuePart'
    BY <1>1, <2>1, <2>2, <2>3 DEF QueuePart, Down
  <2>9. TipPart'
    <3>1. client' = NoStream
      BY <2>1, <2>2 DEF Down, Calm, LivePart, FlowInv
    <3>2. QED
      BY <2>3, <3>1 DEF TipPart
  <2>10. QED
    BY <1>4, <2>6, <2>7, <2>8, <2>9 DEF Calm
<1>9. QED
  BY <1>5, <1>6, <1>7, <1>8 DEF SendStep

\* A stream replays into itself.
LEMMA StreamSendCalm ==
  ASSUME CountInv, Ground, Calm, ~Overlap, NEW g \in Streams, SendStep(g), UNCHANGED config
  PROVE  Calm'
<1> USE DEF config, regVars, registry, streams, senders, agent, agentRow, trace
<1>0. /\ pc \in [Senders -> {"idle", "lookup", "send", "enqueue"}]
      /\ hand \in [Senders -> Commands \cup {NoCommand}]
      /\ sender \in [Senders -> 0..MaxStream]
      /\ channel \in [Streams -> Seq(Commands)]
      /\ g \in Senders /\ Handlers \subseteq Senders /\ g \notin Handlers
      /\ client \in 0..MaxStream /\ g # NoStream
  <2>1. g # NoStream
    BY DEF NoStream, Streams
  <2>2. QED
    BY <2>1, HandlersAssumption DEF Ground, RegTypeOK, Senders
<1>1. phase[g] = "replay"
  BY DEF SendStep, Lookup, TrySend, Enqueue, Ground
<1>2. connected = g /\ receiver[g] /\ pc[g] # "enqueue" /\ (pc[g] = "send" => sender[g] = g)
  BY <1>1 DEF Calm, ReplayPart
<1>3. hand[g] \in Commands
  BY <1>0 DEF SendStep, Lookup, TrySend, Enqueue, Ground
<1>4. \A h \in Handlers : pc[h] \in {"idle", "lookup"}
  BY <1>0, <1>1 DEF Calm, PushPart, Opening
<1>5. RowsThere' /\ LivePart'
  BY DEF Calm, RowsThere, LivePart, SendStep, Lookup, TrySend, Enqueue
<1>6. ~Enqueue(g)
  BY <1>2 DEF Enqueue
<1>7. CASE Lookup(g)
  <2>1. /\ sender' = [sender EXCEPT ![g] = g] /\ pc' = [pc EXCEPT ![g] = "send"]
        /\ UNCHANGED <<registry, streams, hand, agent, agentRow, trace>> /\ pc[g] = "lookup"
    BY <1>0, <1>2, <1>7 DEF Lookup
  <2>2. \A h \in Handlers : pc'[h] = pc[h] /\ sender'[h] = sender[h]
    BY <1>0, <2>1
  <2>3. AnyBusy' = AnyBusy
    BY <2>2 DEF AnyBusy, Busy
  <2>4. ReplayPart'
    BY <1>0, <2>1 DEF Calm, ReplayPart, Senders
  <2>5. PushPart'
    BY <1>4, <2>1, <2>2 DEF Calm, PushPart
  <2>6. QueuePart'
    BY <2>1, <2>3 DEF Calm, QueuePart, Down
  <2>7. TipPart'
    <3>1. client # NoStream => client = g
      BY <1>2 DEF Calm, LivePart
    <3>2. client = g => Tip(client)' = Tip(client)
      BY <1>0, <2>1 DEF Tip
    <3>3. dialing' = dialing
      BY <2>1
    <3>4. QED
      BY <2>1, <2>3, <3>1, <3>2, <3>3 DEF Calm, TipPart
  <2>8. QED
    BY <1>5, <2>4, <2>5, <2>6, <2>7 DEF Calm
<1>8. CASE TrySend(g)
  <2>1. pc[g] = "send" /\ sender[g] = g
    BY <1>2, <1>8 DEF TrySend
  <2>2. Len(channel[g]) < ChannelCapacity
    <3>1. ASSUME ~(Len(channel[g]) < ChannelCapacity) PROVE FALSE
      <4>1. pc'[g] = "enqueue"
        BY <1>0, <1>8, <2>1, <3>1 DEF TrySend
      <4>2. QED
        BY <1>0, <1>2, <2>1, <4>1 DEF Overlap
    <3>2. QED
      BY <3>1
  <2>3. /\ channel' = [channel EXCEPT ![g] = Append(channel[g], hand[g])]
        /\ pc' = [pc EXCEPT ![g] = "idle"] /\ hand' = [hand EXCEPT ![g] = NoCommand]
        /\ sender' = [sender EXCEPT ![g] = NoStream]
        /\ UNCHANGED <<registry, phase, replay, receiver, agent, agentRow, trace>>
    BY <1>2, <1>8, <2>1, <2>2 DEF TrySend
  <2>4. \A h \in Handlers : pc'[h] = pc[h] /\ sender'[h] = sender[h] /\ hand'[h] = hand[h]
    BY <1>0, <2>3
  <2>5. AnyBusy' = AnyBusy
    BY <2>4 DEF AnyBusy, Busy
  <2>6. ReplayPart'
    BY <1>0, <2>3 DEF Calm, ReplayPart, Senders
  <2>7. PushPart'
    BY <1>4, <2>3, <2>4 DEF Calm, PushPart
  <2>8. QueuePart'
    BY <2>3, <2>5 DEF Calm, QueuePart, Down
  <2>9. TipPart'
    <3>1. client # NoStream => client = g
      BY <1>2 DEF Calm, LivePart
    <3>2. channel'[g] # <<>> /\ Last(channel'[g]) = hand[g]
      <4>1. channel'[g] = Append(channel[g], hand[g]) /\ channel[g] \in Seq(Commands)
        BY <1>0, <2>3
      <4>2. QED
        BY <1>3, <4>1, LastOf
    <3>3. client = g => Tip(client)' = Tip(client)
      BY <1>0, <2>1, <2>3, <3>2 DEF Tip
    <3>4. dialing' = dialing
      BY <2>3
    <3>5. QED
      BY <2>3, <2>5, <3>1, <3>3, <3>4 DEF Calm, TipPart
  <2>10. QED
    BY <1>5, <2>6, <2>7, <2>8, <2>9 DEF Calm
<1>9. QED
  BY <1>6, <1>7, <1>8 DEF SendStep

\* The agent registers, applies a configuration or goes away.
LEMMA AgentCalm ==
  ASSUME CountInv, Ground, FlowInv, FlowInv', Calm,
         Register \/ Apply \/ ((ClientDrop \/ Abandoned) /\ UNCHANGED config)
  PROVE  Calm'
<1> USE DEF config, regVars, registry, streams, senders, agent, agentRow, trace
<1>0. /\ phase \in [Streams -> {"none", "replay", "open", "ending", "ended"}]
      /\ channel \in [Streams -> Seq(Commands)] /\ generation \in 0..MaxStream
      /\ client \in 0..MaxStream /\ db \in Configs /\ agentCfg \in Configs
  BY DEF Ground, RegTypeOK, CountInv, FlowInv
<1>1. UNCHANGED <<db, job, payload, connected, pending, generation, phase, pc, hand, sender,
                  receiver, replay>>
  BY DEF Register, Authorize, Apply, Receive, ClientDrop, Abandoned
<1>2. AnyBusy' = AnyBusy /\ Down' = Down /\ RowsThere' /\ Opening' = Opening
  BY <1>1 DEF AnyBusy, Busy, Down, RowsThere, Opening, Calm
<1>3. ReplayPart' /\ LivePart'
  BY <1>1 DEF Register, Authorize, Apply, Receive, ClientDrop, Abandoned, Calm, ReplayPart,
              LivePart
<1>4. CASE Register
  <2>1. agentCfg' = db
    <3>1. CASE db = Empty
      <4>1. Sites = {}
        BY <3>1 DEF Empty, Calm, RowsThere
      <4>2. agentCfg = db
        BY <1>0, <4>1 DEF Configs
      <4>3. QED
        BY <1>4, <4>2 DEF Register
    <3>2. CASE db # Empty
      BY <1>4, <3>2 DEF Register
    <3>3. QED
      BY <3>1, <3>2
  <2>2. (~behind => ~behind') /\ (~behind' => ~behind \/ pending = <<>>)
    BY <1>4 DEF Register
  <2>3. PushPart'
    BY <1>1, <1>2, <2>1, <2>2 DEF Calm, PushPart
  <2>4. QueuePart'
    BY <1>1, <1>2, <2>2 DEF Calm, QueuePart
  <2>5. TipPart'
    BY <1>1, <1>4, <2>1 DEF TipPart, Register, Authorize
  <2>6. QED
    BY <1>2, <1>3, <2>3, <2>4, <2>5 DEF Calm
<1>5. CASE Apply
  <2>1. /\ client \in Streams /\ phase[client] = "open" /\ channel[client] # <<>>
        /\ channel' = [channel EXCEPT ![client] = Tail(channel[client])]
        /\ agentCfg' = payload[Head(channel[client])] /\ UNCHANGED <<phase, client>>
    BY <1>0, <1>5 DEF Apply, Receive, Streams, NoStream
  <2>2. ~dialing /\ ~dialing' /\ behind' = behind
    BY <1>5, <2>1 DEF Apply, Receive, FlowInv, NoStream, Streams
  <2>3. PushPart' /\ QueuePart'
    BY <1>1, <1>2, <2>2 DEF Calm, PushPart, QueuePart
  <2>4. TipPart'
    <3>1. replay[client] = <<>> /\ pc[client] = "idle" /\ channel'[client] = Tail(channel[client])
      BY <1>0, <2>1 DEF Ground
    <3>2. Tip(client) = payload[Last(channel[client])]
      BY <2>1, <3>1 DEF Tip
    <3>3. /\ Tail(channel[client]) = <<>> => Last(channel[client]) = Head(channel[client])
          /\ Tail(channel[client]) # <<>> =>
               Last(Tail(channel[client])) = Last(channel[client])
      <4>1. channel[client] \in Seq(Commands)
        BY <1>0, <2>1
      <4>2. QED
        BY <2>1, <4>1, LastOf
    <3>4. Tip(client)' = Tip(client)
      BY <1>1, <2>1, <3>1, <3>2, <3>3 DEF Tip
    <3>5. client # NoStream
      BY <2>1 DEF Streams, NoStream
    <3>6. QED
      BY <1>1, <1>2, <2>1, <2>2, <3>4, <3>5 DEF Calm, TipPart
  <2>5. QED
    BY <1>2, <1>3, <2>3, <2>4 DEF Calm
<1>6. CASE (ClientDrop \/ Abandoned) /\ UNCHANGED config
  <2>1. /\ UNCHANGED <<channel, agentCfg, behind>>
        /\ dialing' => dialing
        /\ client' = NoStream \/ client' = client
    BY <1>6 DEF ClientDrop, Abandoned
  <2>2. PushPart' /\ QueuePart'
    BY <1>1, <1>2, <2>1 DEF Calm, PushPart, QueuePart
  <2>3. client' = client => Tip(client)' = Tip(client)
    BY <1>1, <2>1 DEF Tip
  <2>4. TipPart'
    BY <1>1, <1>2, <2>1, <2>3 DEF Calm, TipPart
  <2>5. QED
    BY <1>2, <1>3, <2>2, <2>4 DEF Calm
<1>7. QED
  BY <1>4, <1>5, <1>6

\* A stream opens, replays and ends.
LEMMA StreamCalm ==
  ASSUME CountInv, Ground, FlowInv, FlowInv', Calm, ~Overlap, NEW g \in Streams,
         UNCHANGED config,
         \/ Connect(g) \/ Replay(g) \/ Opened(g) \/ InboundEnds(g)
         \/ Disconnect(g) \/ ReceiverDropped(g) \/ HandlerCancelled(g)
  PROVE  Calm'
<1> USE DEF config, regVars, registry, streams, senders, agent, agentRow, trace
<1>0. /\ phase \in [Streams -> {"none", "replay", "open", "ending", "ended"}]
      /\ channel \in [Streams -> Seq(Commands)] /\ replay \in [Streams -> Seq(Commands)]
      /\ receiver \in [Streams -> BOOLEAN] /\ client \in 0..MaxStream
      /\ generation \in 0..MaxStream
      /\ pc \in [Senders -> {"idle", "lookup", "send", "enqueue"}]
      /\ hand \in [Senders -> Commands \cup {NoCommand}]
      /\ sender \in [Senders -> 0..MaxStream]
      /\ g \in Senders /\ Handlers \subseteq Senders /\ g \notin Handlers
  BY HandlersAssumption DEF Ground, RegTypeOK, Senders
<1>1. g # NoStream
  BY DEF NoStream, Streams
<1>2. RowsThere'
  BY DEF Calm, RowsThere
<1>3. CASE Connect(g)
  <2>1. /\ g = generation + 1 /\ connected' = g /\ generation' = g
        /\ \/ dialing /\ ~dialing' /\ client' = g
           \/ UNCHANGED <<dialing, client>>
        /\ pending' = <<>> /\ replay' = [replay EXCEPT ![g] = pending]
        /\ phase' = [phase EXCEPT ![g] = "replay"] /\ receiver' = [receiver EXCEPT ![g] = TRUE]
        /\ UNCHANGED <<channel, senders, payload, db, agentCfg, job, behind>>
    BY <1>3 DEF Connect
  <2>2. generation' # generation
    BY <1>0, <2>1
  <2>3. Opening = {} /\ ~AnyBusy
    BY <2>2 DEF Overlap, AnyBusy
  <2>4. phase[g] = "none" /\ pc[g] = "idle" /\ channel[g] = <<>>
    BY <1>0, <2>1 DEF Ground, FlowInv
  <2>10. \/ dialing /\ ~dialing' /\ client' = g
         \/ ~dialing' /\ client' = NoStream
    <3>1. client' = g \/ (~dialing /\ client = NoStream)
      BY <2>1, <2>2 DEF Overlap
    <3>2. client # g
      BY <1>0, <1>1, <2>1, <2>4 DEF Ground
    <3>3. QED
      BY <2>1, <3>1, <3>2
  <2>5. \A h \in Handlers : pc'[h] = "idle" /\ job'[h] = {}
    BY <2>1, <2>3 DEF AnyBusy, Busy
  <2>6. ReplayPart'
    BY <1>0, <2>1, <2>3, <2>4 DEF ReplayPart, Opening
  <2>7. PushPart' /\ QueuePart' /\ LivePart'
    BY <2>1, <2>5, <2>10 DEF PushPart, QueuePart, LivePart
  <2>8. TipPart'
    <3>1. replay'[g] = pending
      BY <1>0, <2>1
    <3>2. ASSUME client' = g, dialing, ~behind PROVE Tip(client)' = db
      <4>1. CASE pending # <<>>
        BY <2>1, <2>3, <3>1, <3>2, <4>1 DEF Tip, Calm, QueuePart
      <4>2. CASE pending = <<>>
        BY <2>1, <2>3, <2>4, <3>1, <3>2, <4>2 DEF Tip, Calm, TipPart
      <4>3. QED
        BY <4>1, <4>2
    <3>3. QED
      BY <2>1, <2>10, <3>2 DEF TipPart
  <2>9. QED
    BY <1>2, <2>6, <2>7, <2>8 DEF Calm
<1>31. ASSUME UNCHANGED <<client, generation>>, connected' = connected \/ client # connected
       PROVE  LivePart'
  BY <1>31 DEF Calm, LivePart
<1>4. CASE Replay(g)
  <2>1. /\ phase[g] = "replay" /\ replay[g] # <<>> /\ pc[g] = "idle"
        /\ pc' = [pc EXCEPT ![g] = "lookup"]
        /\ hand' = [hand EXCEPT ![g] = Head(replay[g])]
        /\ replay' = [replay EXCEPT ![g] = Tail(replay[g])]
        /\ UNCHANGED <<sender, registry, phase, channel, receiver, agent>>
    BY <1>4 DEF Replay, SendCommand
  <2>2. \A h \in Handlers : pc'[h] = pc[h] /\ hand'[h] = hand[h]
    BY <1>0, <2>1
  <2>3. AnyBusy' = AnyBusy /\ Opening' = Opening /\ dialing' = dialing /\ Down' = Down
    BY <2>1, <2>2 DEF AnyBusy, Busy, Opening, Down
  <2>4. ReplayPart'
    BY <1>0, <2>1 DEF Calm, ReplayPart, Senders
  <2>5. PushPart' /\ QueuePart'
    BY <2>1, <2>2, <2>3 DEF Calm, PushPart, QueuePart
  <2>6. TipPart'
    <3>1. client # NoStream => client = g
      BY <2>1 DEF Calm, LivePart, ReplayPart
    <3>2. /\ Tail(replay[g]) = <<>> => Last(replay[g]) = Head(replay[g])
          /\ Tail(replay[g]) # <<>> => Last(Tail(replay[g])) = Last(replay[g])
      <4>1. replay[g] \in Seq(Commands)
        BY <1>0
      <4>2. QED
        BY <2>1, <4>1, LastOf
    <3>3. replay'[g] = Tail(replay[g]) /\ pc'[g] = "lookup" /\ hand'[g] = Head(replay[g])
      BY <1>0, <2>1
    <3>4. client = g => Tip(client)' = Tip(client)
      BY <2>1, <3>2, <3>3 DEF Tip
    <3>5. QED
      BY <2>1, <2>3, <3>1, <3>4 DEF Calm, TipPart
  <2>7. QED
    BY <1>2, <1>31, <2>1, <2>4, <2>5, <2>6 DEF Calm
<1>5. CASE Opened(g) \/ InboundEnds(g) \/ Disconnect(g)
  <2>1. /\ phase[g] \in {"replay", "open", "ending"}
        /\ \E p \in {"open", "ending", "ended"} : phase' = [phase EXCEPT ![g] = p]
        /\ UNCHANGED <<pending, generation, replay, channel, receiver, senders, agent, job,
                       agentCfg>>
        /\ connected' = connected
             \/ (connected = g /\ connected' = NoStream /\ phase[g] = "ending")
    BY <1>5 DEF Opened, InboundEnds, Disconnect
  <2>2. AnyBusy' = AnyBusy
    BY <2>1 DEF AnyBusy, Busy
  <2>3. \A k \in Streams : phase'[k] = "replay" => phase[k] = "replay"
    BY <1>0, <2>1
  <2>4. /\ Opening = {} => Opening' = {}
        /\ dialing' = dialing
        /\ Down => Down'
    BY <2>1, <2>3 DEF Opening, Down
  <2>5. ReplayPart'
    BY <1>0, <2>1, <2>3 DEF Calm, ReplayPart
  <2>6. PushPart'
    BY <2>1, <2>4 DEF Calm, PushPart
  <2>7. QueuePart'
    BY <2>1, <2>2, <2>4 DEF Calm, QueuePart
  <2>8. TipPart'
    <3>1. Tip(client)' = Tip(client)
      BY <2>1 DEF Tip
    <3>2. QED
      BY <2>1, <2>2, <2>4, <3>1 DEF Calm, TipPart
  <2>9. client # g \/ phase[g] # "ending"
    BY <1>1 DEF Ground
  <2>10. QED
    BY <1>2, <1>31, <2>1, <2>5, <2>6, <2>7, <2>8, <2>9 DEF Calm
<1>6. CASE ReceiverDropped(g) \/ HandlerCancelled(g)
  <2>1. /\ receiver' = [receiver EXCEPT ![g] = FALSE] /\ client # g
        /\ channel' = [channel EXCEPT ![g] = <<>>]
        /\ phase' = phase \/ phase' = [phase EXCEPT ![g] = "ended"]
        /\ phase'[g] \in {"open", "ending", "ended"}
        /\ \A k \in Streams : k # g => replay'[k] = replay[k]
        /\ \A k \in Senders : k # g => /\ pc'[k] = pc[k] /\ hand'[k] = hand[k]
                                       /\ sender'[k] = sender[k]
        /\ UNCHANGED <<registry, agent, job, agentCfg>>
    <3>1. CASE ReceiverDropped(g)
      BY <1>0, <3>1 DEF ReceiverDropped
    <3>2. CASE HandlerCancelled(g)
      BY <1>0, <3>2 DEF HandlerCancelled
    <3>3. QED
      BY <1>6, <3>1, <3>2
  <2>2. \A h \in Handlers : pc'[h] = pc[h] /\ hand'[h] = hand[h] /\ sender'[h] = sender[h]
    BY <1>0, <2>1
  <2>3. AnyBusy' = AnyBusy
    BY <2>1, <2>2 DEF AnyBusy, Busy
  <2>4. \A k \in Streams : phase'[k] = "replay" => phase[k] = "replay" /\ k # g
    BY <1>0, <2>1
  <2>5. \A k : receiver'[k] => receiver[k]
    BY <1>0, <2>1
  <2>6. /\ Opening = {} => Opening' = {}
        /\ dialing' = dialing
        /\ Down => Down'
    BY <2>1, <2>4, <2>5 DEF Opening, Down
  <2>7. ReplayPart'
    BY <1>0, <2>1, <2>4 DEF Calm, ReplayPart, Senders
  <2>8. PushPart'
    BY <2>1, <2>2, <2>5, <2>6 DEF Calm, PushPart
  <2>9. QueuePart'
    BY <2>1, <2>3, <2>6 DEF Calm, QueuePart
  <2>10. TipPart'
    <3>1. client # NoStream => client \in Streams /\ client \in Senders
      BY <1>0 DEF Streams, Senders, NoStream
    <3>2. client # NoStream => Tip(client)' = Tip(client)
      BY <1>0, <2>1, <3>1 DEF Tip
    <3>3. QED
      BY <2>1, <2>3, <2>6, <3>2 DEF Calm, TipPart
  <2>11. QED
    BY <1>2, <1>31, <2>1, <2>7, <2>8, <2>9, <2>10 DEF Calm
<1>7. QED
  BY <1>3, <1>4, <1>5, <1>6

\* Every step keeps CalmInv.
LEMMA NextCalm ==
  CountInv /\ Ground /\ FlowInv /\ FlowInv' /\ CalmInv /\ [Next]_vars => CalmInv'
<1> SUFFICES ASSUME CountInv, Ground, FlowInv, FlowInv', CalmInv, [Next]_vars,
                    ~overlapped', Alone'
             PROVE  Calm'
  BY DEF CalmInv
<1>1. CASE Next
  <2>1. ~overlapped /\ ~Overlap /\ Step
    BY <1>1 DEF Next
  <2>2. Alone
    BY <2>1 DEF Overlap, Alone
  <2>3. Calm
    BY <2>1, <2>2 DEF CalmInv
  <2>4. ASSUME NEW h \in Handlers, NEW s \in Sites, Commit(h, s) \/ RemoveSite(h, s)
        PROVE  Calm'
    BY <2>1, <2>2, <2>3, <2>4, ApiCalm
  <2>5. ASSUME NEW h \in Handlers, Notify(h) \/ GiveUp(h) \/ CancelPush(h) PROVE Calm'
    BY <2>1, <2>2, <2>3, <2>5, ApiCalm
  <2>6. ASSUME NEW s \in Senders, SendStep(s), UNCHANGED config PROVE Calm'
    BY <2>1, <2>2, <2>3, <2>6, HandlerSendCalm, StreamSendCalm DEF Senders
  <2>7. CASE Register \/ Apply \/ ((ClientDrop \/ Abandoned) /\ UNCHANGED config)
    BY <2>3, <2>7, AgentCalm
  <2>8. ASSUME NEW g \in Streams, UNCHANGED config,
               \/ Connect(g) \/ Replay(g) \/ Opened(g) \/ InboundEnds(g)
               \/ Disconnect(g) \/ ReceiverDropped(g) \/ HandlerCancelled(g)
        PROVE  Calm'
    BY <2>1, <2>3, <2>8, StreamCalm
  <2>9. QED
    BY <2>1, <2>4, <2>5, <2>6, <2>7, <2>8 DEF Step
<1>2. CASE UNCHANGED vars
  <2> USE <1>2 DEF vars, config, regVars, registry, streams, senders, agent, agentRow, trace
  <2>1. Alone /\ ~overlapped
    BY DEF Alone, Busy
  <2>2. AnyBusy' = AnyBusy /\ Opening' = Opening /\ dialing' = dialing /\ Down' = Down
    BY DEF AnyBusy, Busy, Opening, Down
  <2>3. Tip(client)' = Tip(client)
    BY DEF Tip
  <2>4. RowsThere' /\ ReplayPart' /\ LivePart' /\ PushPart' /\ QueuePart' /\ TipPart'
    BY <2>1, <2>2, <2>3
       DEF CalmInv, Calm, RowsThere, ReplayPart, LivePart, PushPart, QueuePart, TipPart
  <2>5. QED
    BY <2>4 DEF Calm
<1>3. QED
  BY <1>1, <1>2

-----------------------------------------------------------------------------
(* The results *)

\* Types, at every step of the pushes.
THEOREM PushTypes == Spec => []TypeOK
<1>1. Spec => []CountInv
  BY InitCount, NextCount, PTL DEF Spec
<1>2. Spec => []Ground
  BY <1>1, PushDelivery, DeliveryGround, PTL
<1>3. Spec => []FlowInv
  BY <1>1, <1>2, InitFlow, NextFlow, PTL DEF Spec
<1>4. QED
  BY <1>1, <1>2, <1>3, GroundTypes, PTL

\* notify_config_changed, AgentRegistry and register together: once changes that
\* overlapped neither each other nor a connect have been handled, the agent runs
\* what the database says, unless the push of one was given up and nothing has
\* made up for it since.
THEOREM SerialPushesConverge == Spec => []SerialPushConverges
<1>1. Spec => []CountInv
  BY InitCount, NextCount, PTL DEF Spec
<1>2. Spec => []Ground
  BY <1>1, PushDelivery, DeliveryGround, PTL
<1>3. Spec => []FlowInv
  BY <1>1, <1>2, InitFlow, NextFlow, PTL DEF Spec
<1>4. Spec => []CalmInv
  BY <1>1, <1>2, <1>3, InitCalm, NextCalm, PTL DEF Spec
<1>5. Ground /\ CalmInv => SerialPushConverges
  <2> SUFFICES ASSUME Ground, CalmInv, Settled, ~overlapped, ~behind PROVE agentCfg = db
    BY DEF SerialPushConverges
  <2>1. Alone /\ ~AnyBusy
    BY DEF Settled, Alone, AnyBusy
  <2>2. Tip(client) = db
    BY <2>1 DEF CalmInv, Calm, TipPart, Settled
  <2>3. client \in Streams
    BY DEF Settled, Ground, RegTypeOK, Streams, NoStream
  <2>4. Tip(client) = agentCfg
    BY <2>3 DEF Ground, Settled, Tip
  <2>5. QED
    BY <2>2, <2>4
<1>6. QED
  BY <1>2, <1>4, <1>5, PTL
=============================================================================
