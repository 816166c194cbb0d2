----------------------------- MODULE ConfigPush ------------------------------
(* Configuration changes on their way from the REST API to one agent: a      *)
(* handler commits a change, builds the payload from the database            *)
(* (grpc/mod.rs, notify_config_changed) and hands it to the registry; the    *)
(* agent takes its first configuration from the registration                 *)
(* (client/mod.rs, register) and every later one from its stream.  A push    *)
(* may fail after the commit, and is then not repeated.                      *)
(*                                                                           *)
(* The agent is not bound to a site (register_agent never binds one): every  *)
(* payload lists all the sites of its owner and replaces what the agent has. *)
(* A configuration maps each site to the edit it carries, 0 if it is absent. *)
EXTENDS AgentRegistry

CONSTANTS Sites,
          MaxEdit,    \* bound: changes committed
          MaxRemove   \* bound: how many of them may delete a site

ASSUME ConfigAssumption == MaxEdit \in Nat \ {0} /\ MaxRemove \in Nat

VARIABLES
  db,          \* the sites' rows
  edits,       \* changes committed so far
  removes,     \* deletions among them
  job,         \* {the site whose change the handler is about to notify}, or {}
  payload,     \* the configuration each command carries
  agentCfg,    \* RuleCache.inner.sites
  behind,      \* history: the push of a change was given up, and nothing has
               \* made up for it
  overlapped   \* history: some step was an Overlap

config == <<db, edits, removes, job, payload, agentCfg, behind>>
vars == <<regVars, config, overlapped>>

Absent == 0
Configs == [Sites -> 0..MaxEdit]
Empty == [s \in Sites |-> Absent]
Commands == 1..Len(payload)
Busy(h) == job[h] # {} \/ pc[h] # "idle"

\* The agent starts with what it persisted in an earlier session: the sites
\* as they are.
Init ==
  /\ RegInit
  /\ db = [s \in Sites |-> 1] /\ edits = 1 /\ removes = 0
  /\ job = [h \in Handlers |-> {}]
  /\ payload = <<>> /\ agentCfg = db /\ behind = FALSE
  /\ overlapped = FALSE

-----------------------------------------------------------------------------
(* The API handlers *)

\* create and update of sites.rs, and every other endpoint that changes what
\* a bundle carries: the row is committed, then notify_config_changed runs.
Commit(h, s) ==
  /\ ~Busy(h) /\ edits < MaxEdit
  /\ edits' = edits + 1
  /\ db' = [db EXCEPT ![s] = edits']
  /\ job' = [job EXCEPT ![h] = {s}]
  /\ UNCHANGED <<regVars, removes, payload, agentCfg, behind>>

\* remove of sites.rs: the row is deleted, then notify_config_changed runs.
RemoveSite(h, s) ==
  /\ ~Busy(h) /\ edits < MaxEdit /\ removes < MaxRemove /\ db[s] # Absent
  /\ edits' = edits + 1 /\ removes' = removes + 1
  /\ db' = [db EXCEPT ![s] = Absent]
  /\ job' = [job EXCEPT ![h] = {s}]
  /\ UNCHANGED <<regVars, payload, agentCfg, behind>>

\* Mutant: the payload lists only the site that changed.
NotifyOneSite(h) ==
  \E s \in job[h] :
    /\ job' = [job EXCEPT ![h] = {}]
    /\ IF db[s] = Absent
       THEN UNCHANGED <<payload, behind, regVars>>
       ELSE /\ payload' = Append(payload, [Empty EXCEPT ![s] = db[s]])
            /\ behind' = FALSE
            /\ SendCommand(h, Len(payload'))
            /\ UNCHANGED <<registry, streams, agent, agentRow, trace>>
    /\ UNCHANGED <<db, edits, removes, agentCfg>>

\* update_payload_for_agent reads the visible sites: no push for a site that
\* is not among them, else all of them, as they are now.
Notify(h) ==
  \E s \in job[h] :
    /\ job' = [job EXCEPT ![h] = {}]
    /\ IF db[s] = Absent
       THEN UNCHANGED <<payload, behind, regVars>>
       ELSE /\ payload' = Append(payload, db)
            /\ behind' = FALSE
            /\ SendCommand(h, Len(payload'))
            /\ UNCHANGED <<registry, streams, agent, agentRow, trace>>
    /\ UNCHANGED <<db, edits, removes, agentCfg>>

\* The other ways out of notify_config_changed: the site's configuration, the
\* list of agents or the payload of this agent cannot be read, or the handler
\* is dropped at one of these awaits.  The change stays committed.
GiveUp(h) ==
  /\ job[h] # {}
  /\ job' = [job EXCEPT ![h] = {}]
  /\ behind' = TRUE
  /\ UNCHANGED <<regVars, db, edits, removes, payload, agentCfg>>

\* The handler is dropped within send_command.
CancelPush(h) ==
  /\ Cancelled(h)
  /\ behind' = TRUE
  /\ UNCHANGED <<db, edits, removes, job, payload, agentCfg>>

-----------------------------------------------------------------------------
(* The agent *)

\* The registration's answer carries the sites as they are; an empty one is
\* not applied.  It makes up for a push given up, unless the stream that follows
\* replays an older one.
Register ==
  /\ Authorize
  /\ agentCfg' = IF db = Empty THEN agentCfg ELSE db
  /\ behind' = (behind /\ (db = Empty \/ pending # <<>>))
  /\ UNCHANGED <<db, edits, removes, job, payload>>

\* update_from_site_config: what the payload does not list is dropped.
Apply ==
  /\ Receive
  /\ agentCfg' = payload[Head(channel[client])]
  /\ UNCHANGED <<db, edits, removes, job, payload, behind>>

-----------------------------------------------------------------------------
(* What a push may not overlap for its result to be certain *)

Opening == {g \in Streams : phase[g] = "replay"}
Overlap ==
  \* two pushes at once
  \/ \E h, k \in Handlers : h # k /\ Busy(h) /\ Busy(k)
  \* a push, or the replay of an earlier stream, that began before a connect
  \* ends after it
  \/ generation' # generation /\ (Opening # {} \/ \E h \in Handlers : Busy(h))
  \* a stream that the agent has given up connects after it registered again
  \/ generation' # generation /\ client' # generation' /\ (dialing \/ client # NoStream)
  \* a push into a stream that is still replaying, or into the old stream of
  \* an agent that has registered for a new one
  \/ \E h \in Handlers :
       /\ pc[h] = "lookup" /\ pc'[h] # "lookup"
       /\ \/ Opening # {}
          \/ connected # NoStream /\ dialing
  \* queued because the channel is full
  \/ \E s \in Senders :
       pc[s] = "send" /\ pc'[s] = "enqueue" /\ receiver[sender[s]]
  \* a deletion
  \/ removes' # removes

\* Later heartbeats, the ageing of the row and the de-registration, which
\* touch nothing that is read here, are left out.
Step ==
  \/ \E h \in Handlers, s \in Sites : Commit(h, s) \/ RemoveSite(h, s)
  \/ \E h \in Handlers : Notify(h) \/ GiveUp(h) \/ CancelPush(h)
  \/ \E s \in Senders : SendStep(s) /\ UNCHANGED config
  \/ Register \/ Apply
  \/ \E g \in Streams :
       /\ \/ Connect(g) \/ Replay(g) \/ Opened(g) \/ InboundEnds(g)
          \/ Disconnect(g) \/ ReceiverDropped(g) \/ HandlerCancelled(g)
       /\ UNCHANGED config
  \/ (ClientDrop \/ Abandoned) /\ UNCHANGED config

Next == Step /\ overlapped' = (overlapped \/ Overlap)

Spec == Init /\ [][Next]_vars

-----------------------------------------------------------------------------
\* Types.
TypeOK ==
  /\ RegTypeOK(Commands)
  /\ db \in Configs /\ agentCfg \in Configs
  /\ edits \in 1..MaxEdit /\ removes \in 0..MaxRemove
  /\ job \in [Handlers -> SUBSET Sites]
  /\ payload \in Seq(Configs) /\ behind \in BOOLEAN

\* The agent is on a stream and everything that was pushed has been handled.
Settled ==
  /\ client # NoStream /\ phase[client] = "open" /\ channel[client] = <<>>
  /\ \A h \in Handlers : ~Busy(h)

\* notify_config_changed, AgentRegistry and register together: after any
\* sequence of changes that do not overlap each other or a connect, the agent
\* runs what the database says - whether a change was pushed, queued while
\* the agent was away, pushed out of the queue, or lost with a broken stream.
\* A push that was given up is made up for, its site included, by the next one
\* that is not, or by a registration that finds the queue empty; until then the
\* agent may be behind.
SerialPushConverges == Settled /\ ~overlapped /\ ~behind => agentCfg = db

\* notify_config_changed's comment: a push that fails is made up for later.
\* (Violated: a push that is given up leaves a connected agent behind, with no
\* other change to come; pushes that overlap arrive in any order, one that
\* overlaps a connect is stranded in the queue or lost.)
ChangesReachAgent == Settled => agentCfg = db

\* grpc/mod.rs's module comment: every agent that serves the changed site gets
\* a fresh configuration.  (Violated: after a deletion no agent is found to
\* serve the site, and it is served on.)
DeletedSiteDropped ==
  Settled => \A s \in Sites : db[s] = Absent => agentCfg[s] = Absent
=============================================================================
