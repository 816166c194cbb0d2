----------------------------- MODULE LogShipping -----------------------------
(* Log shipping within the agent's sessions: send_log and run_log_shipper    *)
(* (pingwaf-agent/src/client/mod.rs), and the handlers of its calls on the   *)
(* control plane, ship_logs (pingwaf-server/src/grpc/control_plane.rs).      *)
(*                                                                           *)
(* The channel outlives the sessions; the batch is a local variable of the   *)
(* shipper and ends with it.  A call may fail while its handler goes on, and *)
(* the handler inserts the rows of one call in several steps.                *)
EXTENDS ReconnectLoop, Sequences, FiniteSets, Functions

CONSTANTS ChannelCap,    \* of log_sender
          BatchSize,     \* the agent's log_batch_size
          ServerBatch,   \* the control plane's log_batch_size
          Chunk,         \* LOG_INSERT_CHUNK
          Waf,           \* the entries that are WAF events
          Foreign,       \* those of a site the agent does not serve
          MaxLog,        \* bound: entries sent
          MaxFault       \* bound: calls that fail

ASSUME LogAssumption ==
  /\ {ChannelCap, BatchSize, ServerBatch, Chunk} \subseteq Nat \ {0}
  /\ MaxLog \in Nat /\ MaxFault \in Nat
  /\ Waf \subseteq 1..MaxLog /\ Foreign \subseteq 1..MaxLog

Entries == 1..MaxLog
Tables == {"access", "events"}

\* is_waf_event: an entry has a row in one table.
TableOf(e) == IF e \in Waf THEN "events" ELSE "access"

VARIABLES
  sent,       \* entries sent so far
  channel,    \* log_sender to log_receiver
  step,       \* where run_log_shipper is
  batch,      \* its batch
  wire,       \* flush_logs: the entries of the call
  after,      \* where flush_logs returns to
  notified,   \* flush_notify's permit
  call,       \* the handler of the call, or 0
  handlers,   \* the handlers of this and of abandoned calls
  copies,     \* the rows of each table
  faults,
  \* history
  dropped,    \* entries that were given up
  fails       \* the calls with each entry that did not end well

agent == <<channel, step, batch, wire, after, notified, call>>
server == <<handlers, copies>>
log == <<sent, agent, server, faults, dropped, fails>>
allVars == <<vars, log>>

\* Two: the current call's, and that of the one before it.
Handlers == 1..2
Free == [at |-> "free", todo |-> <<>>, access |-> <<>>, events |-> <<>>]

LogInit ==
  /\ Init
  /\ sent = 0 /\ channel = <<>> /\ step = "off" /\ batch = <<>> /\ wire = <<>>
  /\ after = "off" /\ notified = FALSE /\ call = 0
  /\ handlers = [h \in Handlers |-> Free]
  /\ copies = [t \in Tables |-> [e \in Entries |-> 0]]
  /\ faults = 0 /\ dropped = {} /\ fails = [e \in Entries |-> 0]

-----------------------------------------------------------------------------
(* The agent *)

\* send_log: try_send.
SendLog ==
  /\ sent < MaxLog /\ sent' = sent + 1
  /\ IF Len(channel) < ChannelCap
     THEN channel' = Append(channel, sent') /\ UNCHANGED dropped
     ELSE dropped' = dropped \cup {sent'} /\ UNCHANGED channel
  /\ UNCHANGED <<vars, step, batch, wire, after, notified, call, server, faults, fails>>

\* The flush_logs command of the control plane, through the heartbeat's stream.
FlushCommand ==
  /\ pc = "session" /\ ~notified /\ notified' = TRUE
  /\ UNCHANGED <<vars, sent, channel, step, batch, wire, after, call, server,
                 faults, dropped, fails>>

\* Where the loop begins again.
Loop(l) == IF l = "loop" THEN IF shutdown THEN "top" ELSE "select" ELSE l

\* The shipper goes on at l with batch b: by way of a call, if flush and there is
\* something to send.
Continue(b, flush, l) ==
  IF flush /\ b # <<>>
  THEN /\ step' = "call" /\ after' = l /\ wire' = b /\ batch' = <<>>
       /\ call' = CHOOSE h \in Handlers : handlers[h].at = "free"
       /\ handlers' = [handlers EXCEPT ![call'] = [Free EXCEPT !.at = "recv", !.todo = b]]
  ELSE /\ step' = Loop(l) /\ after' = "off" /\ batch' = b
       /\ UNCHANGED <<wire, call, handlers>>

\* Bound: no call begins while the handlers of two others are running.
Room == \E h \in Handlers : handlers[h].at = "free"

ShipperStep(l) ==
  /\ step = l /\ Room
  /\ UNCHANGED <<vars, sent, copies, faults, dropped, fails>>

\* The top of the loop after a shutdown: what is left is flushed.
ShipTop ==
  /\ ShipperStep("top") /\ Continue(batch, TRUE, "stop")
  /\ UNCHANGED <<channel, notified>>

\* The select's branches: an entry...
ShipRecv ==
  /\ ShipperStep("select") /\ channel # <<>> /\ channel' = Tail(channel)
  /\ Continue(Append(batch, Head(channel)), Len(batch) + 1 >= BatchSize, "loop")
  /\ UNCHANGED notified

\* Mutant: a tick only does something for a full batch.
ShipTickFull ==
  /\ ShipperStep("select") /\ Len(batch) >= BatchSize
  /\ Continue(batch, TRUE, "loop")
  /\ UNCHANGED <<channel, notified>>

\* ...the interval's tick (with nothing in the batch it changes nothing)...
ShipTick ==
  /\ ShipperStep("select") /\ batch # <<>>
  /\ Continue(batch, TRUE, "loop")
  /\ UNCHANGED <<channel, notified>>

\* ...the notification, which flushes, drains up to one batch and flushes...
ShipNotified ==
  /\ ShipperStep("select") /\ notified /\ notified' = FALSE
  /\ Continue(batch, TRUE, "drain")
  /\ UNCHANGED channel
ShipDrain ==
  LET n == Least(BatchSize, Len(channel)) IN
  /\ ShipperStep("drain")
  /\ channel' = SubSeq(channel, n + 1, Len(channel))
  /\ Continue(batch \o SubSeq(channel, 1, n), TRUE, "loop")
  /\ UNCHANGED notified

\* ...and the shutdown.
ShipShutdown ==
  /\ ShipperStep("select") /\ shutdown
  /\ Continue(batch, TRUE, "stop")
  /\ UNCHANGED <<channel, notified>>

-----------------------------------------------------------------------------
(* The end of a call *)

\* Mutant: the failed entries are put back whole.
RestoreFailedWhole(failed) == failed

\* restore_failed_batch: the newest BatchSize entries.
RestoreFailedBatch(failed) ==
  SubSeq(failed, Len(failed) - Least(BatchSize, Len(failed)) + 1, Len(failed))

Failing(S) == [e \in Entries |-> fails[e] + IF e \in S THEN 1 ELSE 0]

CallEnds(b, gone) ==
  /\ step = "call" /\ step' = Loop(after) /\ after' = "off"
  /\ batch' = b /\ wire' = <<>> /\ call' = 0
  /\ dropped' = dropped \cup gone
  /\ UNCHANGED <<vars, sent, channel, notified, copies>>

\* The states of a handler that has answered.
Over == {"done", "failed", "rejected"}
Release == handlers' = [handlers EXCEPT ![call] = Free]

\* The call is given up; its handler, if it is still running, does not know.
Hangup ==
  handlers' = [h \in Handlers |-> IF h = call /\ handlers[h].at \in Over
                                  THEN Free ELSE handlers[h]]
Answered(a) == step = "call" /\ handlers[call].at = a

\* Ok, with success: the entries are forgotten.
CallAccepted ==
  /\ Answered("done") /\ Release /\ CallEnds(<<>>, {})
  /\ UNCHANGED <<faults, fails>>

\* Ok, without: a warning.
CallRejected ==
  /\ Answered("rejected") /\ Release /\ CallEnds(<<>>, Range(wire))
  /\ fails' = Failing(Range(wire)) /\ UNCHANGED faults

CallFails ==
  LET kept == RestoreFailedBatch(wire) IN
  /\ CallEnds(kept, Range(wire) \ Range(kept)) /\ fails' = Failing(Range(wire))

\* An error status, or the transport's own error.
CallRefused == Answered("failed") /\ Release /\ CallFails /\ UNCHANGED faults
CallLost ==
  /\ faults < MaxFault /\ faults' = faults + 1
  /\ CallFails /\ Hangup

-----------------------------------------------------------------------------
(* ship_logs *)

\* A step of a handler, which becomes r; nobody may be waiting for its answer.
Handle(h, l, r) ==
  /\ handlers[h].at = l
  /\ handlers' = [handlers EXCEPT ![h] = IF h # call /\ r.at \in Over THEN Free ELSE r]
  /\ UNCHANGED <<vars, sent, agent, dropped, fails>>

Full(r) == Len(r.access) >= ServerBatch \/ Len(r.events) >= ServerBatch

\* Where a handler goes when its buffers are r's: a flush goes on until they are
\* empty, the last one is answered.
Flushed(r) ==
  IF r.access # <<>> \/ r.events # <<>> THEN r
  ELSE [r EXCEPT !.at = IF r.at = "flush" THEN "recv" ELSE "done"]

\* Mutant: the end of the stream is acknowledged with rows still buffered.
HandlerReceivesOnly(h) ==
  LET r == handlers[h]
      e == Head(r.todo)
      got == IF e \in Foreign THEN r ELSE [r EXCEPT ![TableOf(e)] = Append(@, e)]
  IN /\ Handle(h, "recv",
               IF r.todo = <<>> THEN [r EXCEPT !.at = "done"]
               ELSE [got EXCEPT !.at = IF Full(got) THEN "flush" ELSE "recv", !.todo = Tail(@)])
     /\ UNCHANGED <<copies, faults>>

\* The next entry of the stream; at its end, the last flush.
HandlerReceives(h) ==
  LET r == handlers[h]
      e == Head(r.todo)
      got == IF e \in Foreign THEN r ELSE [r EXCEPT ![TableOf(e)] = Append(@, e)]
  IN /\ Handle(h, "recv",
               IF r.todo = <<>> THEN Flushed([r EXCEPT !.at = "last"])
               ELSE [got EXCEPT !.at = IF Full(got) THEN "flush" ELSE "recv", !.todo = Tail(@)])
     /\ UNCHANGED <<copies, faults>>

\* Mutant: the rows stay in the buffer of the next flush.
HandlerInsertsOnly(h) ==
  LET r == handlers[h]
      t == IF r.access # <<>> THEN "access" ELSE "events"
  IN /\ r.at \in {"flush", "last"}
     /\ Handle(h, r.at, [r EXCEPT !.at = IF @ = "flush" THEN "recv" ELSE "done"])
     /\ copies' = [copies EXCEPT ![t] = [e \in Entries |-> @[e] + IF e \in Range(r[t]) THEN 1 ELSE 0]]
     /\ UNCHANGED faults

\* flush: the access rows, chunk by chunk, and then the events.
HandlerInserts(h) ==
  LET r == handlers[h]
      t == IF r.access # <<>> THEN "access" ELSE "events"
      n == Least(Chunk, Len(r[t]))
  IN /\ r.at \in {"flush", "last"}
     /\ Handle(h, r.at, Flushed([r EXCEPT ![t] = SubSeq(@, n + 1, Len(@))]))
     /\ copies' = [copies EXCEPT ![t] =
                     [e \in Entries |-> @[e] + IF e \in Range(SubSeq(r[t], 1, n)) THEN 1 ELSE 0]]
     /\ UNCHANGED faults

\* authorize, visible_sites or an insert fails: what is buffered is gone.
HandlerFails(h) ==
  /\ faults < MaxFault /\ faults' = faults + 1
  /\ handlers[h].at \in {"recv", "flush", "last"}
  /\ Handle(h, handlers[h].at, [Free EXCEPT !.at = "failed"])
  /\ UNCHANGED copies

\* The stream itself is in error.
HandlerAborts(h) ==
  /\ faults < MaxFault /\ faults' = faults + 1
  /\ Handle(h, "recv", [Free EXCEPT !.at = "rejected"])
  /\ UNCHANGED copies

\* The handler of a call that nobody waits for is dropped.
HandlerDropped(h) ==
  /\ h # call /\ handlers[h].at # "free"
  /\ Handle(h, handlers[h].at, Free)
  /\ UNCHANGED <<copies, faults>>

-----------------------------------------------------------------------------
(* The sessions *)

LogsRegistered ==
  /\ Registered /\ step' = Loop("loop")
  /\ UNCHANGED <<sent, channel, batch, wire, after, notified, call, server,
                 faults, dropped, fails>>

\* Whichever branch of the session's select ends first, the others are dropped
\* where they are.
ShipperDropped ==
  /\ step' = "off" /\ after' = "off" /\ batch' = <<>> /\ wire' = <<>> /\ call' = 0
  /\ dropped' = dropped \cup Range(wire) \cup Range(batch)
  /\ fails' = Failing(Range(wire)) /\ Hangup
  /\ UNCHANGED <<sent, channel, notified, copies, faults>>

LogsSessionEnds == SessionEnds /\ ShipperDropped
LogsSessionInterrupted == SessionInterrupted /\ ShipperDropped

Ship == ShipTop \/ ShipRecv \/ ShipTick \/ ShipNotified \/ ShipDrain \/ ShipShutdown
CallReturns == CallAccepted \/ CallRejected \/ CallRefused
Serve(h) == HandlerReceives(h) \/ HandlerInserts(h)

LogNext ==
  \/ (Top \/ AttemptFails \/ WaitInterrupted \/ WaitElapses \/ Shutdown) /\ UNCHANGED log
  \/ LogsRegistered \/ LogsSessionEnds \/ LogsSessionInterrupted
  \/ SendLog \/ FlushCommand \/ Ship \/ CallReturns \/ CallLost
  \/ \E h \in Handlers : Serve(h) \/ HandlerFails(h) \/ HandlerAborts(h) \/ HandlerDropped(h)
  \/ Stopped /\ UNCHANGED log

\* The steps connection_loop takes by itself (see ReconnectLoop), the shipper's
\* and a handler's: the runtime polls each of the three, and the interval ticks.
LoopSteps ==
  \/ (Top \/ AttemptFails \/ WaitInterrupted) /\ UNCHANGED log
  \/ LogsRegistered \/ LogsSessionInterrupted
LogFairness ==
  /\ WF_allVars(LoopSteps) /\ WF_allVars(Ship \/ CallReturns)
  /\ \A h \in Handlers : WF_allVars(Serve(h))

LogSpec == LogInit /\ [][LogNext]_allVars /\ LogFairness

-----------------------------------------------------------------------------
\* What the agent still holds, oldest first.
Waiting == wire \o batch \o channel

Handler == [at : {"free", "recv", "flush", "last", "done", "failed", "rejected"},
            todo : Seq(Entries), access : Seq(Entries), events : Seq(Entries)]

\* Types; and "the backlog may not grow without bound while the server is
\* down": between its calls the shipper holds at most one batch, and a call
\* carries at most two.
BacklogBounded ==
  /\ sent \in 0..MaxLog /\ faults \in 0..MaxFault /\ dropped \subseteq 1..sent
  /\ step \in {"off", "top", "select", "drain", "call", "stop"}
  /\ after \in {"off", "loop", "drain", "stop"} /\ notified \in BOOLEAN
  /\ handlers \in [Handlers -> Handler] /\ call \in Handlers \cup {0}
  /\ Len(channel) <= ChannelCap /\ Len(batch) <= BatchSize /\ Len(wire) <= 2 * BatchSize
  /\ step = "off" <=> pc # "session"

\* The control plane stores a row again only for an entry whose call had
\* failed: there are at most as many copies of it as calls carried it, of
\* which all but the last one did not end well.
CopiesExplained ==
  \A e \in Entries, t \in Tables :
    /\ copies[t][e] <= fails[e] + IF e \in Range(Waiting) \cup dropped
                                     /\ e \notin Range(wire) THEN 0 ELSE 1
    /\ copies[t][e] > 0 => t = TableOf(e) /\ e \notin Foreign

\* send_log, run_log_shipper and ship_logs do what LogDelivery says.
Delivery == INSTANCE LogDelivery WITH
  TablesOf <- [e \in Entries |-> IF e \in Foreign THEN {} ELSE {TableOf(e)}],
  Capacity <- ChannelCap + 2 * BatchSize,
  last <- sent, queue <- Waiting, lost <- dropped,
  rows <- {x \in Tables \X Entries : copies[x[1]][x[2]] > 0}
DeliversLogs == Delivery!Spec

\* A session that stays up ships what it is given, however little it is: no
\* entry waits forever in the channel, in the batch or in a call.
SessionShips ==
  \A e \in Entries :
    (pc = "session" /\ e \in Range(Waiting)) ~> (pc # "session" \/ e \notin Range(Waiting))

\* flush_logs: "a transport failure must not silently drop the whole batch".
\* (Violated: the failure that ends the call also ends the heartbeat, and with
\* it the session that the batch is local to.)
DisconnectKeepsBatch == [][LogsSessionEnds => dropped' = dropped]_allVars

\* run_log_shipper: "flush remaining logs before shutdown".  (Violated: the
\* session's own wait_for_shutdown drops the shipper in its last call or
\* before, and the channel is not drained.)
ShutdownFlushes == pc = "stopped" /\ faults = 0 => dropped = {}
=============================================================================
