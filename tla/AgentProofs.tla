---------------------------- MODULE AgentProofs ------------------------------
(* The agent: the reconnect delay's bounds, for every configured first delay *)
(* and ceiling, log shipping within its sessions, for every capacity and     *)
(* batch size, and its dynamic IP blocks, for any threads and keys.          *)
EXTENDS LogShipping, BlockedIps, SequenceTheorems, TLAPS

\* The bound that the delay never leaves.
Ceiling == Most(Most(Initial, Max), 1)

\* next_backoff stays within the ceiling, never answers zero, and loses at
\* most half of the ceiling.
LEMMA NextBackoffBounds ==
  ASSUME NEW d \in 0..Ceiling, NEW n \in NextBackoff(d)
  PROVE  n \in 1..Ceiling /\ n >= Least(d, Most(Max \div 2, 1))
BY DelayAssumption DEF NextBackoff, Ceiling, Least, Most

\* DelayBounded, and what the loop is about to load when it is at its top.
DelayInv ==
  /\ DelayBounded
  /\ pc = "top" => retryDelay >= Least(delay, Most(Max \div 2, 1))

\* The loop starts with the configured delay.
LEMMA InitDelayInv == Init => DelayInv
<1> SUFFICES ASSUME Init PROVE DelayInv OBVIOUS
<1>1. {connected, shutdown, registered} \subseteq BOOLEAN
  BY Zenon DEF Init
<1>2. pc = "top" /\ retryDelay = Initial /\ delay = Initial BY DEF Init
<1>3. /\ {retryDelay, delay} \subseteq 0..Most(Most(Initial, Max), 1)
      /\ retryDelay >= Least(delay, Most(Max \div 2, 1))
  BY <1>2, DelayAssumption DEF Least, Most
<1> QED BY <1>1, <1>2, <1>3 DEF DelayInv, DelayBounded

\* Every step keeps DelayInv.
LEMMA NextDelayInv == DelayInv /\ [Next]_vars => DelayInv'
<1> SUFFICES ASSUME DelayInv, [Next]_vars PROVE DelayInv' OBVIOUS
<1> USE DelayAssumption DEF DelayInv, DelayBounded
<1>1. CASE UNCHANGED vars BY <1>1 DEF vars
<1>2. CASE Top BY <1>2 DEF Top
<1>3. CASE AttemptFails BY <1>3 DEF AttemptFails
<1>4. CASE Registered BY <1>4 DEF Registered, Most
<1>5. CASE SessionEnds BY <1>5 DEF SessionEnds
<1>6. CASE SessionInterrupted BY <1>6 DEF SessionInterrupted, SessionEnds
<1>7. CASE WaitInterrupted BY <1>7 DEF WaitInterrupted
<1>8. CASE WaitElapses
  <2>1. delay \in 0..Ceiling BY DEF Ceiling
  <2>2. retryDelay' \in 1..Ceiling
        /\ retryDelay' >= Least(delay, Most(Max \div 2, 1))
    BY <1>8, <2>1, NextBackoffBounds DEF WaitElapses
  <2> QED BY <1>8, <2>2 DEF WaitElapses, Ceiling
<1>9. CASE Shutdown BY <1>9 DEF Shutdown
<1>10. CASE Stopped BY <1>10 DEF Stopped, vars
<1> QED BY <1>1, <1>2, <1>3, <1>4, <1>5, <1>6, <1>7, <1>8, <1>9, <1>10 DEF Next

\* connection_loop's delay is bounded, whatever the configuration: a ceiling
\* below the first delay, or a first delay of zero, included.
THEOREM DelayStaysBounded == Spec => []DelayBounded
<1>1. DelayInv => DelayBounded BY DEF DelayInv
<1> QED BY <1>1, InitDelayInv, NextDelayInv, PTL DEF Spec

\* The waits around failed attempts never get shorter than the last one, or
\* half of the ceiling.
THEOREM BackoffNeverCollapses == Spec => BackoffHolds
<1>1. DelayInv /\ [Next]_vars
      => [Top /\ ~registered => delay' >= Least(delay, Most(Max \div 2, 1))]_vars
  <2> SUFFICES ASSUME DelayInv, Top
               PROVE  delay' >= Least(delay, Most(Max \div 2, 1))
    OBVIOUS
  <2>1. delay \in Nat BY DelayAssumption DEF DelayInv, DelayBounded, Most
  <2>2. CASE shutdown BY <2>1, <2>2, DelayAssumption DEF Top, Least, Most
  <2>3. CASE ~shutdown BY <2>3 DEF Top, DelayInv
  <2> QED BY <2>2, <2>3
<1> QED BY <1>1, InitDelayInv, NextDelayInv, PTL DEF Spec, BackoffHolds

-----------------------------------------------------------------------------
(* Log shipping: types *)

Steps == {"off", "top", "select", "drain", "call", "stop"}
Afters == {"off", "loop", "drain", "stop"}

\* The entries that belong in table t, of the first n.
Own(n, t) == {e \in 1..n : TableOf(e) = t /\ e \notin Foreign}

\* A handler with entries of the first n.
Holding(n) ==
  [at : {"free", "recv", "flush", "last", "done", "failed", "rejected"},
   todo : Seq(1..n), access : Seq(Own(n, "access")), events : Seq(Own(n, "events"))]

\* What is held anywhere was sent.
ShipTypes ==
  /\ sent \in 0..MaxLog /\ faults \in 0..MaxFault /\ dropped \subseteq 1..sent
  /\ step \in Steps /\ after \in Afters /\ notified \in BOOLEAN
  /\ handlers \in [Handlers -> Holding(sent)] /\ call \in Handlers \cup {0}
  /\ channel \in Seq(1..sent) /\ batch \in Seq(1..sent) /\ wire \in Seq(1..sent)
  /\ copies \in [Tables -> [Entries -> Nat]] /\ fails \in [Entries -> Nat]
  /\ shutdown \in BOOLEAN

\* The shipper runs within a session, and has a batch of its own or a call.
PhaseInv ==
  /\ step = "off" <=> pc # "session"
  /\ step = "off" => batch = <<>>
  /\ step = "call" => after # "off" /\ batch = <<>> /\ call \in Handlers
  /\ step = "call" => handlers[call].at # "free"
  /\ step # "call" => wire = <<>> /\ call = 0

LengthInv ==
  /\ Len(channel) <= ChannelCap /\ Len(batch) <= BatchSize /\ Len(wire) <= 2 * BatchSize

\* The first entry of a queue, and a front of it, go over to the end of another.
LEMMA TakeFirst ==
  ASSUME NEW S, NEW p \in Seq(S), NEW q \in Seq(S), q # <<>>
  PROVE  Append(p, Head(q)) \o Tail(q) = p \o q
<1>1. /\ Head(q) \in S /\ Tail(q) \in Seq(S) /\ Len(Tail(q)) = Len(q) - 1
      /\ Head(q) = q[1] /\ Len(p) \in Nat /\ Len(q) \in Nat \ {0}
      /\ \A i \in 1..Len(Tail(q)) : Tail(q)[i] = q[i + 1]
  BY HeadTailProperties
<1>2. PICK b \in Seq(S) : b = Append(p, Head(q))
  BY <1>1, AppendProperties, Zenon
<1>3. /\ Len(b) = Len(p) + 1 /\ b[Len(p) + 1] = q[1] /\ \A i \in 1..Len(p) : b[i] = p[i]
  BY <1>1, <1>2
<1>4. PICK r \in Seq(S) : r = Tail(q)
  BY <1>1
<1>5. /\ b \o r \in Seq(S) /\ Len(b \o r) = Len(b) + Len(r)
      /\ \A i \in 1..Len(b) + Len(r) : (b \o r)[i] = IF i <= Len(b) THEN b[i] ELSE r[i - Len(b)]
  BY ConcatProperties, Zenon
<1>6. /\ p \o q \in Seq(S) /\ Len(p \o q) = Len(p) + Len(q)
      /\ \A i \in 1..Len(p) + Len(q) : (p \o q)[i] = IF i <= Len(p) THEN p[i] ELSE q[i - Len(p)]
  BY ConcatProperties, Zenon
<1>7. Len(b \o r) = Len(p \o q)
  BY <1>1, <1>3, <1>4, <1>5, <1>6
<1>8. ASSUME NEW i \in 1..Len(b \o r) PROVE (b \o r)[i] = (p \o q)[i]
  <2>1. i \in 1..Len(p) + Len(q) /\ i \in 1..Len(b) + Len(r)
    BY <1>5, <1>6, <1>7, <1>8
  <2>2. CASE i <= Len(p)
    BY <1>1, <1>3, <1>5, <1>6, <2>1, <2>2
  <2>3. CASE i = Len(p) + 1
    BY <1>1, <1>3, <1>5, <1>6, <2>1, <2>3
  <2>4. CASE i > Len(p) + 1
    <3>1. (b \o r)[i] = r[i - Len(b)] /\ (p \o q)[i] = q[i - Len(p)]
      BY <1>1, <1>3, <1>5, <1>6, <2>1, <2>4
    <3>2. r[i - Len(b)] = q[i - Len(b) + 1]
      BY <1>1, <1>3, <1>4, <2>1, <2>4
    <3>3. QED
      BY <1>1, <1>3, <2>1, <3>1, <3>2, SMTT(60)
  <2>5. i <= Len(p) \/ i = Len(p) + 1 \/ i > Len(p) + 1
    BY <1>1, <2>1
  <2>6. QED
    BY <2>2, <2>3, <2>4, <2>5, Zenon
<1>9. b \o r = p \o q
  BY <1>5, <1>6, <1>7, <1>8, SeqEqual, Zenon
<1>10. QED
  BY <1>2, <1>4, <1>9

\* b is p and the first n elements of q, r is the rest of q.
TakesFront(p, q, n, b, r) ==
  /\ n \in Nat /\ n <= Len(q)
  /\ b = p \o SubSeq(q, 1, n) /\ r = SubSeq(q, n + 1, Len(q))
Joins(S, p, q, n, b, r) ==
  /\ b \in Seq(S) /\ r \in Seq(S) /\ b \o r = p \o q
  /\ Len(b) = Len(p) + n /\ Len(r) + n = Len(q)

LEMMA TakeFront ==
  ASSUME NEW S, NEW p \in Seq(S), NEW q \in Seq(S), NEW n, NEW b, NEW r,
         TakesFront(p, q, n, b, r)
  PROVE  Joins(S, p, q, n, b, r)
<1>a. /\ n \in Nat /\ n <= Len(q)
      /\ b = p \o SubSeq(q, 1, n) /\ r = SubSeq(q, n + 1, Len(q))
  BY DEF TakesFront
<1>0. /\ SubSeq(q, 1, n) \in Seq(S) /\ r \in Seq(S)
      /\ Len(SubSeq(q, 1, n)) = n /\ Len(r) + n = Len(q)
  BY <1>a
<1>1. PICK a \in Seq(S) : a = SubSeq(q, 1, n)
  BY <1>0, Zenon
<1>2. PICK z \in Seq(S) : z = r
  BY <1>0, Zenon
<1>3. a \o z = q
  <2>1. 1 \in 1..Len(q) + 1 /\ n \in 1 - 1..Len(q) /\ Len(q) \in n..Len(q)
    BY <1>a
  <2>2. SubSeq(q, 1, n) \o SubSeq(q, n + 1, Len(q)) = SubSeq(q, 1, Len(q))
    BY <2>1, ConcatAdjacentSubSeq, Zenon
  <2>3. SubSeq(q, 1, Len(q)) = q
    BY SubSeqFull, Zenon
  <2>4. QED
    BY <1>a, <1>1, <1>2, <2>2, <2>3
<1>4. (p \o a) \o z = p \o (a \o z)
  BY ConcatAssociative
<1>5. p \o a \in Seq(S) /\ Len(p \o a) = Len(p) + Len(a)
  BY ConcatProperties, Zenon
<1>6. QED
  BY <1>a, <1>0, <1>1, <1>2, <1>3, <1>4, <1>5 DEF Joins

\* A handler is free, or at one of its labels.
LEMMA HandlerFacts ==
  ASSUME NEW n \in Nat
  PROVE  /\ Free \in Holding(n) /\ Free.at = "free"
         /\ \A a \in {"failed", "rejected"} : [Free EXCEPT !.at = a] \in Holding(n)
         /\ \A b \in Seq(1..n) : [Free EXCEPT !.at = "recv", !.todo = b] \in Holding(n)
<1>1. <<>> \in Seq(1..n) /\ <<>> \in Seq(Own(n, "access")) /\ <<>> \in Seq(Own(n, "events"))
  OBVIOUS
<1>2. QED
  BY <1>1 DEF Free, Holding

LEMMA LargerSeq ==
  ASSUME NEW S, NEW T, S \subseteq T, NEW s \in Seq(S)
  PROVE  s \in Seq(T)
OBVIOUS

\* A later entry changes nothing for what is held.
LEMMA HoldingGrows ==
  ASSUME NEW n \in Nat, NEW r \in Holding(n)
  PROVE  r \in Holding(n + 1)
<1>1. 1..n \subseteq 1..n + 1
  OBVIOUS
<1>2. Own(n, "access") \subseteq Own(n + 1, "access") /\ Own(n, "events") \subseteq Own(n + 1, "events")
  BY <1>1 DEF Own
<1>3. /\ r.todo \in Seq(1..n) /\ r.access \in Seq(Own(n, "access"))
      /\ r.events \in Seq(Own(n, "events"))
  BY DEF Holding
<1>4. /\ r.todo \in Seq(1..n + 1) /\ r.access \in Seq(Own(n + 1, "access"))
      /\ r.events \in Seq(Own(n + 1, "events"))
  BY <1>1, <1>2, <1>3, LargerSeq, Zenon
<1>5. QED
  BY <1>4 DEF Holding

\* The shipper is in a call with b, or holds b as its batch.
Calls(b, l) ==
  /\ b # <<>> /\ step' = "call" /\ after' = l /\ wire' = b /\ batch' = <<>>
  /\ call' \in Handlers /\ handlers[call'].at = "free"
  /\ handlers' = [handlers EXCEPT ![call'] = [Free EXCEPT !.at = "recv", !.todo = b]]
Keeps(b) ==
  /\ step' \in {"top", "select", "drain", "stop"} /\ after' = "off"
  /\ batch' = b /\ UNCHANGED <<wire, call, handlers>>

LEMMA ContinueFacts ==
  ASSUME NEW b, NEW flush, NEW l \in {"loop", "drain", "stop"}, Room, Continue(b, flush, l)
  PROVE  \/ flush /\ Calls(b, l)
         \/ (~flush \/ b = <<>>) /\ Keeps(b)
<1>1. CASE flush /\ b # <<>>
  <2>1. \E h \in Handlers : handlers[h].at = "free"
    BY DEF Room
  <2>2. call' \in Handlers /\ handlers[call'].at = "free"
    BY <1>1, <2>1 DEF Continue
  <2>3. QED
    BY <1>1, <2>2 DEF Continue, Calls
<1>2. CASE ~(flush /\ b # <<>>)
  BY <1>2 DEF Continue, Loop, Keeps
<1>3. QED
  BY <1>1, <1>2

\* What a step of the shipper does: it goes on with b, the batch and perhaps
\* some entries of the channel.
Moves(b) ==
  /\ b \in Seq(1..sent) /\ channel' \in Seq(1..sent)
  /\ b \o channel' = batch \o channel /\ Len(channel') <= Len(channel)
  /\ \/ Len(b) <= 2 * BatchSize /\ \E l \in {"loop", "drain", "stop"} : Calls(b, l)
     \/ Len(b) <= BatchSize /\ Keeps(b)

LEMMA ShipFacts ==
  ASSUME ShipTypes, PhaseInv, LengthInv, Ship
  PROVE  /\ pc' = pc /\ shutdown' = shutdown /\ sent' = sent /\ copies' = copies
         /\ faults' = faults /\ dropped' = dropped /\ fails' = fails
         /\ step \in {"top", "select", "drain"} /\ wire = <<>> /\ notified' \in BOOLEAN
         /\ \E b : Moves(b)
<1> DEFINE Same == /\ pc' = pc /\ shutdown' = shutdown /\ sent' = sent /\ copies' = copies
                   /\ faults' = faults /\ dropped' = dropped /\ fails' = fails
<1>0. /\ channel \in Seq(1..sent) /\ batch \in Seq(1..sent) /\ Len(channel) \in Nat
      /\ Len(batch) \in Nat /\ Len(batch) <= BatchSize /\ BatchSize \in Nat \ {0}
      /\ notified \in BOOLEAN
  BY LogAssumption DEF ShipTypes, LengthInv
<1>1. ASSUME NEW l, ShipperStep(l), l \in {"top", "select", "drain"}
      PROVE  Same /\ step = l /\ wire = <<>> /\ Room
  BY <1>1 DEF ShipperStep, vars, PhaseInv
<1>2. ASSUME NEW l \in {"loop", "drain", "stop"}, Continue(batch, TRUE, l), channel' = channel, Room
      PROVE  \E b : Moves(b)
  <2>1. (\E k \in {"loop", "drain", "stop"} : Calls(batch, k)) \/ Keeps(batch)
    BY <1>2, ContinueFacts
  <2>2. Len(batch) <= 2 * BatchSize
    BY <1>0
  <2>3. Moves(batch)
    BY <1>0, <1>2, <2>1, <2>2 DEF Moves
  <2>4. QED
    BY <2>3
<1>3. CASE ShipTop
  BY <1>0, <1>1, <1>2, <1>3 DEF ShipTop
<1>4. CASE ShipRecv
  <2>1. /\ channel # <<>> /\ channel' = Tail(channel) /\ notified' = notified
        /\ Continue(Append(batch, Head(channel)), Len(batch) + 1 >= BatchSize, "loop")
        /\ ShipperStep("select")
    BY <1>4 DEF ShipRecv
  <2>2. /\ Head(channel) \in 1..sent /\ Tail(channel) \in Seq(1..sent)
        /\ Len(Tail(channel)) = Len(channel) - 1
    BY <1>0, <2>1, HeadTailProperties
  <2>3. PICK b : b = Append(batch, Head(channel))
    OBVIOUS
  <2>4. b \in Seq(1..sent) /\ Len(b) = Len(batch) + 1
    BY <1>0, <2>2, <2>3
  <2>5. b \o channel' = batch \o channel
    BY <1>0, <2>1, <2>3, TakeFirst, Zenon
  <2>6. \/ \E k \in {"loop", "drain", "stop"} : Calls(b, k)
        \/ (~(Len(batch) + 1 >= BatchSize) \/ b = <<>>) /\ Keeps(b)
    BY <1>1, <2>1, <2>3, ContinueFacts
  <2>7. b # <<>>
    BY <1>0, <2>4
  <2>8. Len(b) <= 2 * BatchSize /\ (~(Len(batch) + 1 >= BatchSize) => Len(b) <= BatchSize)
    BY <1>0, <2>4
  <2>9. Moves(b)
    BY <1>0, <2>1, <2>2, <2>4, <2>5, <2>6, <2>7, <2>8, SMTT(60) DEF Moves
  <2>10. QED
    BY <1>0, <1>1, <2>1, <2>9
<1>5. CASE ShipTick
  BY <1>0, <1>1, <1>2, <1>5 DEF ShipTick
<1>6. CASE ShipNotified
  BY <1>0, <1>1, <1>2, <1>6 DEF ShipNotified
<1>7. CASE ShipShutdown
  BY <1>0, <1>1, <1>2, <1>7 DEF ShipShutdown
<1>8. CASE ShipDrain
  <2>1. PICK n : n = Least(BatchSize, Len(channel))
    OBVIOUS
  <2>2. n \in Nat /\ n <= Len(channel) /\ n <= BatchSize
    BY <1>0, <2>1 DEF Least
  <2>3. /\ channel' = SubSeq(channel, n + 1, Len(channel)) /\ notified' = notified
        /\ Continue(batch \o SubSeq(channel, 1, n), TRUE, "loop") /\ ShipperStep("drain")
    BY <1>8, <2>1 DEF ShipDrain
  <2>4. PICK b : b = batch \o SubSeq(channel, 1, n)
    OBVIOUS
  <2>5. /\ b \in Seq(1..sent) /\ channel' \in Seq(1..sent) /\ b \o channel' = batch \o channel
        /\ Len(b) = Len(batch) + n /\ Len(channel') + n = Len(channel)
    <3>1. PICK c : c = channel'
      OBVIOUS
    <3>2. TakesFront(batch, channel, n, b, c)
      BY <2>2, <2>3, <2>4, <3>1 DEF TakesFront
    <3>3. batch \in Seq(1..sent) /\ channel \in Seq(1..sent)
      BY <1>0
    <3>4. Joins(1..sent, batch, channel, n, b, c)
      BY <3>2, <3>3, TakeFront, Zenon
    <3>5. QED
      BY <3>1, <3>4 DEF Joins
  <2>6. (\E k \in {"loop", "drain", "stop"} : Calls(b, k)) \/ (b = <<>> /\ Keeps(b))
    BY <1>1, <2>3, <2>4, ContinueFacts
  <2>7. Len(b) <= 2 * BatchSize /\ Len(channel') <= Len(channel)
    BY <1>0, <2>2, <2>5
  <2>8. b = <<>> => Len(b) <= BatchSize
    BY <1>0
  <2>9. Moves(b)
    BY <2>5, <2>6, <2>7, <2>8 DEF Moves
  <2>10. QED
    BY <1>0, <1>1, <2>3, <2>9
<1>9. QED
  BY <1>3, <1>4, <1>5, <1>6, <1>7, <1>8 DEF Ship

-----------------------------------------------------------------------------
(* Log shipping: the handler's buffers *)

Ascending(s) == \A i, j \in 1..Len(s) : i < j => s[i] < s[j]
Before(s, z) == \A i \in 1..Len(s), j \in 1..Len(z) : s[i] < z[j]

\* A handler reads its entries in order, and what it has buffered is older than
\* what it has yet to read; at the end there is nothing left.
Orderly(r) ==
  /\ Ascending(r.todo) /\ Ascending(r.access) /\ Ascending(r.events)
  /\ Before(r.access, r.todo) /\ Before(r.events, r.todo)
  /\ r.at \in {"last", "done"} => r.todo = <<>>
  /\ r.at = "done" => r.access = <<>> /\ r.events = <<>>

\* The handler still has the entry, to read or to insert.
Carries(r, e) == e \in Range(r.todo) \/ e \in Range(r.access) \/ e \in Range(r.events)

LEMMA InRange ==
  ASSUME NEW S, NEW s \in Seq(S), NEW e
  PROVE  e \in Range(s) <=> \E i \in 1..Len(s) : s[i] = e
BY DEF Range

\* What is left of a sequence after its first n elements.
LEMMA RestFacts ==
  ASSUME NEW S, NEW q \in Seq(S), NEW n \in 0..Len(q)
  PROVE  /\ SubSeq(q, n + 1, Len(q)) \in Seq(S)
         /\ Len(SubSeq(q, n + 1, Len(q))) = Len(q) - n
         /\ \A i \in 1..Len(q) - n : SubSeq(q, n + 1, Len(q))[i] = q[i + n]
OBVIOUS

LEMMA FrontFacts ==
  ASSUME NEW S, NEW q \in Seq(S), NEW n \in 0..Len(q)
  PROVE  /\ SubSeq(q, 1, n) \in Seq(S) /\ Len(SubSeq(q, 1, n)) = n
         /\ \A i \in 1..n : SubSeq(q, 1, n)[i] = q[i]
OBVIOUS

\* z is s with x at its end; ts is td without its first element.
Extends(s, x, z) ==
  /\ Len(z) = Len(s) + 1 /\ z[Len(s) + 1] = x
  /\ \A i \in 1..Len(s) : z[i] = s[i]
Shifts(td, ts) == Len(ts) = Len(td) - 1 /\ \A i \in 1..Len(ts) : ts[i] = td[i + 1]

LEMMA AppendExtends ==
  ASSUME NEW S, NEW s \in Seq(S), NEW x \in S
  PROVE  Append(s, x) \in Seq(S) /\ Extends(s, x, Append(s, x))
BY DEF Extends

LEMMA TailShifts ==
  ASSUME NEW S, NEW td \in Seq(S), td # <<>>
  PROVE  Tail(td) \in Seq(S) /\ Shifts(td, Tail(td)) /\ td[1] \in S /\ Head(td) = td[1]
BY DEF Shifts

LEMMA ExtendedRange ==
  ASSUME NEW S, NEW s \in Seq(S), NEW z \in Seq(S), NEW x, Extends(s, x, z), NEW e
  PROVE  e \in Range(z) <=> e = x \/ e \in Range(s)
<1>1. e \in Range(z) <=> \E i \in 1..Len(z) : z[i] = e
  BY InRange, Zenon
<1>2. e \in Range(s) <=> \E i \in 1..Len(s) : s[i] = e
  BY InRange, Zenon
<1>3. Len(s) \in Nat
  OBVIOUS
<1>4. QED
  BY <1>1, <1>2, <1>3 DEF Extends

LEMMA ShiftedRange ==
  ASSUME NEW S, NEW td \in Seq(S), NEW ts \in Seq(S), td # <<>>, Shifts(td, ts), NEW e
  PROVE  e \in Range(td) <=> e = td[1] \/ e \in Range(ts)
<1>1. Len(td) \in Nat \ {0} /\ Len(ts) = Len(td) - 1 /\ \A i \in 1..Len(ts) : ts[i] = td[i + 1]
  BY DEF Shifts
<1>2. e \in Range(td) <=> \E i \in 1..Len(td) : td[i] = e
  BY InRange, Zenon
<1>3. e \in Range(ts) <=> \E i \in 1..Len(ts) : ts[i] = e
  BY InRange, Zenon
<1>4. ASSUME NEW i \in 1..Len(td), td[i] = e, i # 1
      PROVE  i - 1 \in 1..Len(ts) /\ ts[i - 1] = e
  BY <1>1, <1>4
<1>5. (\E i \in 1..Len(ts) : ts[i] = e) => \E i \in 1..Len(td) : td[i] = e
  BY <1>1
<1>6. 1 \in 1..Len(td)
  BY <1>1
<1>7. QED
  BY <1>2, <1>3, <1>4, <1>5, <1>6

LEMMA ShiftedOrder ==
  ASSUME NEW td, NEW ts, Len(td) \in Nat \ {0}, Shifts(td, ts), Ascending(td),
         NEW os, Len(os) \in Nat, Before(os, td)
  PROVE  Ascending(ts) /\ Before(os, ts)
<1>1. Len(td) \in Nat \ {0} /\ Len(ts) = Len(td) - 1 /\ \A i \in 1..Len(ts) : ts[i] = td[i + 1]
  BY DEF Shifts
<1>2. Ascending(ts)
  BY <1>1 DEF Ascending
<1>3. Before(os, ts)
  BY <1>1 DEF Before
<1>4. QED
  BY <1>2, <1>3

\* The next entry goes to the end of its table's buffer.
LEMMA BufferOrder ==
  ASSUME NEW td, NEW ts, Len(td) \in Nat \ {0}, Shifts(td, ts), Ascending(td),
         NEW bf, Len(bf) \in Nat, Ascending(bf), Before(bf, td),
         NEW bs, Extends(bf, td[1], bs)
  PROVE  Ascending(bs) /\ Before(bs, ts)
<1>1. Len(td) \in Nat \ {0} /\ Len(ts) = Len(td) - 1 /\ \A i \in 1..Len(ts) : ts[i] = td[i + 1]
  BY DEF Shifts
<1>2. /\ Len(bf) \in Nat /\ Len(bs) = Len(bf) + 1 /\ bs[Len(bf) + 1] = td[1]
      /\ \A i \in 1..Len(bf) : bs[i] = bf[i]
  BY DEF Extends
<1>3. \A i \in 1..Len(bf) : bf[i] < td[1]
  BY <1>1 DEF Before
<1>4. ASSUME NEW i \in 1..Len(bs), NEW j \in 1..Len(bs), i < j PROVE bs[i] < bs[j]
  <2>1. CASE j = Len(bs)
    BY <1>2, <1>3, <1>4, <2>1
  <2>2. CASE j # Len(bs)
    <3>1. i \in 1..Len(bf) /\ j \in 1..Len(bf) /\ i < j
      BY <1>2, <1>4, <2>2
    <3>2. bf[i] < bf[j]
      BY <3>1 DEF Ascending
    <3>3. QED
      BY <1>2, <3>1, <3>2
  <2>3. QED
    BY <2>1, <2>2
<1>5. ASSUME NEW i \in 1..Len(bs), NEW j \in 1..Len(ts) PROVE bs[i] < ts[j]
  <2>1. j + 1 \in 1..Len(td) /\ ts[j] = td[j + 1]
    BY <1>1, <1>5
  <2>2. CASE i = Len(bs)
    <3>1. td[1] < td[j + 1]
      BY <1>1, <2>1, <1>5 DEF Ascending
    <3>2. QED
      BY <1>2, <2>1, <2>2, <3>1
  <2>3. CASE i # Len(bs)
    <3>1. i \in 1..Len(bf)
      BY <1>2, <1>5, <2>3
    <3>2. bf[i] < td[j + 1]
      BY <2>1, <3>1 DEF Before
    <3>3. QED
      BY <1>2, <2>1, <3>1, <3>2
  <2>4. QED
    BY <2>2, <2>3
<1>6. QED
  BY <1>4, <1>5 DEF Ascending, Before

\* z is what is left of q without its first n elements, which are a.
Drops(q, n, z) ==
  /\ n \in 0..Len(q) /\ Len(z) = Len(q) - n
  /\ \A i \in 1..Len(z) : z[i] = q[i + n]
Fronts(q, n, a) == Len(a) = n /\ \A i \in 1..n : a[i] = q[i]

LEMMA DropOrder ==
  ASSUME NEW q, NEW n, NEW z, Len(q) \in Nat, Drops(q, n, z), Ascending(q)
  PROVE  Ascending(z) /\ \A os : Len(os) \in Nat /\ Before(q, os) => Before(z, os)
<1>1. /\ n \in Nat /\ n <= Len(q) /\ Len(z) = Len(q) - n
      /\ \A i \in 1..Len(z) : z[i] = q[i + n] /\ i + n \in 1..Len(q)
  BY DEF Drops
<1>2. Ascending(z)
  BY <1>1 DEF Ascending
<1>3. ASSUME NEW os, Len(os) \in Nat, Before(q, os) PROVE Before(z, os)
  BY <1>1, <1>3 DEF Before
<1>4. QED
  BY <1>2, <1>3

LEMMA DropRange ==
  ASSUME NEW S, NEW q \in Seq(S), NEW n, NEW z \in Seq(S), NEW a \in Seq(S),
         Drops(q, n, z), Fronts(q, n, a)
  PROVE  /\ \A e : e \in Range(q) <=> e \in Range(a) \/ e \in Range(z)
         /\ Ascending(q) /\ S \subseteq Nat => \A e \in Range(a) : e \notin Range(z)
<1>1. /\ Len(q) \in Nat /\ n \in Nat /\ n <= Len(q) /\ Len(z) = Len(q) - n
      /\ \A i \in 1..Len(z) : z[i] = q[i + n] /\ i + n \in 1..Len(q)
  BY DEF Drops
<1>2. Len(a) = n /\ \A i \in 1..n : a[i] = q[i] /\ i \in 1..Len(q)
  BY <1>1 DEF Fronts
<1>3. /\ \A e : e \in Range(q) <=> \E i \in 1..Len(q) : q[i] = e
      /\ \A e : e \in Range(z) <=> \E i \in 1..Len(z) : z[i] = e
      /\ \A e : e \in Range(a) <=> \E i \in 1..Len(a) : a[i] = e
  BY InRange, Zenon
<1>4. ASSUME NEW e PROVE e \in Range(q) <=> e \in Range(a) \/ e \in Range(z)
  <2>1. ASSUME NEW i \in 1..Len(q), q[i] = e, i > n
        PROVE  i - n \in 1..Len(z) /\ z[i - n] = e
    <3>1. i - n \in 1..Len(z) /\ (i - n) + n = i
      BY <1>1, <2>1
    <3>2. z[i - n] = q[(i - n) + n]
      BY <1>1, <3>1
    <3>3. QED
      BY <2>1, <3>1, <3>2
  <2>2. ASSUME NEW i \in 1..Len(q), q[i] = e, ~(i > n) PROVE i \in 1..Len(a) /\ a[i] = e
    BY <1>1, <1>2, <2>2
  <2>3. e \in Range(q) => e \in Range(a) \/ e \in Range(z)
    BY <1>3, <2>1, <2>2
  <2>4. e \in Range(a) => e \in Range(q)
    BY <1>2, <1>3
  <2>5. e \in Range(z) => e \in Range(q)
    BY <1>1, <1>3
  <2>6. QED
    BY <2>3, <2>4, <2>5
<1>5. ASSUME Ascending(q), S \subseteq Nat, NEW e \in Range(a), e \in Range(z) PROVE FALSE
  <2>1. PICK i \in 1..n : q[i] = e
    BY <1>2, <1>3, <1>5
  <2>a. PICK j \in 1..Len(z) : z[j] = e
    BY <1>3, <1>5, Zenon
  <2>2. q[j + n] = e
    BY <1>1, <2>a
  <2>3. i \in 1..Len(q) /\ j + n \in 1..Len(q) /\ i < j + n
    BY <1>1
  <2>4. q[i] < q[j + n]
    BY <1>5, <2>3 DEF Ascending
  <2>5. e \in Nat
    <3>1. q[i] \in S
      BY <2>3, ElementOfSeq
    <3>2. QED
      BY <1>5, <2>1, <3>1
  <2>6. QED
    BY <2>1, <2>2, <2>4, <2>5
<1>6. QED
  BY <1>4, <1>5

\* The handler after the next entry of its stream.
Received(r) ==
  LET e == Head(r.todo)
      got == IF e \in Foreign THEN r ELSE [r EXCEPT ![TableOf(e)] = Append(@, e)]
  IN [got EXCEPT !.at = IF Full(got) THEN "flush" ELSE "recv", !.todo = Tail(@)]

LEMMA HoldingFacts ==
  ASSUME NEW n \in Nat, NEW r \in Holding(n)
  PROVE  /\ r = [at |-> r.at, todo |-> r.todo, access |-> r.access, events |-> r.events]
         /\ r.at \in {"free", "recv", "flush", "last", "done", "failed", "rejected"}
         /\ r.todo \in Seq(1..n) /\ r.access \in Seq(Own(n, "access"))
         /\ r.events \in Seq(Own(n, "events"))
         /\ r.access \in Seq(1..n) /\ r.events \in Seq(1..n)
<1>1. /\ r.todo \in Seq(1..n) /\ r.access \in Seq(Own(n, "access"))
      /\ r.events \in Seq(Own(n, "events"))
      /\ r.at \in {"free", "recv", "flush", "last", "done", "failed", "rejected"}
      /\ r = [at |-> r.at, todo |-> r.todo, access |-> r.access, events |-> r.events]
  BY DEF Holding
<1>2. Own(n, "access") \subseteq 1..n /\ Own(n, "events") \subseteq 1..n
  BY DEF Own
<1>3. r.access \in Seq(1..n) /\ r.events \in Seq(1..n)
  BY <1>1, <1>2, LargerSeq, Zenon
<1>4. QED
  BY <1>1, <1>3

\* Received, field by field.
Fields(r, at, td, ac, ev) == r = [at |-> at, todo |-> td, access |-> ac, events |-> ev]
Reads(td, ac, ev, q) ==
  \E a \in {"flush", "recv"} : \E bc, bv :
    /\ q = [at |-> a, todo |-> Tail(td), access |-> bc, events |-> bv]
    /\ \/ Head(td) \in Foreign /\ bc = ac /\ bv = ev
       \/ /\ Head(td) \notin Foreign /\ TableOf(Head(td)) = "access"
          /\ bc = Append(ac, Head(td)) /\ bv = ev
       \/ /\ Head(td) \notin Foreign /\ TableOf(Head(td)) = "events"
          /\ bc = ac /\ bv = Append(ev, Head(td))

LEMMA ReceivedFields ==
  ASSUME NEW at, NEW td, NEW ac, NEW ev, NEW r, Fields(r, at, td, ac, ev)
  PROVE  Reads(td, ac, ev, Received(r))
<1>0. r = [at |-> at, todo |-> td, access |-> ac, events |-> ev]
  BY DEF Fields
<1> DEFINE e == Head(td)
           got == IF e \in Foreign THEN r ELSE [r EXCEPT ![TableOf(e)] = Append(@, e)]
<1>1. PICK a : a = IF Full(got) THEN "flush" ELSE "recv"
  OBVIOUS
<1>2. a \in {"flush", "recv"}
  BY <1>1
<1>3. Received(r) = [got EXCEPT !.at = a, !.todo = Tail(@)]
  BY <1>0, <1>1 DEF Received
<1>4. CASE e \in Foreign
  <2>1. Received(r) = [at |-> a, todo |-> Tail(td), access |-> ac, events |-> ev]
    BY <1>0, <1>3, <1>4
  <2>2. QED
    BY <1>2, <1>4, <2>1 DEF Reads
<1>5. CASE e \notin Foreign /\ TableOf(e) = "access"
  <2>a. got = [r EXCEPT !.access = Append(@, e)]
    BY <1>5, Zenon
  <2>b. got = [at |-> at, todo |-> td, access |-> Append(ac, e), events |-> ev]
    BY <1>0, <2>a
  <2>1. Received(r) = [at |-> a, todo |-> Tail(td), access |-> Append(ac, e), events |-> ev]
    BY <1>0, <1>3, <2>b
  <2>2. QED
    BY <1>2, <1>5, <2>1 DEF Reads
<1>6. CASE e \notin Foreign /\ TableOf(e) = "events"
  <2>a. got = [r EXCEPT !.events = Append(@, e)]
    BY <1>6, Zenon
  <2>b. got = [at |-> at, todo |-> td, access |-> ac, events |-> Append(ev, e)]
    BY <1>0, <2>a
  <2>1. Received(r) = [at |-> a, todo |-> Tail(td), access |-> ac, events |-> Append(ev, e)]
    BY <1>0, <1>3, <2>b
  <2>2. QED
    BY <1>2, <1>6, <2>1 DEF Reads
<1>7. QED
  BY <1>4, <1>5, <1>6 DEF TableOf

\* Reading an entry keeps the handler orderly, and loses none but a foreign one.
LEMMA ReceiveFacts ==
  ASSUME NEW n \in Nat, NEW r \in Holding(n), Orderly(r), r.todo # <<>>
  PROVE  /\ Received(r) \in Holding(n) /\ Orderly(Received(r))
         /\ Received(r).at \in {"flush", "recv"}
         /\ \A x : Carries(Received(r), x) => Carries(r, x)
         /\ \A x : Carries(r, x) => Carries(Received(r), x) \/ x \in Foreign
<1>1. PICK at, td, ac, ev :
        /\ r = [at |-> at, todo |-> td, access |-> ac, events |-> ev]
        /\ td \in Seq(1..n) /\ ac \in Seq(Own(n, "access")) /\ ev \in Seq(Own(n, "events"))
        /\ ac \in Seq(1..n) /\ ev \in Seq(1..n)
  BY HoldingFacts
<1>2. td # <<>>
  BY <1>1
<1>3. PICK ts : ts = Tail(td)
  OBVIOUS
<1>4. ts \in Seq(1..n) /\ Shifts(td, ts) /\ td[1] \in 1..n /\ Head(td) = td[1]
  BY <1>1, <1>2, <1>3, TailShifts, Zenon
<1>5. Len(td) \in Nat \ {0} /\ Len(ac) \in Nat /\ Len(ev) \in Nat
  BY <1>1, <1>2
<1>6. /\ Ascending(td) /\ Ascending(ac) /\ Ascending(ev)
      /\ Before(ac, td) /\ Before(ev, td)
  BY <1>1 DEF Orderly
<1>7. Ascending(ts) /\ Before(ac, ts) /\ Before(ev, ts)
  BY <1>4, <1>5, <1>6, ShiftedOrder, Zenon
<1>8. \A e : e \in Range(td) <=> e = td[1] \/ e \in Range(ts)
  BY <1>1, <1>2, <1>4, ShiftedRange, Zenon
<1>a. PICK a \in {"flush", "recv"} : \E bc, bv :
        /\ Received(r) = [at |-> a, todo |-> ts, access |-> bc, events |-> bv]
        /\ \/ td[1] \in Foreign /\ bc = ac /\ bv = ev
           \/ /\ td[1] \notin Foreign /\ TableOf(td[1]) = "access"
              /\ bc = Append(ac, td[1]) /\ bv = ev
           \/ /\ td[1] \notin Foreign /\ TableOf(td[1]) = "events"
              /\ bc = ac /\ bv = Append(ev, td[1])
  <2>1. Fields(r, at, td, ac, ev)
    BY <1>1 DEF Fields
  <2>2. Reads(td, ac, ev, Received(r))
    BY <2>1, ReceivedFields, Zenon
  <2>3. QED
    BY <1>3, <1>4, <2>2, Zenon DEF Reads
<1>9. PICK bc, bv :
        /\ Received(r) = [at |-> a, todo |-> ts, access |-> bc, events |-> bv]
        /\ \/ td[1] \in Foreign /\ bc = ac /\ bv = ev
           \/ /\ td[1] \notin Foreign /\ TableOf(td[1]) = "access"
              /\ bc = Append(ac, td[1]) /\ bv = ev
           \/ /\ td[1] \notin Foreign /\ TableOf(td[1]) = "events"
              /\ bc = ac /\ bv = Append(ev, td[1])
  BY <1>a, Zenon
<1> DEFINE Good ==
      /\ bc \in Seq(Own(n, "access")) /\ bv \in Seq(Own(n, "events"))
      /\ Ascending(bc) /\ Ascending(bv) /\ Before(bc, ts) /\ Before(bv, ts)
      /\ \A e : e \in Range(bc) => e \in Range(ac) \/ e = td[1]
      /\ \A e : e \in Range(bv) => e \in Range(ev) \/ e = td[1]
      /\ \A e : e \in Range(ac) => e \in Range(bc)
      /\ \A e : e \in Range(ev) => e \in Range(bv)
      /\ td[1] \in Foreign \/ td[1] \in Range(bc) \/ td[1] \in Range(bv)
<1>10. ASSUME td[1] \in Foreign /\ bc = ac /\ bv = ev
       PROVE  Good
  BY <1>1, <1>6, <1>7, <1>10, Zenon
<1>11. ASSUME td[1] \notin Foreign /\ TableOf(td[1]) = "access" /\ bc = Append(ac, td[1]) /\ bv = ev
       PROVE  Good
  <2>1. td[1] \in Own(n, "access")
    BY <1>4, <1>11 DEF Own
  <2>2. bc \in Seq(Own(n, "access")) /\ Extends(ac, td[1], bc)
    BY <1>1, <1>11, <2>1, AppendExtends, Zenon
  <2>3. Ascending(bc) /\ Before(bc, ts)
    BY <1>4, <1>5, <1>6, <2>2, BufferOrder, Zenon
  <2>4. \A e : e \in Range(bc) <=> e = td[1] \/ e \in Range(ac)
    BY <1>1, <2>2, ExtendedRange, Zenon
  <2>5. QED
    BY <1>1, <1>6, <1>7, <1>11, <2>2, <2>3, <2>4, Zenon
<1>12. ASSUME td[1] \notin Foreign /\ TableOf(td[1]) = "events" /\ bc = ac /\ bv = Append(ev, td[1])
       PROVE  Good
  <2>1. td[1] \in Own(n, "events")
    BY <1>4, <1>12 DEF Own
  <2>2. bv \in Seq(Own(n, "events")) /\ Extends(ev, td[1], bv)
    BY <1>1, <1>12, <2>1, AppendExtends, Zenon
  <2>3. Ascending(bv) /\ Before(bv, ts)
    BY <1>4, <1>5, <1>6, <2>2, BufferOrder, Zenon
  <2>4. \A e : e \in Range(bv) <=> e = td[1] \/ e \in Range(ev)
    BY <1>1, <2>2, ExtendedRange, Zenon
  <2>5. QED
    BY <1>1, <1>6, <1>7, <1>12, <2>2, <2>3, <2>4, Zenon
<1>13. Good
  BY <1>9, <1>10, <1>11, <1>12, Zenon
<1>14. PICK q : q = Received(r)
  OBVIOUS
<1>15. q.at = a /\ q.todo = ts /\ q.access = bc /\ q.events = bv
  BY <1>9, <1>14
<1>16. q \in Holding(n)
  BY <1>4, <1>9, <1>13, <1>14 DEF Holding
<1>17. Orderly(q)
  BY <1>7, <1>13, <1>15 DEF Orderly
<1>18. \A x : Carries(q, x) <=> x \in Range(ts) \/ x \in Range(bc) \/ x \in Range(bv)
  BY <1>15 DEF Carries
<1>19. \A x : Carries(r, x) <=> x \in Range(td) \/ x \in Range(ac) \/ x \in Range(ev)
  <2>1. r.todo = td /\ r.access = ac /\ r.events = ev
    BY <1>1
  <2>2. QED
    BY <2>1 DEF Carries
<1>20. QED
  BY <1>8, <1>13, <1>14, <1>15, <1>16, <1>17, <1>18, <1>19, Zenon

\* The handler after the next insert, and the rows of that insert.
Table(r) == IF r.access # <<>> THEN "access" ELSE "events"
Count(r) == Least(Chunk, Len(r[Table(r)]))
Chunked(r) == SubSeq(r[Table(r)], 1, Count(r))
Inserted(r) == Flushed([r EXCEPT ![Table(r)] = SubSeq(@, Count(r) + 1, Len(@))])

\* Inserted, field by field.
Ends(at, a, bc, bv) ==
  /\ a \in {at, "recv", "done"}
  /\ a = "done" => at # "flush" /\ bc = <<>> /\ bv = <<>>
Writes(at, td, ac, ev, k, q) ==
  \E a, bc, bv :
    /\ q = [at |-> a, todo |-> td, access |-> bc, events |-> bv] /\ Ends(at, a, bc, bv)
    /\ \/ ac # <<>> /\ bc = SubSeq(ac, k + 1, Len(ac)) /\ bv = ev
       \/ ac = <<>> /\ bc = ac /\ bv = SubSeq(ev, k + 1, Len(ev))

LEMMA FlushedFields ==
  ASSUME NEW at \in {"flush", "last"}, NEW td, NEW ac, NEW ev, NEW r, Fields(r, at, td, ac, ev)
  PROVE  \E a : Fields(Flushed(r), a, td, ac, ev) /\ Ends(at, a, ac, ev)
<1>1. r = [at |-> at, todo |-> td, access |-> ac, events |-> ev]
  BY DEF Fields
<1>2. CASE ac # <<>> \/ ev # <<>>
  <2>1. Flushed(r) = r
    BY <1>1, <1>2 DEF Flushed
  <2>2. QED
    BY <2>1 DEF Ends
<1>3. CASE ac = <<>> /\ ev = <<>>
  <2>1. PICK a : a = IF at = "flush" THEN "recv" ELSE "done"
    OBVIOUS
  <2>2. Flushed(r) = [r EXCEPT !.at = a]
    BY <1>1, <1>3, <2>1 DEF Flushed
  <2>3. Flushed(r) = [at |-> a, todo |-> td, access |-> ac, events |-> ev]
    BY <1>1, <2>2
  <2>4. Fields(Flushed(r), a, td, ac, ev)
    BY <2>3 DEF Fields
  <2>5. Ends(at, a, ac, ev)
    BY <1>3, <2>1 DEF Ends
  <2>6. QED
    BY <2>4, <2>5
<1>4. QED
  BY <1>2, <1>3

LEMMA InsertedFields ==
  ASSUME NEW at \in {"flush", "last"}, NEW td, NEW ac, NEW ev, NEW r, Fields(r, at, td, ac, ev)
  PROVE  Writes(at, td, ac, ev, Count(r), Inserted(r))
<1>1. r = [at |-> at, todo |-> td, access |-> ac, events |-> ev]
  BY DEF Fields
<1>2. PICK k : k = Count(r)
  OBVIOUS
<1>3. CASE ac # <<>>
  <2>1. Table(r) = "access"
    BY <1>1, <1>3 DEF Table
  <2>2. PICK bc : bc = SubSeq(ac, k + 1, Len(ac))
    OBVIOUS
  <2>3. PICK q : q = [r EXCEPT !.access = bc]
    OBVIOUS
  <2>4. Fields(q, at, td, bc, ev)
    BY <1>1, <2>3 DEF Fields
  <2>5. r.access = ac
    BY <1>1
  <2>6. Inserted(r) = Flushed(q)
    BY <1>2, <2>1, <2>2, <2>3, <2>5, Zenon DEF Inserted
  <2>7. PICK a : Fields(Flushed(q), a, td, bc, ev) /\ Ends(at, a, bc, ev)
    BY <2>4, FlushedFields, Zenon
  <2>8. QED
    BY <1>2, <1>3, <2>2, <2>6, <2>7, Zenon DEF Writes, Fields
<1>4. CASE ac = <<>>
  <2>1. Table(r) = "events"
    BY <1>1, <1>4 DEF Table
  <2>2. PICK bv : bv = SubSeq(ev, k + 1, Len(ev))
    OBVIOUS
  <2>3. PICK q : q = [r EXCEPT !.events = bv]
    OBVIOUS
  <2>4. Fields(q, at, td, ac, bv)
    BY <1>1, <2>3 DEF Fields
  <2>5. r.events = ev
    BY <1>1
  <2>6. Inserted(r) = Flushed(q)
    BY <1>2, <2>1, <2>2, <2>3, <2>5, Zenon DEF Inserted
  <2>7. PICK a : Fields(Flushed(q), a, td, ac, bv) /\ Ends(at, a, ac, bv)
    BY <2>4, FlushedFields, Zenon
  <2>8. QED
    BY <1>2, <1>4, <2>2, <2>6, <2>7, Zenon DEF Writes, Fields
<1>5. QED
  BY <1>3, <1>4

LEMMA SeqRange ==
  ASSUME NEW S, NEW s \in Seq(S)
  PROVE  Range(s) \subseteq S
<1>1. ASSUME NEW e \in Range(s) PROVE e \in S
  <2>1. PICK i \in 1..Len(s) : s[i] = e
    BY InRange, Zenon
  <2>2. QED
    BY <2>1, ElementOfSeq, Zenon
<1>2. QED
  BY <1>1

\* A buffer is cut into the rows of an insert and what is left of it.
Cut(S, td, bf) == /\ bf \in Seq(S) /\ S \subseteq 1..MaxLog /\ Ascending(bf)
                  /\ \E T : td \in Seq(T)
                  /\ Before(bf, td)
Cuts(bf, k, z, bs) ==
  /\ k = Least(Chunk, Len(bf)) /\ z = SubSeq(bf, 1, k) /\ bs = SubSeq(bf, k + 1, Len(bf))
Halves(S, td, bf, z, bs) ==
  /\ bs \in Seq(S) /\ Ascending(bs) /\ Before(bs, td) /\ Range(z) \subseteq S
  /\ \A e : e \in Range(bf) <=> e \in Range(z) \/ e \in Range(bs)
  /\ \A e \in Range(z) : e \notin Range(bs) /\ e \notin Range(td)

LEMMA CutFacts ==
  ASSUME NEW S, NEW td, NEW bf, NEW k, NEW z, NEW bs, Cut(S, td, bf), Cuts(bf, k, z, bs)
  PROVE  Halves(S, td, bf, z, bs)
<1>1. bf \in Seq(S) /\ S \subseteq Nat /\ Ascending(bf) /\ Before(bf, td)
  BY LogAssumption DEF Cut
<1>2. PICK T : td \in Seq(T)
  BY Zenon DEF Cut
<1>3. Len(bf) \in Nat /\ Len(td) \in Nat /\ Chunk \in Nat
  BY <1>1, <1>2, LogAssumption
<1>4. k \in 0..Len(bf)
  BY <1>3 DEF Least, Cuts
<1>5. bs \in Seq(S) /\ Drops(bf, k, bs)
  BY <1>1, <1>4, RestFacts, SMTT(60) DEF Drops, Cuts
<1>6. z \in Seq(S) /\ Fronts(bf, k, z)
  BY <1>1, <1>4, FrontFacts DEF Fronts, Cuts
<1>7. Ascending(bs) /\ Before(bs, td)
  BY <1>1, <1>3, <1>5, DropOrder, Zenon
<1>8. /\ \A e : e \in Range(bf) <=> e \in Range(z) \/ e \in Range(bs)
      /\ \A e \in Range(z) : e \notin Range(bs)
  BY <1>1, <1>5, <1>6, DropRange, ZenonT(60)
<1>9. Range(z) \subseteq S
  BY <1>6, SeqRange, Zenon
<1>10. ASSUME NEW e \in Range(z), e \in Range(td) PROVE FALSE
  <2>1. e \in Range(bf)
    BY <1>8, Zenon
  <2>2. PICK i \in 1..Len(bf) : bf[i] = e
    BY <1>1, <2>1, InRange, Zenon
  <2>3. PICK j \in 1..Len(td) : td[j] = e
    BY <1>2, <1>10, InRange, Zenon
  <2>4. bf[i] < td[j]
    BY <1>1 DEF Before
  <2>5. e \in Nat
    BY <1>1, <1>9
  <2>6. QED
    BY <2>2, <2>3, <2>4, <2>5
<1>11. QED
  BY <1>5, <1>7, <1>8, <1>9, <1>10, Zenon DEF Halves

\* An insert's rows are its table's, and of entries that the handler had and has
\* no longer.
LEMMA InsertFacts ==
  ASSUME NEW n \in Nat, n <= MaxLog, NEW r \in Holding(n), Orderly(r),
         r.at \in {"flush", "last"}
  PROVE  /\ Inserted(r) \in Holding(n) /\ Orderly(Inserted(r))
         /\ Inserted(r).at \in {"flush", "last", "recv", "done"}
         /\ Table(r) \in Tables /\ Range(Chunked(r)) \subseteq Own(n, Table(r))
         /\ \A x : Carries(r, x) <=> Carries(Inserted(r), x) \/ x \in Range(Chunked(r))
         /\ \A x \in Range(Chunked(r)) : ~Carries(Inserted(r), x)
<1>1. PICK at, td, ac, ev :
        /\ r = [at |-> at, todo |-> td, access |-> ac, events |-> ev]
        /\ td \in Seq(1..n) /\ ac \in Seq(Own(n, "access")) /\ ev \in Seq(Own(n, "events"))
        /\ ac \in Seq(1..n) /\ ev \in Seq(1..n)
  BY HoldingFacts
<1>2. at \in {"flush", "last"}
  BY <1>1
<1>3. Fields(r, at, td, ac, ev)
  BY <1>1 DEF Fields
<1>4. PICK k : k = Count(r)
  OBVIOUS
<1>5. PICK a, bc, bv :
        /\ Inserted(r) = [at |-> a, todo |-> td, access |-> bc, events |-> bv]
        /\ Ends(at, a, bc, bv)
        /\ \/ ac # <<>> /\ bc = SubSeq(ac, k + 1, Len(ac)) /\ bv = ev
           \/ ac = <<>> /\ bc = ac /\ bv = SubSeq(ev, k + 1, Len(ev))
  <2>1. Writes(at, td, ac, ev, k, Inserted(r))
    BY <1>2, <1>3, <1>4, InsertedFields, Zenon
  <2>2. QED
    BY <2>1, Zenon DEF Writes
<1>6. /\ Ascending(td) /\ Ascending(ac) /\ Ascending(ev)
      /\ Before(ac, td) /\ Before(ev, td) /\ (at = "last" => td = <<>>)
  BY <1>1 DEF Orderly
<1>7. Len(td) \in Nat /\ Len(ac) \in Nat /\ Len(ev) \in Nat /\ Chunk \in Nat
  BY <1>1, LogAssumption
<1>8. PICK z : z = Chunked(r)
  OBVIOUS
<1> DEFINE Good ==
      /\ bc \in Seq(Own(n, "access")) /\ bv \in Seq(Own(n, "events"))
      /\ Ascending(bc) /\ Ascending(bv) /\ Before(bc, td) /\ Before(bv, td)
      /\ Table(r) \in Tables /\ Range(z) \subseteq Own(n, Table(r))
      /\ \A e : e \in Range(ac) \/ e \in Range(ev) <=>
                e \in Range(bc) \/ e \in Range(bv) \/ e \in Range(z)
      /\ \A e \in Range(z) : e \notin Range(bc) /\ e \notin Range(bv) /\ e \notin Range(td)
<1>9. Cut(Own(n, "access"), td, ac) /\ Cut(Own(n, "events"), td, ev)
  <2>1. Own(n, "access") \subseteq 1..MaxLog /\ Own(n, "events") \subseteq 1..MaxLog
    BY LogAssumption DEF Own
  <2>2. QED
    BY <1>1, <1>6, <2>1, Zenon DEF Cut
<1>10. \A e : ~(e \in Range(ac) /\ e \in Range(ev))
  <2>1. Range(ac) \subseteq Own(n, "access") /\ Range(ev) \subseteq Own(n, "events")
    BY <1>1, SeqRange, Zenon
  <2>2. QED
    BY <2>1 DEF Own
<1>11. ASSUME ac # <<>>, bc = SubSeq(ac, k + 1, Len(ac)), bv = ev
       PROVE  Good
  <2>1. Table(r) = "access" /\ r.access = ac
    BY <1>1, <1>11 DEF Table
  <2>2. k = Least(Chunk, Len(ac)) /\ z = SubSeq(ac, 1, k)
    BY <1>4, <1>8, <2>1, Zenon DEF Count, Chunked
  <2>3. "access" \in Tables
    BY DEF Tables
  <2>4. /\ bc \in Seq(Own(n, "access")) /\ Ascending(bc) /\ Before(bc, td)
        /\ Range(z) \subseteq Own(n, "access")
        /\ \A e : e \in Range(ac) <=> e \in Range(z) \/ e \in Range(bc)
        /\ \A e \in Range(z) : e \notin Range(bc) /\ e \notin Range(td)
    <3>1. Cuts(ac, k, z, bc)
      BY <1>11, <2>2, Zenon DEF Cuts
    <3>2. Halves(Own(n, "access"), td, ac, z, bc)
      BY <1>9, <3>1, CutFacts, Zenon
    <3>3. QED
      BY <3>2, Zenon DEF Halves
  <2>5. QED
    BY <1>1, <1>6, <1>10, <1>11, <2>1, <2>3, <2>4, Zenon
<1>12. ASSUME ac = <<>>, bc = ac, bv = SubSeq(ev, k + 1, Len(ev))
       PROVE  Good
  <2>1. Table(r) = "events" /\ r.events = ev
    BY <1>1, <1>12 DEF Table
  <2>2. k = Least(Chunk, Len(ev)) /\ z = SubSeq(ev, 1, k)
    BY <1>4, <1>8, <2>1, Zenon DEF Count, Chunked
  <2>3. "events" \in Tables
    BY DEF Tables
  <2>4. /\ bv \in Seq(Own(n, "events")) /\ Ascending(bv) /\ Before(bv, td)
        /\ Range(z) \subseteq Own(n, "events")
        /\ \A e : e \in Range(ev) <=> e \in Range(z) \/ e \in Range(bv)
        /\ \A e \in Range(z) : e \notin Range(bv) /\ e \notin Range(td)
    <3>1. Cuts(ev, k, z, bv)
      BY <1>12, <2>2, Zenon DEF Cuts
    <3>2. Halves(Own(n, "events"), td, ev, z, bv)
      BY <1>9, <3>1, CutFacts, Zenon
    <3>3. QED
      BY <3>2, Zenon DEF Halves
  <2>5. QED
    BY <1>1, <1>6, <1>10, <1>12, <2>1, <2>3, <2>4, Zenon
<1>13. Good
  BY <1>5, <1>11, <1>12, Zenon
<1>14. PICK q : q = Inserted(r)
  OBVIOUS
<1>15. q.at = a /\ q.todo = td /\ q.access = bc /\ q.events = bv
  BY <1>5, <1>14
<1>16. a \in {"flush", "last", "recv", "done"} /\ (a \in {"last", "done"} => at = "last")
       /\ (a = "done" => bc = <<>> /\ bv = <<>>)
  BY <1>2, <1>5 DEF Ends
<1>17. q \in Holding(n)
  BY <1>1, <1>5, <1>13, <1>14, <1>16 DEF Holding
<1>18. Orderly(q)
  BY <1>6, <1>13, <1>15, <1>16 DEF Orderly
<1>19. \A x : Carries(q, x) <=> x \in Range(td) \/ x \in Range(bc) \/ x \in Range(bv)
  BY <1>15 DEF Carries
<1>20. \A x : Carries(r, x) <=> x \in Range(td) \/ x \in Range(ac) \/ x \in Range(ev)
  <2>1. r.todo = td /\ r.access = ac /\ r.events = ev
    BY <1>1
  <2>2. QED
    BY <2>1 DEF Carries
<1>21. q.at \in {"flush", "last", "recv", "done"}
  BY <1>15, <1>16
<1>22. QED
  BY <1>8, <1>13, <1>14, <1>17, <1>18, <1>19, <1>20, <1>21, Zenon

-----------------------------------------------------------------------------
(* Log shipping: what waits *)

\* w is p and then c; v is w without its first n elements.
Cat(p, c, w) == w = p \o c
Suffix(w, n, v) == v = SubSeq(w, n + 1, Len(w))

\* Without its first n elements, p is z; then so is p \o c, with c after it.
LEMMA JoinDrop ==
  ASSUME NEW S, NEW p \in Seq(S), NEW c \in Seq(S), NEW n, NEW z \in Seq(S), Drops(p, n, z),
         NEW w \in Seq(S), NEW v \in Seq(S), Cat(p, c, w), Cat(z, c, v)
  PROVE  Drops(w, n, v) /\ Suffix(w, n, v)
<1>1. /\ Len(p) \in Nat /\ Len(c) \in Nat /\ n \in Nat /\ n <= Len(p) /\ Len(z) = Len(p) - n
      /\ \A i \in 1..Len(z) : z[i] = p[i + n]
  BY DEF Drops
<1>2. w = p \o c
  BY DEF Cat
<1>3. v = z \o c
  BY DEF Cat
<1>4. /\ Len(w) = Len(p) + Len(c)
      /\ \A i \in 1..Len(p) + Len(c) : w[i] = IF i <= Len(p) THEN p[i] ELSE c[i - Len(p)]
  BY <1>2, ConcatProperties, Zenon
<1>5. /\ Len(v) = Len(z) + Len(c)
      /\ \A i \in 1..Len(z) + Len(c) : v[i] = IF i <= Len(z) THEN z[i] ELSE c[i - Len(z)]
  BY <1>3, ConcatProperties, Zenon
<1>6. n \in 0..Len(w) /\ Len(v) = Len(w) - n
  BY <1>1, <1>4, <1>5
<1>7. ASSUME NEW i \in 1..Len(v) PROVE v[i] = w[i + n]
  <2>1. i + n \in 1..Len(p) + Len(c) /\ i \in 1..Len(z) + Len(c)
    BY <1>1, <1>4, <1>5, <1>7
  <2>2. CASE i <= Len(z)
    BY <1>1, <1>4, <1>5, <2>1, <2>2
  <2>3. CASE ~(i <= Len(z))
    <3>1. ~(i + n <= Len(p)) /\ (i + n) - Len(p) = i - Len(z)
      BY <1>1, <2>1, <2>3
    <3>2. QED
      BY <1>4, <1>5, <2>1, <2>3, <3>1
  <2>4. QED
    BY <2>2, <2>3
<1>8. Drops(w, n, v)
  BY <1>6, <1>7 DEF Drops
<1>9. PICK u : u = SubSeq(w, n + 1, Len(w))
  OBVIOUS
<1>10. u \in Seq(S) /\ Len(u) = Len(w) - n /\ \A i \in 1..Len(w) - n : u[i] = w[i + n]
  BY <1>6, <1>9, RestFacts
<1>11. Len(v) = Len(u) /\ \A i \in 1..Len(v) : v[i] = u[i]
  BY <1>6, <1>7, <1>10
<1>12. v = u
  BY <1>10, <1>11, SeqEqual, Zenon
<1>13. QED
  BY <1>8, <1>9, <1>12, Zenon DEF Suffix

LEMMA JoinAppend ==
  ASSUME NEW S, NEW p \in Seq(S), NEW c \in Seq(S), NEW x \in S
  PROVE  p \o Append(c, x) = Append(p \o c, x)
<1>1. p \o c \in Seq(S) /\ <<x>> \in Seq(S)
  BY ConcatProperties
<1>2. Append(c, x) = c \o <<x>> /\ Append(p \o c, x) = (p \o c) \o <<x>>
  BY <1>1, AppendIsConcat, Zenon
<1>3. PICK y \in Seq(S) : y = <<x>>
  BY <1>1
<1>4. (p \o c) \o y = p \o (c \o y)
  BY ConcatAssociative
<1>5. QED
  BY <1>2, <1>3, <1>4, Zenon

\* A front of an ascending sequence ascends.
LEMMA JoinOrder ==
  ASSUME NEW S, NEW p \in Seq(S), NEW c \in Seq(S), Ascending(p \o c)
  PROVE  Ascending(p)
<1>1. PICK w \in Seq(S) : w = p \o c
  BY ConcatProperties, Zenon
<1>2. /\ Len(w) = Len(p) + Len(c) /\ Len(p) \in Nat /\ Len(c) \in Nat
      /\ \A i \in 1..Len(p) + Len(c) : w[i] = IF i <= Len(p) THEN p[i] ELSE c[i - Len(p)]
  <2>1. Len(p) \in Nat /\ Len(c) \in Nat
    OBVIOUS
  <2>2. QED
    BY <1>1, <2>1, ConcatProperties, Zenon
<1>3. ASSUME NEW i \in 1..Len(p), NEW j \in 1..Len(p), i < j PROVE p[i] < p[j]
  <2>1. i \in 1..Len(w) /\ j \in 1..Len(w) /\ w[i] = p[i] /\ w[j] = p[j]
    BY <1>2, <1>3
  <2>2. w[i] < w[j]
    BY <1>1, <1>3, <2>1 DEF Ascending
  <2>3. QED
    BY <2>1, <2>2
<1>4. QED
  BY <1>3 DEF Ascending

-----------------------------------------------------------------------------
(* Log shipping: the kinds of steps *)

\* What waits was sent, is in order, and was not given up.
QueueInv ==
  /\ Waiting \in Seq(1..sent) /\ Ascending(Waiting)
  /\ \A e \in Range(Waiting) : e \notin dropped

OrderInv == \A h \in Handlers : Orderly(handlers[h])

BaseInv == ShipTypes /\ PhaseInv /\ LengthInv /\ QueueInv /\ OrderInv

\* A step of the loop, a registration or a command: the shipper's data stay.
Still ==
  /\ sent' = sent /\ channel' = channel /\ batch' = batch /\ wire' = wire
  /\ call' = call /\ handlers' = handlers /\ copies' = copies /\ faults' = faults
  /\ dropped' = dropped /\ fails' = fails
  /\ step' \in Steps /\ after' \in Afters /\ notified' \in BOOLEAN /\ shutdown' \in BOOLEAN
  /\ (step' = "off" <=> pc' # "session") /\ (step' = "off" => step = "off")
  /\ (step' = "call" => step = "call" /\ after' = after) /\ (step = "call" => step' = "call")

HandlerStep(h) ==
  \/ HandlerReceives(h) \/ HandlerInserts(h)
  \/ HandlerFails(h) \/ HandlerAborts(h) \/ HandlerDropped(h)

LEMMA StepKinds ==
  ASSUME ShipTypes, PhaseInv, [LogNext]_allVars
  PROVE  \/ Still \/ SendLog \/ Ship \/ CallReturns \/ CallLost
         \/ \E h \in Handlers : HandlerStep(h)
         \/ SessionEnds /\ ShipperDropped
<1>0. /\ step \in Steps /\ after \in Afters /\ notified \in BOOLEAN /\ shutdown \in BOOLEAN
      /\ (step = "off" <=> pc # "session")
  BY Zenon DEF ShipTypes, PhaseInv
<1>1. ASSUME UNCHANGED log,
             pc' = pc \/ (pc # "session" /\ pc' # "session"), shutdown' \in BOOLEAN
      PROVE  Still
  <2>1. /\ sent' = sent /\ channel' = channel /\ batch' = batch /\ wire' = wire
        /\ call' = call /\ handlers' = handlers /\ copies' = copies /\ faults' = faults
        /\ dropped' = dropped /\ fails' = fails /\ step' = step /\ after' = after
        /\ notified' = notified
    BY <1>1, Zenon DEF log, agent, server
  <2>2. QED
    BY <1>0, <1>1, <2>1, Zenon DEF Still
<1>2. CASE UNCHANGED allVars
  <2>1. UNCHANGED log /\ pc' = pc /\ shutdown' = shutdown
    BY <1>2 DEF allVars, vars
  <2>2. QED
    BY <1>0, <1>1, <2>1, Zenon
<1>3. CASE (Top \/ AttemptFails \/ WaitInterrupted \/ WaitElapses \/ Shutdown) /\ UNCHANGED log
  <2>1. pc' = pc \/ (pc # "session" /\ pc' # "session")
    BY <1>3 DEF Top, AttemptFails, WaitInterrupted, WaitElapses, Shutdown
  <2>2. shutdown' = shutdown \/ shutdown' = TRUE
    BY <1>3 DEF Top, AttemptFails, WaitInterrupted, WaitElapses, Shutdown
  <2>3. QED
    BY <1>0, <1>1, <1>3, <2>1, <2>2, Zenon
<1>4. CASE Stopped /\ UNCHANGED log
  <2>1. pc' = pc /\ shutdown' = shutdown
    BY <1>4 DEF Stopped, vars
  <2>2. QED
    BY <1>0, <1>1, <1>4, <2>1, Zenon
<1>5. CASE LogsRegistered
  <2>1. /\ sent' = sent /\ channel' = channel /\ batch' = batch /\ wire' = wire
        /\ call' = call /\ handlers' = handlers /\ copies' = copies /\ faults' = faults
        /\ dropped' = dropped /\ fails' = fails /\ after' = after
        /\ notified' = notified /\ shutdown' = shutdown /\ pc = "attempt" /\ pc' = "session"
    BY <1>5 DEF LogsRegistered, server, Registered
  <2>2. step' = "top" \/ step' = "select"
    BY <1>5 DEF LogsRegistered, Loop
  <2>3. step = "off"
    BY <1>0, <2>1
  <2>4. step' \in Steps /\ step' # "off" /\ step' # "call" /\ step # "call"
    BY <2>2, <2>3 DEF Steps
  <2>5. QED
    BY <1>0, <2>1, <2>4, Zenon DEF Still
<1>6. CASE FlushCommand
  <2>1. /\ sent' = sent /\ channel' = channel /\ batch' = batch /\ wire' = wire
        /\ call' = call /\ handlers' = handlers /\ copies' = copies /\ faults' = faults
        /\ dropped' = dropped /\ fails' = fails /\ after' = after /\ step' = step
        /\ notified' = TRUE /\ shutdown' = shutdown /\ pc' = pc
    BY <1>6 DEF FlushCommand, server, vars
  <2>2. QED
    BY <1>0, <2>1, Zenon DEF Still
<1>7. CASE LogsSessionEnds \/ LogsSessionInterrupted
  BY <1>7 DEF LogsSessionEnds, LogsSessionInterrupted, SessionInterrupted
<1>8. QED
  BY <1>2, <1>3, <1>4, <1>5, <1>6, <1>7 DEF LogNext, HandlerStep, Serve

\* Handlers are left alone or freed.
Frees ==
  /\ handlers' \in [Handlers -> Holding(sent)]
  /\ \A h \in Handlers : handlers'[h] = handlers[h] \/ handlers'[h] = Free

LEMMA ReleaseFrees == ShipTypes /\ Release => Frees
<1> SUFFICES ASSUME ShipTypes, Release PROVE Frees
  OBVIOUS
<1>1. handlers \in [Handlers -> Holding(sent)] /\ sent \in Nat
  BY LogAssumption DEF ShipTypes
<1>2. Free \in Holding(sent)
  BY <1>1, HandlerFacts
<1>3. handlers' = [handlers EXCEPT ![call] = Free]
  BY DEF Release
<1>4. QED
  BY <1>1, <1>2, <1>3 DEF Frees

LEMMA HangupFrees == ShipTypes /\ Hangup => Frees
<1> SUFFICES ASSUME ShipTypes, Hangup PROVE Frees
  OBVIOUS
<1>1. handlers \in [Handlers -> Holding(sent)] /\ sent \in Nat
  BY LogAssumption DEF ShipTypes
<1>2. Free \in Holding(sent)
  BY <1>1, HandlerFacts
<1>3. handlers' = [h \in Handlers |-> IF h = call /\ handlers[h].at \in Over
                                      THEN Free ELSE handlers[h]]
  BY DEF Hangup
<1>4. QED
  BY <1>1, <1>2, <1>3 DEF Frees

\* The end of a call: of its entries, the first n leave and the others are the
\* batch again; those that leave have been stored, or are given up.
EndsCall(n, kept, gone) ==
  /\ n \in 0..Len(wire) /\ kept \in Seq(1..sent) /\ Drops(wire, n, kept)
  /\ Len(kept) <= BatchSize
  /\ step = "call" /\ step' \in {"top", "select", "drain", "stop"} /\ after' = "off"
  /\ batch' = kept /\ wire' = <<>> /\ call' = 0 /\ dropped' = dropped \cup gone
  /\ pc' = pc /\ shutdown' = shutdown /\ sent' = sent /\ channel' = channel
  /\ notified' = notified /\ copies' = copies /\ faults' \in 0..MaxFault /\ Frees
  /\ \/ handlers[call].at = "done" /\ n = Len(wire) /\ gone = {} /\ fails' = fails
     \/ gone = Range(wire) \ Range(kept) /\ fails' = Failing(Range(wire))

LEMMA CallFacts ==
  ASSUME ShipTypes, PhaseInv, CallReturns \/ CallLost
  PROVE  \E n, kept, gone : EndsCall(n, kept, gone)
<1>0. /\ wire \in Seq(1..sent) /\ Len(wire) \in Nat /\ BatchSize \in Nat /\ MaxFault \in Nat
      /\ faults \in 0..MaxFault
  BY LogAssumption DEF ShipTypes
<1>1. ASSUME NEW b, NEW g, CallEnds(b, g)
      PROVE  /\ step = "call" /\ step' \in {"top", "select", "drain", "stop"} /\ after' = "off"
             /\ batch' = b /\ wire' = <<>> /\ call' = 0 /\ dropped' = dropped \cup g
             /\ pc' = pc /\ shutdown' = shutdown /\ sent' = sent /\ channel' = channel
             /\ notified' = notified /\ copies' = copies
  <2>1. after \in {"loop", "drain", "stop"}
    BY <1>1 DEF CallEnds, PhaseInv, ShipTypes, Afters
  <2>2. step' \in {"top", "select", "drain", "stop"}
    BY <1>1, <2>1 DEF CallEnds, Loop
  <2>3. pc' = pc /\ shutdown' = shutdown
    BY <1>1 DEF CallEnds, vars
  <2>4. QED
    BY <1>1, <2>2, <2>3 DEF CallEnds
<1>2. /\ <<>> \in Seq(1..sent) /\ Len(<<>>) <= BatchSize /\ Drops(wire, Len(wire), <<>>)
      /\ Len(wire) \in 0..Len(wire) /\ Range(<<>>) = {}
  <2>1. <<>> \in Seq(1..sent) /\ Len(<<>>) <= BatchSize /\ Len(wire) \in 0..Len(wire)
    BY <1>0
  <2>2. Drops(wire, Len(wire), <<>>)
    BY <1>0 DEF Drops
  <2>3. Range(<<>>) = {}
    BY DEF Range
  <2>4. QED
    BY <2>1, <2>2, <2>3
<1>3. CASE CallAccepted
  <2>1. /\ handlers[call].at = "done" /\ Release /\ CallEnds(<<>>, {}) /\ faults' = faults
        /\ fails' = fails
    BY <1>3 DEF CallAccepted, Answered
  <2>2. Frees
    BY <2>1, ReleaseFrees
  <2>3. EndsCall(Len(wire), <<>>, {})
    BY <1>0, <1>1, <1>2, <2>1, <2>2, Zenon DEF EndsCall
  <2>4. QED
    BY <2>3
<1>4. CASE CallRejected
  <2>1. /\ Release /\ CallEnds(<<>>, Range(wire)) /\ faults' = faults
        /\ fails' = Failing(Range(wire))
    BY <1>4 DEF CallRejected, Answered
  <2>2. Frees
    BY <2>1, ReleaseFrees
  <2>3. Range(wire) = Range(wire) \ Range(<<>>)
    BY <1>2
  <2>4. EndsCall(Len(wire), <<>>, Range(wire))
    BY <1>0, <1>1, <1>2, <2>1, <2>2, <2>3, Zenon DEF EndsCall
  <2>5. QED
    BY <2>4
<1>5. ASSUME CallFails, Frees, faults' \in 0..MaxFault
      PROVE  \E n, kept, gone : EndsCall(n, kept, gone)
  <2>1. PICK n : n = Len(wire) - Least(BatchSize, Len(wire))
    OBVIOUS
  <2>2. n \in 0..Len(wire) /\ Len(wire) - n <= BatchSize
    BY <1>0, <2>1 DEF Least
  <2>3. PICK kept : kept = RestoreFailedBatch(wire)
    OBVIOUS
  <2>4. kept = SubSeq(wire, n + 1, Len(wire))
    BY <2>1, <2>3, Zenon DEF RestoreFailedBatch
  <2>5. /\ kept \in Seq(1..sent) /\ Len(kept) = Len(wire) - n
        /\ \A i \in 1..Len(wire) - n : kept[i] = wire[i + n]
    BY <1>0, <2>2, <2>4, RestFacts
  <2>6. Drops(wire, n, kept) /\ Len(kept) <= BatchSize
    BY <2>2, <2>5 DEF Drops
  <2>7. CallEnds(kept, Range(wire) \ Range(kept)) /\ fails' = Failing(Range(wire))
    BY <1>5, <2>3, Zenon DEF CallFails
  <2>8. EndsCall(n, kept, Range(wire) \ Range(kept))
    BY <1>1, <1>5, <2>2, <2>5, <2>6, <2>7, Zenon DEF EndsCall
  <2>9. QED
    BY <2>8
<1>6. CASE CallRefused
  <2>1. CallFails /\ Frees /\ faults' = faults
    BY <1>6, ReleaseFrees DEF CallRefused
  <2>2. QED
    BY <1>0, <1>5, <2>1, Zenon
<1>7. CASE CallLost
  <2>1. CallFails /\ Frees /\ faults' = faults + 1 /\ faults < MaxFault
    BY <1>7, HangupFrees DEF CallLost
  <2>2. faults' \in 0..MaxFault
    BY <1>0, <2>1
  <2>3. QED
    BY <1>5, <2>1, <2>2, Zenon
<1>8. QED
  BY <1>3, <1>4, <1>6, <1>7 DEF CallReturns

\* The end of a session.
EndsSession ==
  /\ pc = "session" /\ pc' = "wait" /\ shutdown' = shutdown
  /\ step' = "off" /\ after' = "off" /\ batch' = <<>> /\ wire' = <<>> /\ call' = 0
  /\ dropped' = dropped \cup Range(wire) \cup Range(batch)
  /\ fails' = Failing(Range(wire)) /\ Frees
  /\ sent' = sent /\ channel' = channel /\ notified' = notified /\ copies' = copies
  /\ faults' = faults

LEMMA SessionFacts == ShipTypes /\ SessionEnds /\ ShipperDropped => EndsSession
BY HangupFrees DEF SessionEnds, ShipperDropped, EndsSession

\* A handler without entries.
LEMMA FreeFacts ==
  ASSUME NEW a \in {"free", "failed", "rejected"}, NEW r, r = [Free EXCEPT !.at = a]
  PROVE  /\ r.at = a /\ Orderly(r) /\ \A e : ~Carries(r, e)
         /\ \A n \in Nat : r \in Holding(n)
         /\ (a = "free" => r = Free)
<1>1. /\ r = [at |-> a, todo |-> <<>>, access |-> <<>>, events |-> <<>>]
  BY DEF Free
<1>2. Orderly(r)
  BY <1>1 DEF Orderly, Ascending, Before
<1>3. \A e : ~Carries(r, e)
  <2>1. Range(<<>>) = {}
    BY DEF Range
  <2>2. QED
    BY <1>1, <2>1 DEF Carries
<1>4. ASSUME NEW n \in Nat PROVE r \in Holding(n)
  <2>1. /\ Free \in Holding(n)
        /\ \A x \in {"failed", "rejected"} : [Free EXCEPT !.at = x] \in Holding(n)
    BY HandlerFacts, Zenon
  <2>2. a = "free" => r = Free
    BY <1>1 DEF Free
  <2>3. QED
    BY <2>1, <2>2, Zenon
<1>5. QED
  BY <1>1, <1>2, <1>3, <1>4 DEF Free

LEMMA FreeIs == Orderly(Free) /\ (\A e : ~Carries(Free, e)) /\ \A n \in Nat : Free \in Holding(n)
<1>1. Free = [Free EXCEPT !.at = "free"] /\ "free" \in {"free", "failed", "rejected"}
  BY DEF Free
<1>2. QED
  BY <1>1, FreeFacts, Zenon

\* A step of handler h, which becomes q: it loses, reads or inserts entries, and
\* S are those that it inserts in table t.
Live == {"recv", "flush", "last", "done"}
Works(h, q, S, t) ==
  /\ handlers' = [handlers EXCEPT ![h] = q] /\ (h = call => q.at # "free")
  /\ q \in Holding(sent) /\ Orderly(q)
  /\ \A e : Carries(q, e) => Carries(handlers[h], e)
  /\ S \subseteq Own(sent, t) /\ t \in Tables
  /\ \A e \in S : Carries(handlers[h], e) /\ ~Carries(q, e)
  /\ h = call /\ q.at \in Live =>
       /\ handlers[h].at \in Live
       /\ \A e : Carries(handlers[h], e) => Carries(q, e) \/ e \in S \/ e \in Foreign
Rest ==
  /\ pc' = pc /\ shutdown' = shutdown /\ sent' = sent /\ channel' = channel /\ step' = step
  /\ batch' = batch /\ wire' = wire /\ after' = after /\ notified' = notified /\ call' = call
  /\ dropped' = dropped /\ fails' = fails /\ faults' \in 0..MaxFault
Adds(S, t) ==
  /\ copies' \in [Tables -> [Entries -> Nat]]
  /\ \A u \in Tables, e \in Entries :
       copies'[u][e] = copies[u][e] + IF u = t /\ e \in S THEN 1 ELSE 0

\* The same of r, which is freed if nobody waits for its answer.
Goes(h, r, S, t) ==
  /\ r \in Holding(sent) /\ Orderly(r) /\ (r.at # "free" \/ (r = Free /\ h # call))
  /\ S \subseteq Own(sent, t) /\ t \in Tables
  /\ \A e : Carries(r, e) => Carries(handlers[h], e)
  /\ \A e \in S : Carries(handlers[h], e) /\ ~Carries(r, e)
  /\ r.at \in Live =>
       /\ handlers[h].at \in Live
       /\ \A e : Carries(handlers[h], e) => Carries(r, e) \/ e \in S \/ e \in Foreign

LEMMA HandleFacts ==
  ASSUME ShipTypes, NEW h \in Handlers, NEW l, NEW r, NEW S, NEW t,
         Handle(h, l, r), Goes(h, r, S, t)
  PROVE  \E q : Works(h, q, S, t)
<1>1. PICK q : q = IF h # call /\ r.at \in Over THEN Free ELSE r
  OBVIOUS
<1>2. handlers' = [handlers EXCEPT ![h] = q]
  BY <1>1, Zenon DEF Handle
<1>3. sent \in Nat
  BY LogAssumption DEF ShipTypes
<1>4. CASE h # call /\ r.at \in Over
  <2>1. q = Free
    BY <1>1, <1>4, Zenon
  <2>2. q \in Holding(sent) /\ Orderly(q) /\ \A e : ~Carries(q, e)
    BY <1>3, <2>1, FreeIs, Zenon
  <2>3. Works(h, q, S, t)
    BY <1>2, <1>4, <2>2, Zenon DEF Works, Goes
  <2>4. QED
    BY <2>3
<1>5. CASE ~(h # call /\ r.at \in Over)
  <2>1. q = r
    BY <1>1, <1>5, Zenon
  <2>2. Works(h, q, S, t)
    BY <1>2, <2>1, Zenon DEF Works, Goes
  <2>3. QED
    BY <2>2
<1>6. QED
  BY <1>4, <1>5, Zenon

LEMMA HandlerStepFacts ==
  ASSUME ShipTypes, PhaseInv, OrderInv, NEW h \in Handlers, HandlerStep(h)
  PROVE  \E q, S, t : Works(h, q, S, t) /\ Adds(S, t) /\ Rest
<1>0. /\ handlers[h] \in Holding(sent) /\ Orderly(handlers[h]) /\ sent \in Nat /\ sent <= MaxLog
      /\ copies \in [Tables -> [Entries -> Nat]] /\ faults \in 0..MaxFault /\ MaxFault \in Nat
      /\ "access" \in Tables
  BY LogAssumption DEF ShipTypes, OrderInv, Tables
<1>1. ASSUME NEW l, NEW r, Handle(h, l, r), faults' \in 0..MaxFault
      PROVE  Rest /\ handlers[h].at = l
  BY <1>1, Zenon DEF Handle, Rest, agent, vars
<1>2. ASSUME copies' = copies PROVE Adds({}, "access")
  BY <1>0, <1>2 DEF Adds
<1>3. {} \subseteq Own(sent, "access")
  OBVIOUS
<1>4. ASSUME NEW a \in {"free", "failed", "rejected"}, NEW l, l # "free", copies' = copies,
             Handle(h, l, [Free EXCEPT !.at = a]), faults' \in 0..MaxFault, a = "free" => h # call
      PROVE  \E q, S, t : Works(h, q, S, t) /\ Adds(S, t) /\ Rest
  <2>1. PICK r : r = [Free EXCEPT !.at = a]
    OBVIOUS
  <2>2. /\ r.at = a /\ Orderly(r) /\ (\A e : ~Carries(r, e)) /\ r \in Holding(sent)
        /\ (a = "free" => r = Free)
    BY <1>0, <2>1, FreeFacts, Zenon
  <2>3. r.at \notin Live
    BY <2>2 DEF Live
  <2>4. r.at # "free" \/ (r = Free /\ h # call)
    <3>1. CASE a = "free"
      BY <1>4, <2>2, <3>1, Zenon
    <3>2. CASE a # "free"
      BY <2>2, <3>2, Zenon
    <3>3. QED
      BY <3>1, <3>2, Zenon
  <2>5. Handle(h, l, r)
    BY <1>4, <2>1, Zenon
  <2>6. \A e \in {} : Carries(handlers[h], e) /\ ~Carries(r, e)
    OBVIOUS
  <2>7. \E q : Works(h, q, {}, "access")
    <3>1. Goes(h, r, {}, "access")
      BY <1>0, <1>3, <2>2, <2>3, <2>4, <2>6, Zenon DEF Goes
    <3>2. QED
      BY <2>5, <3>1, HandleFacts, Zenon
  <2>8. QED
    BY <1>1, <1>2, <1>4, <2>5, <2>7, Zenon
<1>5. CASE HandlerFails(h)
  <2>1. /\ faults < MaxFault /\ faults' = faults + 1 /\ copies' = copies
        /\ handlers[h].at # "free" /\ Handle(h, handlers[h].at, [Free EXCEPT !.at = "failed"])
    BY <1>5 DEF HandlerFails
  <2>2. faults' \in 0..MaxFault
    BY <1>0, <2>1
  <2>3. "failed" \in {"free", "failed", "rejected"} /\ "failed" # "free"
    OBVIOUS
  <2>4. QED
    BY <1>4, <2>1, <2>2, <2>3, Zenon
<1>6. CASE HandlerAborts(h)
  <2>1. /\ faults < MaxFault /\ faults' = faults + 1 /\ copies' = copies
        /\ Handle(h, "recv", [Free EXCEPT !.at = "rejected"])
    BY <1>6 DEF HandlerAborts
  <2>2. faults' \in 0..MaxFault
    BY <1>0, <2>1
  <2>3. "rejected" \in {"free", "failed", "rejected"} /\ "rejected" # "free" /\ "recv" # "free"
    OBVIOUS
  <2>4. QED
    BY <1>4, <2>1, <2>2, <2>3, Zenon
<1>7. CASE HandlerDropped(h)
  <2>1. /\ faults' = faults /\ copies' = copies /\ h # call
        /\ handlers[h].at # "free" /\ Handle(h, handlers[h].at, Free)
    BY <1>7 DEF HandlerDropped
  <2>2. Free = [Free EXCEPT !.at = "free"] /\ "free" \in {"free", "failed", "rejected"}
    BY DEF Free
  <2>3. Handle(h, handlers[h].at, [Free EXCEPT !.at = "free"])
    BY <2>1, <2>2, Zenon
  <2>4. faults' \in 0..MaxFault
    BY <1>0, <2>1
  <2>5. QED
    BY <1>4, <2>1, <2>2, <2>3, <2>4, Zenon
<1>8. CASE HandlerReceives(h) /\ handlers[h].todo = <<>>
  <2>1. PICK r : r = Flushed([handlers[h] EXCEPT !.at = "last"])
    OBVIOUS
  <2>2. Handle(h, "recv", r) /\ copies' = copies /\ faults' = faults
    BY <1>8, <2>1 DEF HandlerReceives
  <2>3. handlers[h].at = "recv"
    BY <2>2 DEF Handle
  <2>4. PICK at, td, ac, ev :
          /\ handlers[h] = [at |-> at, todo |-> td, access |-> ac, events |-> ev]
          /\ td \in Seq(1..sent) /\ ac \in Seq(Own(sent, "access"))
          /\ ev \in Seq(Own(sent, "events"))
    <3>1. PICK g \in Holding(sent) : g = handlers[h]
      BY <1>0
    <3>2. /\ g = [at |-> g.at, todo |-> g.todo, access |-> g.access, events |-> g.events]
          /\ g.todo \in Seq(1..sent) /\ g.access \in Seq(Own(sent, "access"))
          /\ g.events \in Seq(Own(sent, "events"))
      BY <1>0, HoldingFacts, Zenon
    <3>3. QED
      BY <3>1, <3>2, Zenon
  <2>5. PICK m : m = [handlers[h] EXCEPT !.at = "last"]
    OBVIOUS
  <2>6. Fields(m, "last", td, ac, ev)
    BY <2>4, <2>5 DEF Fields
  <2>7. PICK a : Fields(r, a, td, ac, ev) /\ Ends("last", a, ac, ev)
    <3>1. "last" \in {"flush", "last"}
      OBVIOUS
    <3>2. r = Flushed(m)
      BY <2>1, <2>5, Zenon
    <3>3. QED
      BY <2>6, <3>1, <3>2, FlushedFields, Zenon
  <2>8. r = [at |-> a, todo |-> td, access |-> ac, events |-> ev]
    BY <2>7 DEF Fields
  <2>9. td = <<>> /\ a \in {"last", "recv", "done"} /\ (a = "done" => ac = <<>> /\ ev = <<>>)
    BY <1>8, <2>4, <2>7 DEF Ends
  <2>10. r \in Holding(sent)
    BY <2>4, <2>8, <2>9 DEF Holding
  <2>11. Orderly(r)
    <3>1. /\ Ascending(td) /\ Ascending(ac) /\ Ascending(ev) /\ Before(ac, td) /\ Before(ev, td)
      BY <1>0, <2>4 DEF Orderly
    <3>2. QED
      BY <2>8, <2>9, <3>1 DEF Orderly
  <2>12. \A e : Carries(r, e) <=> Carries(handlers[h], e)
    <3>1. /\ r.todo = handlers[h].todo /\ r.access = handlers[h].access
          /\ r.events = handlers[h].events
      BY <2>4, <2>8
    <3>2. QED
      BY <3>1 DEF Carries
  <2>13. r.at # "free" /\ handlers[h].at \in Live /\ "recv" # "free"
    BY <2>3, <2>8, <2>9 DEF Live
  <2>14. \A e \in {} : Carries(handlers[h], e) /\ ~Carries(r, e)
    OBVIOUS
  <2>15. \E q : Works(h, q, {}, "access")
    <3>1. Goes(h, r, {}, "access")
      BY <1>0, <1>3, <2>10, <2>11, <2>12, <2>13, <2>14, Zenon DEF Goes
    <3>2. QED
      BY <2>2, <3>1, HandleFacts, Zenon
  <2>16. QED
    BY <1>0, <1>1, <1>2, <2>2, <2>15, Zenon
<1>9. CASE HandlerReceives(h) /\ handlers[h].todo # <<>>
  <2>1. PICK r : r = Received(handlers[h])
    OBVIOUS
  <2>2. Handle(h, "recv", r) /\ copies' = copies /\ faults' = faults
    BY <1>9, <2>1, Zenon DEF HandlerReceives, Received
  <2>3. handlers[h].at = "recv"
    BY <2>2 DEF Handle
  <2>4. /\ r \in Holding(sent) /\ Orderly(r) /\ r.at \in {"flush", "recv"}
        /\ \A x : Carries(r, x) => Carries(handlers[h], x)
        /\ \A x : Carries(handlers[h], x) => Carries(r, x) \/ x \in Foreign
    BY <1>0, <1>9, <2>1, ReceiveFacts, Zenon
  <2>5. r.at # "free" /\ handlers[h].at \in Live /\ "recv" # "free"
    BY <2>3, <2>4 DEF Live
  <2>6. \A e \in {} : Carries(handlers[h], e) /\ ~Carries(r, e)
    OBVIOUS
  <2>7. \E q : Works(h, q, {}, "access")
    <3>1. Goes(h, r, {}, "access")
      BY <1>0, <1>3, <2>4, <2>5, <2>6, Zenon DEF Goes
    <3>2. QED
      BY <2>2, <3>1, HandleFacts, Zenon
  <2>8. QED
    BY <1>0, <1>1, <1>2, <2>2, <2>7, Zenon
<1>10. CASE HandlerInserts(h)
  <2>1. PICK r : r = Inserted(handlers[h])
    OBVIOUS
  <2>2. PICK S : S = Range(Chunked(handlers[h]))
    OBVIOUS
  <2>3. PICK t : t = Table(handlers[h])
    OBVIOUS
  <2>4. /\ handlers[h].at \in {"flush", "last"} /\ Handle(h, handlers[h].at, r) /\ faults' = faults
        /\ copies' = [copies EXCEPT ![t] = [e \in Entries |-> @[e] + IF e \in S THEN 1 ELSE 0]]
    BY <1>10, <2>1, <2>2, <2>3, Zenon DEF HandlerInserts, Inserted, Chunked, Table, Count
  <2>5. /\ r \in Holding(sent) /\ Orderly(r) /\ r.at \in {"flush", "last", "recv", "done"}
        /\ t \in Tables /\ S \subseteq Own(sent, t)
        /\ \A x : Carries(handlers[h], x) <=> Carries(r, x) \/ x \in S
        /\ \A x \in S : ~Carries(r, x)
    BY <1>0, <2>1, <2>2, <2>3, <2>4, InsertFacts, Zenon
  <2>6. r.at # "free" /\ handlers[h].at \in Live /\ handlers[h].at # "free"
    BY <2>4, <2>5 DEF Live
  <2>7. Adds(S, t)
    BY <1>0, <2>4, <2>5 DEF Adds
  <2>8. \E q : Works(h, q, S, t)
    <3>1. Goes(h, r, S, t)
      BY <2>5, <2>6, Zenon DEF Goes
    <3>2. QED
      BY <2>4, <3>1, HandleFacts, Zenon
  <2>9. QED
    BY <1>0, <1>1, <2>4, <2>7, <2>8, Zenon
<1>11. QED
  BY <1>5, <1>6, <1>7, <1>8, <1>9, <1>10, Zenon DEF HandlerStep

-----------------------------------------------------------------------------
(* Log shipping: BaseInv *)

LEMMA BaseStill == BaseInv /\ Still => BaseInv'
<1> SUFFICES ASSUME BaseInv, Still PROVE BaseInv'
  OBVIOUS
<1>1. /\ sent' = sent /\ channel' = channel /\ batch' = batch /\ wire' = wire
      /\ call' = call /\ handlers' = handlers /\ copies' = copies /\ faults' = faults
      /\ dropped' = dropped /\ fails' = fails
  BY Zenon DEF Still
<1>2. ShipTypes'
  BY <1>1, Zenon DEF BaseInv, ShipTypes, Still
<1>3. PhaseInv'
  BY <1>1, Zenon DEF BaseInv, PhaseInv, Still
<1>4. LengthInv' /\ QueueInv' /\ OrderInv'
  BY <1>1, Zenon DEF BaseInv, LengthInv, QueueInv, OrderInv, Waiting
<1>5. QED
  BY <1>2, <1>3, <1>4, Zenon DEF BaseInv

\* An entry is sent: it is the last one that waits, or lost.
LEMMA BaseSend == BaseInv /\ SendLog => BaseInv'
<1> SUFFICES ASSUME BaseInv, SendLog PROVE BaseInv'
  OBVIOUS
<1>1. PICK x : x = sent + 1
  OBVIOUS
<1>2. /\ sent \in Nat /\ sent < MaxLog /\ MaxLog \in Nat /\ x \in 1..x /\ x \in Nat
      /\ 1..sent \subseteq 1..x /\ x \notin 1..sent
  BY <1>1, LogAssumption DEF BaseInv, ShipTypes, SendLog
<1>3. /\ sent' = x /\ step' = step /\ batch' = batch /\ wire' = wire /\ after' = after
      /\ notified' = notified /\ call' = call /\ handlers' = handlers /\ copies' = copies
      /\ faults' = faults /\ fails' = fails /\ pc' = pc /\ shutdown' = shutdown
  BY <1>1 DEF SendLog, vars, server
<1>4. /\ \/ Len(channel) < ChannelCap /\ channel' = Append(channel, x) /\ dropped' = dropped
         \/ dropped' = dropped \cup {x} /\ channel' = channel
  BY <1>1, <1>3 DEF SendLog
<1>5. /\ channel \in Seq(1..sent) /\ batch \in Seq(1..sent) /\ wire \in Seq(1..sent)
      /\ Waiting \in Seq(1..sent) /\ dropped \subseteq 1..sent
  BY DEF BaseInv, ShipTypes, QueueInv
<1>6. PICK S : S = 1..x
  OBVIOUS
<1>7. /\ channel \in Seq(S) /\ batch \in Seq(S) /\ wire \in Seq(S) /\ Waiting \in Seq(S)
      /\ x \in S
  BY <1>2, <1>5, <1>6, LargerSeq, Zenon
<1>8. Append(channel, x) \in Seq(S) /\ Len(Append(channel, x)) = Len(channel) + 1
      /\ Len(channel) \in Nat
  BY <1>7
<1>9. handlers' \in [Handlers -> Holding(x)]
  <2>1. handlers \in [Handlers -> Holding(sent)]
    BY DEF BaseInv, ShipTypes
  <2>2. \A h \in Handlers : handlers[h] \in Holding(x)
    BY <1>1, <1>2, <2>1, HoldingGrows
  <2>3. QED
    BY <1>3, <2>1, <2>2
<1>10. ShipTypes'
  <2>1. dropped' \subseteq S
    BY <1>2, <1>4, <1>5, <1>6
  <2>2. channel' \in Seq(S)
    BY <1>4, <1>7, <1>8, Zenon
  <2>3. sent' \in 0..MaxLog
    BY <1>1, <1>2, <1>3
  <2>4. QED
    BY <1>3, <1>6, <1>7, <1>9, <2>1, <2>2, <2>3, Zenon DEF BaseInv, ShipTypes
<1>11. PhaseInv'
  BY <1>3, Zenon DEF BaseInv, PhaseInv
<1>12. LengthInv'
  <2>1. Len(channel') <= ChannelCap
    <3>1. Len(channel) <= ChannelCap /\ ChannelCap \in Nat
      BY LogAssumption DEF BaseInv, LengthInv
    <3>2. CASE Len(channel) < ChannelCap /\ channel' = Append(channel, x)
      BY <1>8, <3>1, <3>2
    <3>3. CASE channel' = channel
      BY <3>1, <3>3, Zenon
    <3>4. QED
      BY <1>4, <3>2, <3>3
  <2>2. QED
    BY <1>3, <2>1, Zenon DEF BaseInv, LengthInv
<1>13. OrderInv'
  BY <1>3, Zenon DEF BaseInv, OrderInv
<1>14. QueueInv'
  <2>1. CASE channel' = channel /\ dropped' = dropped \cup {x}
    <3>1. Waiting' = Waiting
      BY <1>3, <2>1, Zenon DEF Waiting
    <3>2. Waiting' \in Seq(1..sent')
      BY <1>3, <1>6, <1>7, <3>1, Zenon
    <3>3. Range(Waiting) \subseteq 1..sent
      BY <1>5, SeqRange, Zenon
    <3>4. QED
      BY <1>2, <2>1, <3>1, <3>2, <3>3, Zenon DEF BaseInv, QueueInv
  <2>2. CASE channel' = Append(channel, x) /\ dropped' = dropped
    <3>1. PICK w \in Seq(S) : w = Waiting
      BY <1>7, Zenon
    <3>2. PICK v : v = Append(w, x)
      OBVIOUS
    <3>3. Waiting' = v
      <4>1. PICK p \in Seq(S) : p = wire \o batch
        BY <1>7, ConcatProperties, Zenon
      <4>2. Waiting' = p \o Append(channel, x) /\ w = p \o channel
        BY <1>3, <2>2, <3>1, <4>1, Zenon DEF Waiting
      <4>3. p \o Append(channel, x) = Append(p \o channel, x)
        <5>1. PICK c \in Seq(S) : c = channel
          BY <1>7, Zenon
        <5>2. PICK y \in S : y = x
          BY <1>7, Zenon
        <5>3. p \o Append(c, y) = Append(p \o c, y)
          BY JoinAppend
        <5>4. QED
          BY <5>1, <5>2, <5>3, Zenon
      <4>4. QED
        BY <3>2, <4>2, <4>3, Zenon
    <3>4. v \in Seq(S) /\ Extends(w, x, v)
      BY <1>7, <3>2, AppendExtends, Zenon
    <3>5. w \in Seq(1..sent) /\ Ascending(w) /\ \A e \in Range(w) : e \notin dropped
      BY <3>1, Zenon DEF BaseInv, QueueInv
    <3>6. Ascending(v)
      <4>1. /\ Len(w) \in Nat /\ Len(v) = Len(w) + 1 /\ v[Len(w) + 1] = x
            /\ \A i \in 1..Len(w) : v[i] = w[i]
        BY <3>4 DEF Extends
      <4>2. \A i \in 1..Len(w) : w[i] \in 1..sent
        BY <3>5, ElementOfSeq, Zenon
      <4>3. \A i \in 1..Len(w) : w[i] < x
        BY <1>1, <1>2, <4>2
      <4>4. ASSUME NEW i \in 1..Len(v), NEW j \in 1..Len(v), i < j PROVE v[i] < v[j]
        <5>1. CASE j = Len(v)
          BY <4>1, <4>3, <4>4, <5>1
        <5>2. CASE j # Len(v)
          <6>1. i \in 1..Len(w) /\ j \in 1..Len(w) /\ i < j
            BY <4>1, <4>4, <5>2
          <6>2. w[i] < w[j]
            BY <3>5, <6>1 DEF Ascending
          <6>3. QED
            BY <4>1, <6>1, <6>2
        <5>3. QED
          BY <5>1, <5>2
      <4>5. QED
        BY <4>4 DEF Ascending
    <3>7. \A e : e \in Range(v) <=> e = x \/ e \in Range(w)
      BY <3>4, ExtendedRange, Zenon
    <3>8. x \notin dropped
      BY <1>2, <1>5
    <3>9. \A e \in Range(v) : e \notin dropped'
      BY <2>2, <3>5, <3>7, <3>8, Zenon
    <3>10. QED
      BY <1>3, <1>6, <3>3, <3>4, <3>6, <3>9, Zenon DEF QueueInv
  <2>3. QED
    BY <1>4, <2>1, <2>2, Zenon
<1>15. QED
  BY <1>10, <1>11, <1>12, <1>13, <1>14, Zenon DEF BaseInv

\* The first n that wait, and what is left of w without them.
First(w, n) == {w[i] : i \in 1..n}
Leaves(S, w, n, v) ==
  /\ v \in Seq(S) /\ Drops(w, n, v) /\ Suffix(w, n, v) /\ Ascending(v)
  /\ \A e \in Range(v) : e \in Range(w) /\ e \notin First(w, n)
Gone(p, z, w, n) == Range(p) \ Range(z) = First(w, n)
Splits(q, a, z) ==
  /\ \A e : e \in Range(q) <=> e \in Range(a) \/ e \in Range(z)
  /\ \A e \in Range(a) : e \notin Range(z)

LEMMA DropSplits ==
  ASSUME NEW S, S \subseteq Nat, NEW q \in Seq(S), NEW n, NEW z \in Seq(S), NEW a \in Seq(S),
         Drops(q, n, z), Fronts(q, n, a), Ascending(q)
  PROVE  Splits(q, a, z)
<1>1. /\ \A e : e \in Range(q) <=> e \in Range(a) \/ e \in Range(z)
      /\ Ascending(q) /\ S \subseteq Nat => \A e \in Range(a) : e \notin Range(z)
  BY DropRange, Zenon
<1>2. QED
  BY <1>1, Zenon DEF Splits

LEMMA FrontFirst ==
  ASSUME NEW S, NEW q \in Seq(S), NEW n, n \in 0..Len(q)
  PROVE  \E a \in Seq(S) : Fronts(q, n, a) /\ Range(a) = First(q, n)
<1>1. PICK a : a = SubSeq(q, 1, n)
  OBVIOUS
<1>2. a \in Seq(S) /\ Len(a) = n /\ \A i \in 1..n : a[i] = q[i]
  BY <1>1, FrontFacts
<1>3. \A e : e \in Range(a) <=> \E i \in 1..Len(a) : a[i] = e
  BY <1>2, InRange, Zenon
<1>4. Range(a) = First(q, n)
  BY <1>2, <1>3 DEF First
<1>5. QED
  BY <1>2, <1>4 DEF Fronts

LEMMA DropFront ==
  ASSUME NEW S, S \subseteq Nat, NEW p \in Seq(S), NEW c \in Seq(S), NEW z \in Seq(S), NEW n,
         Drops(p, n, z), NEW w, NEW v, Cat(p, c, w), Cat(z, c, v), Ascending(w)
  PROVE  Leaves(S, w, n, v) /\ Gone(p, z, w, n)
<1>1. w = p \o c /\ w \in Seq(S)
  BY ConcatProperties, Zenon DEF Cat
<1>2. v = z \o c /\ v \in Seq(S)
  BY ConcatProperties, Zenon DEF Cat
<1>3. Drops(w, n, v) /\ Suffix(w, n, v)
  BY <1>1, <1>2, JoinDrop, Zenon
<1>4. Ascending(w)
  OBVIOUS
<1>5. Len(w) \in Nat /\ Len(p) \in Nat /\ Len(c) \in Nat
  BY <1>1
<1>6. /\ Len(w) = Len(p) + Len(c)
      /\ \A i \in 1..Len(p) + Len(c) : w[i] = IF i <= Len(p) THEN p[i] ELSE c[i - Len(p)]
  BY <1>1, ConcatProperties, Zenon
<1>7. Ascending(v)
  BY <1>3, <1>4, <1>5, DropOrder, Zenon
<1>8. n \in 0..Len(p)
  BY DEF Drops
<1>9. n \in 0..Len(w) /\ n \in Nat /\ n <= Len(p)
  BY <1>5, <1>6, <1>8
<1>a. w \in Seq(S)
  BY <1>1
<1>b. v \in Seq(S)
  BY <1>2
<1>c. n \in 0..Len(w)
  BY <1>9
<1>11. PICK a \in Seq(S) : Fronts(w, n, a) /\ Range(a) = First(w, n)
  BY <1>a, <1>c, FrontFirst, Zenon
<1>12. Splits(w, a, v)
  BY <1>3, <1>4, <1>a, <1>b, <1>11, DropSplits, Zenon
<1>13. PICK b \in Seq(S) : Fronts(p, n, b) /\ Range(b) = First(p, n)
  BY <1>8, FrontFirst, Zenon
<1>14. Ascending(p)
  BY <1>1, <1>4, JoinOrder, Zenon
<1>15. Splits(p, b, z)
  BY <1>13, <1>14, DropSplits, Zenon
<1>16. First(p, n) = First(w, n)
  <2>1. \A i \in 1..n : w[i] = p[i]
    BY <1>5, <1>6, <1>9
  <2>2. QED
    BY <2>1 DEF First
<1>17. Gone(p, z, w, n)
  BY <1>13, <1>15, <1>16 DEF Gone, Splits
<1>18. \A e \in Range(v) : e \in Range(w) /\ e \notin First(w, n)
  BY <1>11, <1>12, Zenon DEF Splits
<1>19. Leaves(S, w, n, v)
  BY <1>3, <1>7, <1>b, <1>18, Zenon DEF Leaves
<1>20. QED
  BY <1>17, <1>19, Zenon

\* The queue in a call, and after it.
LEMMA CallQueue ==
  ASSUME BaseInv, NEW n, NEW kept, NEW gone, EndsCall(n, kept, gone)
  PROVE  /\ Leaves(1..sent, Waiting, n, Waiting') /\ n \in 0..Len(Waiting)
         /\ Gone(wire, kept, Waiting, n)
         /\ Waiting = wire \o channel
<1>1. PICK S : S = 1..sent
  OBVIOUS
<1>2. /\ S \subseteq Nat /\ wire \in Seq(S) /\ channel \in Seq(S) /\ batch = <<>>
      /\ kept \in Seq(S) /\ Drops(wire, n, kept) /\ Ascending(Waiting) /\ <<>> \in Seq(S)
  <2>1. S \subseteq Nat /\ <<>> \in Seq(S)
    BY <1>1
  <2>2. QED
    BY <1>1, <2>1, Zenon DEF BaseInv, ShipTypes, PhaseInv, QueueInv, EndsCall
<1>3. Waiting = wire \o channel
  <2>1. wire \o <<>> = wire
    BY <1>2, ConcatEmptySeq, Zenon
  <2>2. QED
    BY <1>2, <2>1, Zenon DEF Waiting
<1>4. Waiting' = kept \o channel
  <2>1. Waiting' = (<<>> \o kept) \o channel
    BY Zenon DEF Waiting, EndsCall
  <2>2. <<>> \o kept = kept
    BY <1>2, ConcatEmptySeq, Zenon
  <2>3. QED
    BY <2>1, <2>2, Zenon
<1>5. PICK v : v = Waiting'
  OBVIOUS
<1>6. Cat(wire, channel, Waiting) /\ Cat(kept, channel, v)
  BY <1>3, <1>4, <1>5, Zenon DEF Cat
<1>7. Leaves(S, Waiting, n, v) /\ Gone(wire, kept, Waiting, n)
  BY <1>2, <1>6, DropFront, Zenon
<1>8. n \in 0..Len(Waiting)
  BY <1>7 DEF Leaves, Drops
<1>9. QED
  BY <1>1, <1>3, <1>5, <1>7, <1>8, Zenon

\* At the end of a session the channel is left.
LEMMA SessionQueue ==
  ASSUME BaseInv, EndsSession, NEW n, n = Len(wire \o batch)
  PROVE  /\ Leaves(1..sent, Waiting, n, Waiting') /\ n \in 0..Len(Waiting)
         /\ Gone(wire \o batch, <<>>, Waiting, n)
         /\ Range(wire \o batch) = Range(wire) \cup Range(batch)
<1>1. PICK S : S = 1..sent
  OBVIOUS
<1>2. /\ S \subseteq Nat /\ wire \in Seq(S) /\ channel \in Seq(S) /\ batch \in Seq(S)
      /\ Ascending(Waiting) /\ <<>> \in Seq(S)
  <2>1. S \subseteq Nat /\ <<>> \in Seq(S)
    BY <1>1
  <2>2. QED
    BY <1>1, <2>1, Zenon DEF BaseInv, ShipTypes, QueueInv
<1>3. PICK p \in Seq(S) : p = wire \o batch
  BY <1>2, ConcatProperties, Zenon
<1>4. Range(p) = Range(wire) \cup Range(batch)
  BY <1>2, <1>3, RangeConcatenation, ZenonT(60)
<1>5. n = Len(p) /\ n \in Nat
  BY <1>3
<1>6. Drops(p, n, <<>>)
  BY <1>5 DEF Drops
<1>7. PICK v : v = Waiting'
  OBVIOUS
<1>8. Cat(p, channel, Waiting)
  BY <1>3, Zenon DEF Cat, Waiting
<1>9. Cat(<<>>, channel, v)
  <2>1. v = (<<>> \o <<>>) \o channel
    BY <1>7, Zenon DEF Waiting, EndsSession
  <2>2. <<>> \o <<>> = <<>>
    BY <1>2, ConcatEmptySeq, Zenon
  <2>3. QED
    BY <2>1, <2>2, Zenon DEF Cat
<1>10. Leaves(S, Waiting, n, v) /\ Gone(p, <<>>, Waiting, n)
  BY <1>2, <1>6, <1>8, <1>9, DropFront, Zenon
<1>11. n \in 0..Len(Waiting)
  BY <1>10 DEF Leaves, Drops
<1>12. QED
  BY <1>1, <1>3, <1>4, <1>7, <1>10, <1>11, Zenon

\* A step of the shipper moves entries along the queue.
LEMMA ShipQueue ==
  ASSUME BaseInv, wire = <<>>, NEW b, Moves(b)
  PROVE  Waiting' = Waiting /\ Cat(b, channel', Waiting)
<1>1. PICK S : S = 1..sent
  OBVIOUS
<1>2. /\ channel \in Seq(S) /\ batch \in Seq(S) /\ b \in Seq(S) /\ b \o channel' = batch \o channel
  BY <1>1, Zenon DEF BaseInv, ShipTypes, Moves
<1>3. Waiting = batch \o channel
  <2>1. <<>> \o batch = batch
    BY <1>2, ConcatEmptySeq, Zenon
  <2>2. QED
    BY <2>1, Zenon DEF Waiting
<1>4. Waiting' = b \o channel'
  <2>1. CASE wire' = b /\ batch' = <<>>
    <3>1. b \o <<>> = b
      BY <1>2, ConcatEmptySeq, Zenon
    <3>2. QED
      BY <2>1, <3>1, Zenon DEF Waiting
  <2>2. CASE wire' = <<>> /\ batch' = b
    <3>1. <<>> \o b = b
      BY <1>2, ConcatEmptySeq, Zenon
    <3>2. QED
      BY <2>2, <3>1, Zenon DEF Waiting
  <2>3. (wire' = b /\ batch' = <<>>) \/ (wire' = <<>> /\ batch' = b)
    BY DEF Moves, Calls, Keeps
  <2>4. QED
    BY <2>1, <2>2, <2>3, Zenon
<1>5. QED
  BY <1>2, <1>3, <1>4, Zenon DEF Cat

\* What leaves the queue was not given up before.
LEMMA QueueLeaves ==
  ASSUME QueueInv, sent' = sent, NEW n, Leaves(1..sent, Waiting, n, Waiting'),
         NEW gone, dropped' = dropped \cup gone, gone \subseteq First(Waiting, n)
  PROVE  QueueInv'
<1>1. \A e \in Range(Waiting') : e \notin dropped'
  BY DEF Leaves, QueueInv
<1>2. Waiting' \in Seq(1..sent') /\ Ascending(Waiting')
  BY Zenon DEF Leaves
<1>3. QED
  BY <1>1, <1>2, Zenon DEF QueueInv

LEMMA FirstSent ==
  ASSUME ShipTypes, QueueInv, NEW n \in 0..Len(Waiting)
  PROVE  First(Waiting, n) \subseteq 1..sent
<1>1. \A i \in 1..Len(Waiting) : Waiting[i] \in 1..sent
  BY ElementOfSeq, Zenon DEF QueueInv
<1>2. Len(Waiting) \in Nat
  BY DEF QueueInv
<1>3. QED
  BY <1>1, <1>2 DEF First

LEMMA FreesOrder == BaseInv /\ Frees => OrderInv'
<1> SUFFICES ASSUME BaseInv, Frees, NEW h \in Handlers PROVE Orderly(handlers'[h])
  BY DEF OrderInv
<1>1. Orderly(handlers[h]) /\ Orderly(Free)
  BY FreeIs, Zenon DEF BaseInv, OrderInv
<1>2. QED
  BY <1>1, Zenon DEF Frees

LEMMA FailingType ==
  ASSUME ShipTypes, NEW S
  PROVE  Failing(S) \in [Entries -> Nat]
BY DEF ShipTypes, Failing

LEMMA BaseCall ==
  ASSUME BaseInv, NEW n, NEW kept, NEW gone, EndsCall(n, kept, gone)
  PROVE  BaseInv'
<1>1. /\ Leaves(1..sent, Waiting, n, Waiting') /\ n \in 0..Len(Waiting)
      /\ Gone(wire, kept, Waiting, n)
  BY CallQueue
<1>2. gone \subseteq First(Waiting, n)
  BY <1>1 DEF EndsCall, Gone
<1>3. QueueInv'
  BY <1>1, <1>2, QueueLeaves DEF BaseInv, EndsCall
<1>4. OrderInv'
  BY FreesOrder DEF EndsCall
<1>5. <<>> \in Seq(1..sent) /\ Len(<<>>) = 0 /\ BatchSize \in Nat
  BY LogAssumption
<1>6. ShipTypes'
  <2>1. dropped' \subseteq 1..sent
    BY <1>1, <1>2, FirstSent DEF BaseInv, ShipTypes, EndsCall
  <2>2. fails' \in [Entries -> Nat]
    BY FailingType DEF BaseInv, ShipTypes, EndsCall
  <2>3. step' \in Steps /\ after' \in Afters /\ call' \in Handlers \cup {0}
    BY DEF EndsCall, Steps, Afters
  <2>4. /\ sent' = sent /\ faults' \in 0..MaxFault /\ notified' = notified /\ copies' = copies
        /\ handlers' \in [Handlers -> Holding(sent)] /\ channel' = channel
        /\ batch' \in Seq(1..sent) /\ wire' \in Seq(1..sent) /\ shutdown' = shutdown
    BY <1>5, Zenon DEF EndsCall, Frees
  <2>5. QED
    BY <2>1, <2>2, <2>3, <2>4, Zenon DEF BaseInv, ShipTypes
<1>7. PhaseInv'
  <2>1. /\ step' # "off" /\ step' # "call" /\ step = "call" /\ pc' = pc /\ wire' = <<>>
        /\ call' = 0
    BY DEF EndsCall
  <2>2. pc = "session"
    BY <2>1 DEF BaseInv, PhaseInv
  <2>3. QED
    BY <2>1, <2>2, Zenon DEF PhaseInv
<1>8. LengthInv'
  <2>1. /\ Len(channel) <= ChannelCap /\ channel' = channel /\ wire' = <<>> /\ batch' = kept
        /\ Len(kept) <= BatchSize
    BY DEF BaseInv, LengthInv, EndsCall
  <2>2. Len(<<>>) <= 2 * BatchSize
    BY <1>5
  <2>3. QED
    BY <2>1, <2>2, Zenon DEF LengthInv
<1>9. QED
  BY <1>3, <1>4, <1>6, <1>7, <1>8, Zenon DEF BaseInv

LEMMA BaseSession == BaseInv /\ EndsSession => BaseInv'
<1> SUFFICES ASSUME BaseInv, EndsSession PROVE BaseInv'
  OBVIOUS
<1>0. PICK n : n = Len(wire \o batch)
  OBVIOUS
<1>1. /\ Leaves(1..sent, Waiting, n, Waiting') /\ n \in 0..Len(Waiting)
      /\ Gone(wire \o batch, <<>>, Waiting, n)
      /\ Range(wire \o batch) = Range(wire) \cup Range(batch)
  BY <1>0, SessionQueue
<1>2. Range(wire) \cup Range(batch) = First(Waiting, n)
  <2>1. Range(<<>>) = {}
    BY DEF Range
  <2>2. QED
    BY <1>1, <2>1 DEF Gone
<1>3. dropped' = dropped \cup First(Waiting, n)
  BY <1>2 DEF EndsSession
<1>4. QueueInv'
  BY <1>1, <1>3, QueueLeaves DEF BaseInv, EndsSession
<1>5. OrderInv'
  BY FreesOrder DEF EndsSession
<1>6. <<>> \in Seq(1..sent) /\ Len(<<>>) = 0 /\ BatchSize \in Nat
  BY LogAssumption
<1>7. ShipTypes'
  <2>1. dropped' \subseteq 1..sent
    BY <1>1, <1>3, FirstSent DEF BaseInv, ShipTypes
  <2>2. fails' \in [Entries -> Nat]
    BY FailingType DEF BaseInv, EndsSession
  <2>3. step' \in Steps /\ after' \in Afters /\ call' \in Handlers \cup {0}
    BY DEF EndsSession, Steps, Afters
  <2>4. /\ sent' = sent /\ faults' = faults /\ notified' = notified /\ copies' = copies
        /\ handlers' \in [Handlers -> Holding(sent)] /\ channel' = channel
        /\ batch' \in Seq(1..sent) /\ wire' \in Seq(1..sent) /\ shutdown' = shutdown
    BY <1>6, Zenon DEF EndsSession, Frees
  <2>5. QED
    BY <2>1, <2>2, <2>3, <2>4, Zenon DEF BaseInv, ShipTypes
<1>8. PhaseInv'
  BY DEF PhaseInv, EndsSession
<1>9. LengthInv'
  <2>1. /\ Len(channel) <= ChannelCap /\ channel' = channel /\ wire' = <<>> /\ batch' = <<>>
    BY DEF BaseInv, LengthInv, EndsSession
  <2>2. Len(<<>>) <= 2 * BatchSize /\ Len(<<>>) <= BatchSize
    BY <1>6
  <2>3. QED
    BY <2>1, <2>2, Zenon DEF LengthInv
<1>10. QED
  BY <1>4, <1>5, <1>7, <1>8, <1>9, Zenon DEF BaseInv

LEMMA BaseShip == BaseInv /\ Ship => BaseInv'
<1> SUFFICES ASSUME BaseInv, Ship PROVE BaseInv'
  OBVIOUS
<1>0. ShipTypes /\ PhaseInv /\ LengthInv /\ QueueInv /\ OrderInv
  BY DEF BaseInv
<1>1. /\ pc' = pc /\ shutdown' = shutdown /\ sent' = sent /\ copies' = copies
      /\ faults' = faults /\ dropped' = dropped /\ fails' = fails
      /\ step \in {"top", "select", "drain"} /\ wire = <<>> /\ notified' \in BOOLEAN
      /\ \E b : Moves(b)
  BY <1>0, ShipFacts, Zenon
<1>2. PICK b : Moves(b)
  BY <1>1
<1>3. Waiting' = Waiting /\ Cat(b, channel', Waiting)
  BY <1>1, <1>2, ShipQueue
<1>4. /\ b \in Seq(1..sent) /\ channel' \in Seq(1..sent) /\ Len(channel') <= Len(channel)
  BY <1>2 DEF Moves
<1>5. QueueInv'
  BY <1>0, <1>1, <1>3, Zenon DEF QueueInv
<1>6. Ascending(b)
  <2>1. PICK c \in Seq(1..sent) : c = channel'
    BY <1>4, Zenon
  <2>2. Ascending(b \o c)
    BY <1>0, <1>3, <2>1, Zenon DEF QueueInv, Cat
  <2>3. QED
    BY <1>4, <2>2, JoinOrder, Zenon
<1>7. Len(channel') <= ChannelCap
  <2>1. /\ Len(channel) \in Nat /\ Len(channel') \in Nat /\ ChannelCap \in Nat
        /\ Len(channel) <= ChannelCap
    BY <1>0, <1>4, LogAssumption DEF ShipTypes, LengthInv
  <2>2. QED
    BY <1>4, <2>1
<1>8. /\ <<>> \in Seq(1..sent) /\ Len(<<>>) = 0 /\ BatchSize \in Nat /\ sent \in Nat
      /\ Len(<<>>) <= BatchSize /\ Len(<<>>) <= 2 * BatchSize
  BY <1>0, LogAssumption DEF ShipTypes
<1>9. pc = "session"
  BY <1>0, <1>1 DEF PhaseInv
<1>10. CASE Len(b) <= 2 * BatchSize /\ \E l \in {"loop", "drain", "stop"} : Calls(b, l)
  <2>1. PICK l \in {"loop", "drain", "stop"} : Calls(b, l)
    BY <1>10
  <2>2. PICK k \in Handlers : k = call'
    BY <2>1 DEF Calls
  <2>3. PICK r : r = [Free EXCEPT !.at = "recv", !.todo = b]
    OBVIOUS
  <2>4. /\ step' = "call" /\ after' = l /\ wire' = b /\ batch' = <<>> /\ call' = k
        /\ handlers' = [handlers EXCEPT ![k] = r]
    BY <2>1, <2>2, <2>3, Zenon DEF Calls
  <2>5. r = [at |-> "recv", todo |-> b, access |-> <<>>, events |-> <<>>]
    BY <2>3 DEF Free
  <2>6. r \in Holding(sent)
    BY <1>4, <1>8, <2>3, HandlerFacts, Zenon
  <2>7. Orderly(r)
    BY <1>6, <2>5 DEF Orderly, Ascending, Before
  <2>8. handlers \in [Handlers -> Holding(sent)]
    BY <1>0 DEF ShipTypes
  <2>9. handlers' \in [Handlers -> Holding(sent)] /\ handlers'[k] = r
    BY <2>4, <2>6, <2>8
  <2>10. OrderInv'
    BY <1>0, <2>4, <2>7, <2>8 DEF OrderInv
  <2>11. step' \in Steps /\ after' \in Afters /\ after' # "off" /\ step' # "off"
    BY <2>4 DEF Steps, Afters
  <2>12. ShipTypes'
    BY <1>0, <1>1, <1>4, <1>8, <2>2, <2>4, <2>9, <2>11, Zenon DEF ShipTypes
  <2>13. r.at # "free"
    BY <2>5
  <2>14. PhaseInv'
    BY <1>1, <1>9, <2>2, <2>4, <2>9, <2>11, <2>13, Zenon DEF PhaseInv
  <2>15. LengthInv'
    BY <1>7, <1>8, <1>10, <2>4, Zenon DEF LengthInv
  <2>16. QED
    BY <1>5, <2>10, <2>12, <2>14, <2>15, Zenon DEF BaseInv
<1>11. CASE Len(b) <= BatchSize /\ Keeps(b)
  <2>1. /\ step' \in {"top", "select", "drain", "stop"} /\ after' = "off" /\ batch' = b
        /\ wire' = wire /\ call' = call /\ handlers' = handlers
    BY <1>11, Zenon DEF Keeps
  <2>2. step' \in Steps /\ after' \in Afters /\ step' # "off" /\ step' # "call" /\ step # "call"
    BY <1>1, <2>1 DEF Steps, Afters
  <2>3. ShipTypes'
    BY <1>0, <1>1, <1>4, <2>1, <2>2, Zenon DEF ShipTypes
  <2>4. PhaseInv'
    BY <1>0, <1>1, <1>9, <2>1, <2>2, Zenon DEF PhaseInv
  <2>5. LengthInv'
    BY <1>1, <1>7, <1>8, <1>11, <2>1, Zenon DEF LengthInv
  <2>6. OrderInv'
    BY <1>0, <2>1, Zenon DEF OrderInv
  <2>7. QED
    BY <1>5, <2>3, <2>4, <2>5, <2>6, Zenon DEF BaseInv
<1>12. QED
  BY <1>2, <1>10, <1>11, Zenon DEF Moves

LEMMA BaseHandler ==
  ASSUME BaseInv, NEW h \in Handlers, NEW q, NEW S, NEW t, Works(h, q, S, t), Adds(S, t), Rest
  PROVE  BaseInv'
<1>0. /\ ShipTypes /\ PhaseInv /\ LengthInv /\ QueueInv /\ OrderInv
      /\ handlers \in [Handlers -> Holding(sent)]
  BY DEF BaseInv, ShipTypes
<1>1. /\ handlers' = [handlers EXCEPT ![h] = q] /\ q \in Holding(sent) /\ Orderly(q)
      /\ (h = call => q.at # "free")
  BY Zenon DEF Works
<1>2. handlers' \in [Handlers -> Holding(sent)] /\ OrderInv'
  BY <1>0, <1>1 DEF OrderInv
<1>3. ShipTypes'
  BY <1>0, <1>2, Zenon DEF ShipTypes, Rest, Adds
<1>4. step = "call" => handlers'[call].at # "free"
  BY <1>0, <1>1 DEF PhaseInv
<1>5. PhaseInv'
  BY <1>0, <1>4, Zenon DEF PhaseInv, Rest
<1>6. LengthInv' /\ QueueInv'
  BY <1>0, Zenon DEF LengthInv, QueueInv, Waiting, Rest
<1>7. QED
  BY <1>2, <1>3, <1>5, <1>6, Zenon DEF BaseInv

LEMMA BaseStart == LogInit => BaseInv
<1> SUFFICES ASSUME LogInit PROVE BaseInv
  OBVIOUS
<1>1. /\ sent = 0 /\ channel = <<>> /\ step = "off" /\ batch = <<>> /\ wire = <<>>
      /\ after = "off" /\ notified = FALSE /\ call = 0 /\ handlers = [h \in Handlers |-> Free]
      /\ copies = [u \in Tables |-> [e \in Entries |-> 0]] /\ faults = 0 /\ dropped = {}
      /\ fails = [e \in Entries |-> 0] /\ pc = "top" /\ shutdown = FALSE
  BY DEF LogInit, Init
<1>2. handlers \in [Handlers -> Holding(sent)] /\ OrderInv
  <2>1. Free \in Holding(0) /\ Orderly(Free)
    BY FreeIs
  <2>2. QED
    BY <1>1, <2>1 DEF OrderInv
<1>3. /\ copies \in [Tables -> [Entries -> Nat]] /\ fails \in [Entries -> Nat]
      /\ sent \in 0..MaxLog /\ faults \in 0..MaxFault /\ dropped \subseteq 1..sent
      /\ step \in Steps /\ after \in Afters /\ call \in Handlers \cup {0}
      /\ <<>> \in Seq(1..sent) /\ Len(<<>>) = 0
  BY <1>1, LogAssumption DEF Steps, Afters
<1>4. ShipTypes
  BY <1>1, <1>2, <1>3, Zenon DEF ShipTypes
<1>5. PhaseInv
  BY <1>1 DEF PhaseInv
<1>6. LengthInv
  BY <1>1, <1>3, LogAssumption DEF LengthInv
<1>7. QueueInv
  <2>1. <<>> \o <<>> = <<>>
    BY <1>3, ConcatEmptySeq, Zenon
  <2>2. Waiting = <<>>
    BY <1>1, <2>1, Zenon DEF Waiting
  <2>3. Range(<<>>) = {}
    BY DEF Range
  <2>4. Ascending(<<>>)
    BY DEF Ascending
  <2>5. QED
    BY <1>3, <2>2, <2>3, <2>4 DEF QueueInv
<1>8. QED
  BY <1>2, <1>4, <1>5, <1>6, <1>7, Zenon DEF BaseInv

LEMMA BaseNext == BaseInv /\ [LogNext]_allVars => BaseInv'
<1> SUFFICES ASSUME BaseInv, [LogNext]_allVars PROVE BaseInv'
  OBVIOUS
<1>0. ShipTypes /\ PhaseInv /\ OrderInv
  BY DEF BaseInv
<1>1. \/ Still \/ SendLog \/ Ship \/ CallReturns \/ CallLost
      \/ \E h \in Handlers : HandlerStep(h)
      \/ SessionEnds /\ ShipperDropped
  BY <1>0, StepKinds
<1>2. CASE Still
  BY <1>2, BaseStill
<1>3. CASE SendLog
  BY <1>3, BaseSend
<1>4. CASE Ship
  BY <1>4, BaseShip
<1>5. CASE CallReturns \/ CallLost
  BY <1>0, <1>5, CallFacts, BaseCall, Zenon
<1>6. ASSUME NEW h \in Handlers, HandlerStep(h) PROVE BaseInv'
  BY <1>0, <1>6, HandlerStepFacts, BaseHandler, Zenon
<1>7. CASE SessionEnds /\ ShipperDropped
  BY <1>0, <1>7, SessionFacts, BaseSession, Zenon
<1>8. QED
  BY <1>1, <1>2, <1>3, <1>4, <1>5, <1>6, <1>7, Zenon

\* The agent's backlog and its calls are bounded by the configuration, whatever
\* the control plane does.
THEOREM BacklogStaysBounded == LogSpec => []BacklogBounded
<1>1. BaseInv => BacklogBounded
  <2> SUFFICES ASSUME BaseInv PROVE BacklogBounded
    OBVIOUS
  <2>1. handlers \in [Handlers -> Handler]
    <3>1. 1..sent \subseteq Entries /\ Own(sent, "access") \subseteq Entries
          /\ Own(sent, "events") \subseteq Entries
      BY LogAssumption DEF BaseInv, ShipTypes, Own, Entries
    <3>2. handlers \in [Handlers -> Holding(sent)]
      BY DEF BaseInv, ShipTypes
    <3>3. ASSUME NEW h \in Handlers PROVE handlers[h] \in Handler
      <4>1. PICK r \in Holding(sent) : r = handlers[h]
        BY <3>2
      <4>2. /\ r.todo \in Seq(1..sent) /\ r.access \in Seq(Own(sent, "access"))
            /\ r.events \in Seq(Own(sent, "events"))
        BY DEF Holding
      <4>3. r.todo \in Seq(Entries) /\ r.access \in Seq(Entries) /\ r.events \in Seq(Entries)
        BY <3>1, <4>2, LargerSeq, Zenon
      <4>4. QED
        BY <4>1, <4>3 DEF Holding, Handler
    <3>4. QED
      BY <3>2, <3>3
  <2>2. /\ sent \in 0..MaxLog /\ faults \in 0..MaxFault /\ dropped \subseteq 1..sent
        /\ step \in Steps /\ after \in Afters /\ notified \in BOOLEAN
        /\ call \in Handlers \cup {0} /\ LengthInv /\ (step = "off" <=> pc # "session")
    BY Zenon DEF BaseInv, ShipTypes, PhaseInv
  <2>3. QED
    BY <2>1, <2>2, Zenon DEF BacklogBounded, Steps, Afters, LengthInv
<1>2. QED
  BY <1>1, BaseStart, BaseNext, PTL DEF LogSpec

-----------------------------------------------------------------------------
(* Log shipping: rows *)

\* A row is in its entry's table, and of an entry that was sent.
RowsInv == \A u \in Tables, e \in Entries : copies[u][e] > 0 => e \in Own(sent, u)

\* While the call's handler goes on, or has answered with success, each entry
\* of the call is a row, or still the handler's.
Covers(r, e) == e \in Foreign \/ Carries(r, e) \/ copies[TableOf(e)][e] > 0
StoredInv ==
  step = "call" /\ handlers[call].at \in Live =>
    \A e \in Range(wire) : Covers(handlers[call], e)

LEMMA InTables == \A e : TableOf(e) \in Tables
BY DEF TableOf, Tables

LEMMA RowsNext ==
  ASSUME BaseInv, RowsInv, [LogNext]_allVars
  PROVE  RowsInv'
<1>0. ShipTypes /\ PhaseInv /\ OrderInv /\ LengthInv /\ sent \in Nat
  BY LogAssumption DEF BaseInv, ShipTypes
<1>1. CASE copies' = copies /\ sent' = sent
  BY <1>1, Zenon DEF RowsInv
<1>2. CASE SendLog
  <2>1. copies' = copies /\ sent' = sent + 1
    BY <1>2 DEF SendLog, server
  <2>2. \A u : Own(sent, u) \subseteq Own(sent', u)
    BY <1>0, <2>1 DEF Own
  <2>3. QED
    BY <2>1, <2>2, Zenon DEF RowsInv
<1>3. ASSUME NEW h \in Handlers, HandlerStep(h) PROVE RowsInv'
  <2>1. PICK q, S, u : Works(h, q, S, u) /\ Adds(S, u) /\ Rest
    BY <1>0, <1>3, HandlerStepFacts, Zenon
  <2>2. sent' = sent /\ S \subseteq Own(sent, u)
    BY <2>1, Zenon DEF Works, Rest
  <2>3. ASSUME NEW v \in Tables, NEW e \in Entries, copies'[v][e] > 0 PROVE e \in Own(sent, v)
    <3>1. CASE v = u /\ e \in S
      BY <2>2, <3>1, Zenon
    <3>2. CASE ~(v = u /\ e \in S)
      <4>1. copies[v][e] \in Nat /\ copies'[v][e] = copies[v][e] + 0
        BY <1>0, <2>1, <3>2 DEF Adds, ShipTypes
      <4>2. copies[v][e] > 0
        BY <2>3, <4>1
      <4>3. QED
        BY <4>2, Zenon DEF RowsInv
    <3>3. QED
      BY <3>1, <3>2, Zenon
  <2>4. QED
    BY <2>2, <2>3, Zenon DEF RowsInv
<1>4. CASE Still
  BY <1>1, <1>4, Zenon DEF Still
<1>5. CASE Ship
  BY <1>0, <1>1, <1>5, ShipFacts, Zenon
<1>6. CASE CallReturns \/ CallLost
  BY <1>0, <1>1, <1>6, CallFacts, Zenon DEF EndsCall
<1>7. CASE SessionEnds /\ ShipperDropped
  BY <1>0, <1>1, <1>7, SessionFacts, Zenon DEF EndsSession
<1>8. \/ Still \/ SendLog \/ Ship \/ CallReturns \/ CallLost
      \/ \E h \in Handlers : HandlerStep(h)
      \/ SessionEnds /\ ShipperDropped
  BY <1>0, StepKinds
<1>9. QED
  BY <1>2, <1>3, <1>4, <1>5, <1>6, <1>7, <1>8, Zenon

LEMMA StoredNext ==
  ASSUME BaseInv, StoredInv, [LogNext]_allVars
  PROVE  StoredInv'
<1>0. /\ ShipTypes /\ PhaseInv /\ OrderInv /\ LengthInv /\ sent \in Nat
      /\ handlers \in [Handlers -> Holding(sent)] /\ copies \in [Tables -> [Entries -> Nat]]
      /\ wire \in Seq(1..sent) /\ 1..sent \subseteq Entries
  BY LogAssumption, SMTT(60) DEF BaseInv, ShipTypes, Entries
<1>1. CASE step' # "call"
  BY <1>1, Zenon DEF StoredInv
<1>2. ASSUME step' = "call" => step = "call", handlers' = handlers, call' = call, wire' = wire,
             copies' = copies
      PROVE  StoredInv'
  BY <1>2, Zenon DEF StoredInv, Covers
<1>3. CASE Still
  BY <1>2, <1>3, Zenon DEF Still
<1>4. CASE SendLog
  <2>1. step' = step /\ handlers' = handlers /\ call' = call /\ wire' = wire /\ copies' = copies
    BY <1>4 DEF SendLog, server
  <2>2. QED
    BY <1>2, <2>1, Zenon
<1>5. CASE Ship
  <2>1. PICK b : Moves(b)
    BY <1>0, <1>5, ShipFacts, Zenon
  <2>2. CASE Keeps(b)
    <3>1. step' # "call"
      BY <2>2 DEF Keeps
    <3>2. QED
      BY <1>1, <3>1, Zenon
  <2>3. ASSUME NEW l, Calls(b, l) PROVE StoredInv'
    <3>1. PICK k \in Handlers : k = call'
      BY <2>3 DEF Calls
    <3>2. PICK r : r = [Free EXCEPT !.at = "recv", !.todo = b]
      OBVIOUS
    <3>3. wire' = b /\ handlers' = [handlers EXCEPT ![k] = r]
      BY <2>3, <3>1, <3>2, Zenon DEF Calls
    <3>4. handlers'[k] = r
      BY <1>0, <3>3
    <3>5. r.todo = b
      BY <3>2 DEF Free
    <3>6. \A e \in Range(wire') : Carries(handlers'[call'], e)
      BY <3>1, <3>3, <3>4, <3>5, Zenon DEF Carries
    <3>7. QED
      BY <3>6, Zenon DEF StoredInv, Covers
  <2>4. QED
    BY <2>1, <2>2, <2>3, Zenon DEF Moves
<1>6. CASE CallReturns \/ CallLost
  <2>1. PICK n, kept, gone : EndsCall(n, kept, gone)
    BY <1>0, <1>6, CallFacts, Zenon
  <2>2. step' # "call"
    BY <2>1 DEF EndsCall
  <2>3. QED
    BY <1>1, <2>2, Zenon
<1>7. CASE SessionEnds /\ ShipperDropped
  <2>1. step' = "off"
    BY <1>0, <1>7, SessionFacts, Zenon DEF EndsSession
  <2>2. step' # "call"
    BY <2>1
  <2>3. QED
    BY <1>1, <2>2, Zenon
<1>8. ASSUME NEW h \in Handlers, HandlerStep(h), step' = "call", handlers'[call'].at \in Live,
             NEW e \in Range(wire')
      PROVE  Covers(handlers[call], e)' \/ (e \in Foreign)
  <2>1. PICK q, S, u : Works(h, q, S, u) /\ Adds(S, u) /\ Rest
    BY <1>0, <1>8, HandlerStepFacts, Zenon
  <2>2. step = "call" /\ wire' = wire /\ call' = call
    BY <1>8, <2>1, Zenon DEF Rest
  <2>3. call \in Handlers
    BY <1>0, <2>2 DEF PhaseInv
  <2>4. e \in Entries /\ e \in Range(wire)
    BY <1>0, <1>8, <2>2, SeqRange, Zenon
  <2>5. PICK v \in Tables : v = TableOf(e)
    BY InTables
  <2>6. /\ copies[v][e] \in Nat /\ copies'[v][e] \in Nat
        /\ copies'[v][e] = copies[v][e] + IF v = u /\ e \in S THEN 1 ELSE 0
    BY <1>0, <2>1, <2>4 DEF Adds
  <2>7. (copies[v][e] > 0 => copies'[v][e] > 0) /\ (v = u /\ e \in S => copies'[v][e] > 0)
    BY <2>6
  <2>8. handlers' = [handlers EXCEPT ![h] = q]
    BY <2>1, Zenon DEF Works
  <2>9. CASE h # call
    <3>1. handlers'[call] = handlers[call]
      BY <1>0, <2>3, <2>8, <2>9
    <3>2. Covers(handlers[call], e)
      BY <1>8, <2>2, <2>4, <3>1, Zenon DEF StoredInv
    <3>3. QED
      BY <2>2, <2>5, <2>7, <3>1, <3>2, Zenon DEF Covers
  <2>10. CASE h = call
    <3>1. handlers'[call] = q
      BY <1>0, <2>3, <2>8, <2>10
    <3>2. q.at \in Live
      BY <1>8, <2>2, <3>1, Zenon
    <3>3. /\ handlers[h].at \in Live
          /\ \A x : Carries(handlers[h], x) => Carries(q, x) \/ x \in S \/ x \in Foreign
      BY <2>1, <2>10, <3>2, Zenon DEF Works
    <3>4. Covers(handlers[call], e)
      BY <2>2, <2>4, <2>10, <3>3, Zenon DEF StoredInv
    <3>5. e \in S => v = u
      <4>1. S \subseteq Own(sent, u)
        BY <2>1, Zenon DEF Works
      <4>2. QED
        BY <2>5, <4>1 DEF Own
    <3>6. QED
      BY <2>2, <2>5, <2>7, <2>10, <3>1, <3>3, <3>4, <3>5, Zenon DEF Covers
  <2>11. QED
    BY <2>9, <2>10, Zenon
<1>9. ASSUME NEW h \in Handlers, HandlerStep(h) PROVE StoredInv'
  BY <1>8, <1>9, Zenon DEF StoredInv, Covers
<1>10. \/ Still \/ SendLog \/ Ship \/ CallReturns \/ CallLost
       \/ \E h \in Handlers : HandlerStep(h)
       \/ SessionEnds /\ ShipperDropped
  BY <1>0, StepKinds
<1>11. QED
  BY <1>3, <1>4, <1>5, <1>6, <1>7, <1>9, <1>10, Zenon

-----------------------------------------------------------------------------
(* Log shipping: copies *)

\* The rows that a handler may still add for an entry, and the call with it
\* that need not have failed.
Pend(h, e) == IF Carries(handlers[h], e) THEN 1 ELSE 0
Spent(e) == (e \in Range(Waiting) \/ e \in dropped) /\ e \notin Range(wire)
Due(e) == IF Spent(e) THEN 0 ELSE 1
CountInv ==
  \A e \in Entries : copies[TableOf(e)][e] + Pend(1, e) + Pend(2, e) <= fails[e] + Due(e)

\* A step that adds no row and lets go of entries, for one entry.
LEMMA CountKeeps ==
  ASSUME ShipTypes, NEW e \in Entries, NEW c \in Nat,
         c + Pend(1, e) + Pend(2, e) <= fails[e] + Due(e),
         \A h \in Handlers : Carries(handlers'[h], e) => Carries(handlers[h], e),
         fails' \in [Entries -> Nat],
         \/ fails'[e] >= fails[e] + 1
         \/ fails'[e] >= fails[e] /\ (Spent(e)' => Spent(e))
  PROVE  c + Pend(1, e)' + Pend(2, e)' <= fails'[e] + Due(e)'
<1>1. PICK p1, p2, q1, q2 : p1 = Pend(1, e) /\ p2 = Pend(2, e) /\ q1 = Pend(1, e)' /\ q2 = Pend(2, e)'
  OBVIOUS
<1>2. /\ p1 \in {0, 1} /\ p2 \in {0, 1} /\ q1 \in {0, 1} /\ q2 \in {0, 1}
      /\ (q1 = 1 => p1 = 1) /\ (q2 = 1 => p2 = 1)
  <2>1. 1 \in Handlers /\ 2 \in Handlers
    BY DEF Handlers
  <2>2. /\ (Carries(handlers'[1], e) => Carries(handlers[1], e))
        /\ (Carries(handlers'[2], e) => Carries(handlers[2], e))
    BY <2>1, Zenon
  <2>3. QED
    BY <1>1, <2>2 DEF Pend
<1>3. PICK d, f, dd, ff : d = Due(e) /\ f = fails[e] /\ dd = Due(e)' /\ ff = fails'[e]
  OBVIOUS
<1>4. d \in {0, 1} /\ dd \in {0, 1} /\ f \in Nat /\ ff \in Nat
  <2>1. d \in {0, 1} /\ dd \in {0, 1}
    BY <1>3, Zenon DEF Due
  <2>2. f \in Nat /\ ff \in Nat
    BY <1>3 DEF ShipTypes
  <2>3. QED
    BY <2>1, <2>2
<1>5. ff >= f + 1 \/ (ff >= f /\ (d = 1 => dd = 1))
  <2>1. CASE ff >= f + 1
    BY <2>1
  <2>2. CASE ff >= f /\ (Spent(e)' => Spent(e))
    BY <1>3, <2>2 DEF Due
  <2>3. QED
    BY <1>3, <2>1, <2>2, Zenon
<1>6. c + p1 + p2 <= f + d
  BY <1>1, <1>3, Zenon
<1>7. c + q1 + q2 <= ff + dd
  BY <1>2, <1>4, <1>5, <1>6
<1>8. QED
  BY <1>1, <1>3, <1>7, Zenon

LEMMA FreesCarries ==
  ASSUME Frees, NEW e
  PROVE  \A h \in Handlers : Carries(handlers'[h], e) => Carries(handlers[h], e)
BY FreeIs, Zenon DEF Frees

LEMMA FailingFacts ==
  ASSUME ShipTypes, NEW S, NEW e \in Entries
  PROVE  /\ Failing(S)[e] >= fails[e] /\ (e \in S => Failing(S)[e] >= fails[e] + 1)
BY DEF ShipTypes, Failing

\* The entries of the queue, by where they are.
Adjoin(w, b, c) == Range((w \o b) \o c) = Range(w) \cup Range(b) \cup Range(c)

LEMMA JoinRange ==
  ASSUME NEW S, NEW w \in Seq(S), NEW b \in Seq(S), NEW c \in Seq(S)
  PROVE  Adjoin(w, b, c)
<1>1. PICK p \in Seq(S) : p = w \o b
  BY ConcatProperties, Zenon
<1>2. Range(p) = Range(w) \cup Range(b)
  BY <1>1, RangeConcatenation, ZenonT(60)
<1>3. Range(p \o c) = Range(p) \cup Range(c)
  BY RangeConcatenation, ZenonT(60)
<1>4. QED
  BY <1>1, <1>2, <1>3, Zenon DEF Adjoin

LEMMA WaitingRange ==
  ASSUME ShipTypes
  PROVE  Range(Waiting) = Range(wire) \cup Range(batch) \cup Range(channel)
<1>1. Adjoin(wire, batch, channel)
  BY JoinRange, Zenon DEF ShipTypes
<1>2. QED
  BY <1>1, Zenon DEF Adjoin, Waiting

LEMMA CountStill ==
  ASSUME BaseInv, CountInv, sent' = sent, copies' = copies, handlers' = handlers, fails' = fails,
         Waiting' = Waiting, dropped' = dropped, wire' = wire
  PROVE  CountInv'
BY Zenon DEF CountInv, Pend, Due, Spent

LEMMA CountCall ==
  ASSUME BaseInv, CountInv, NEW n, NEW kept, NEW gone, EndsCall(n, kept, gone)
  PROVE  CountInv'
<1>0. ShipTypes /\ QueueInv /\ copies \in [Tables -> [Entries -> Nat]]
  BY DEF BaseInv, ShipTypes
<1>1. /\ Leaves(1..sent, Waiting, n, Waiting') /\ n \in 0..Len(Waiting)
      /\ Gone(wire, kept, Waiting, n)
  BY CallQueue
<1>2. copies' = copies /\ Frees /\ wire' = <<>> /\ dropped' = dropped \cup gone
  BY Zenon DEF EndsCall
<1>3. fails' \in [Entries -> Nat]
  BY <1>0, FailingType DEF ShipTypes, EndsCall
<1>4. ASSUME NEW e \in Entries
      PROVE  copies[TableOf(e)][e] + Pend(1, e)' + Pend(2, e)' <= fails'[e] + Due(e)'
  <2>1. PICK c \in Nat : c = copies[TableOf(e)][e]
    BY <1>0, InTables
  <2>2. c + Pend(1, e) + Pend(2, e) <= fails[e] + Due(e)
    BY <2>1, Zenon DEF CountInv
  <2>3. \A h \in Handlers : Carries(handlers'[h], e) => Carries(handlers[h], e)
    BY <1>2, FreesCarries, Zenon
  <2>4. \/ fails'[e] >= fails[e] + 1
        \/ fails'[e] >= fails[e] /\ (Spent(e)' => Spent(e))
    <3>1. Range(Waiting') \subseteq Range(Waiting)
      BY <1>1 DEF Leaves
    <3>2. CASE handlers[call].at = "done" /\ n = Len(wire) /\ gone = {} /\ fails' = fails
      <4>1. fails'[e] >= fails[e]
        BY <1>0, <3>2 DEF ShipTypes
      <4>2. Range(kept) = {}
        <5>1. Drops(wire, n, kept) /\ kept \in Seq(1..sent)
          BY DEF EndsCall
        <5>2. Len(wire) \in Nat
          BY <1>0 DEF ShipTypes
        <5>3. Len(kept) = 0
          BY <3>2, <5>1, <5>2 DEF Drops
        <5>4. \A x : x \in Range(kept) <=> \E i \in 1..Len(kept) : kept[i] = x
          BY <5>1, InRange, Zenon
        <5>5. QED
          BY <5>3, <5>4
      <4>3. e \in Range(wire) => e \in First(Waiting, n)
        BY <1>1, <4>2 DEF Gone
      <4>4. e \in Range(wire) => e \notin Range(Waiting')
        BY <1>1, <4>3, Zenon DEF Leaves
      <4>5. e \in Range(wire) => e \in Range(Waiting)
        BY <1>0, WaitingRange
      <4>6. e \in Range(wire) => e \notin dropped
        BY <1>0, <4>5, Zenon DEF QueueInv
      <4>7. dropped' = dropped
        BY <1>2, <3>2
      <4>8. Spent(e)' => Spent(e)
        BY <3>1, <4>4, <4>6, <4>7, Zenon DEF Spent
      <4>9. QED
        BY <4>1, <4>8, Zenon
    <3>3. CASE gone = Range(wire) \ Range(kept) /\ fails' = Failing(Range(wire))
      <4>1. CASE e \in Range(wire)
        BY <1>0, <3>3, <4>1, FailingFacts, Zenon
      <4>2. CASE e \notin Range(wire)
        <5>1. fails'[e] >= fails[e]
          BY <1>0, <3>3, FailingFacts, Zenon
        <5>2. Spent(e)' => Spent(e)
          BY <1>2, <3>1, <3>3, <4>2 DEF Spent
        <5>3. QED
          BY <5>1, <5>2, Zenon
      <4>3. QED
        BY <4>1, <4>2, Zenon
    <3>4. QED
      BY <3>2, <3>3, Zenon DEF EndsCall
  <2>5. c + Pend(1, e)' + Pend(2, e)' <= fails'[e] + Due(e)'
    BY <1>0, <1>3, <2>2, <2>3, <2>4, CountKeeps, Zenon
  <2>6. QED
    BY <2>1, <2>5, Zenon
<1>5. QED
  BY <1>2, <1>4, Zenon DEF CountInv

LEMMA CountSession == BaseInv /\ CountInv /\ EndsSession => CountInv'
<1> SUFFICES ASSUME BaseInv, CountInv, EndsSession PROVE CountInv'
  OBVIOUS
<1>0. ShipTypes /\ QueueInv /\ copies \in [Tables -> [Entries -> Nat]]
  BY DEF BaseInv, ShipTypes
<1>1. \A e \in Range(Waiting') : e \in Range(Waiting)
  BY SessionQueue, Zenon DEF Leaves
<1>2. /\ copies' = copies /\ Frees /\ wire' = <<>> /\ fails' = Failing(Range(wire))
      /\ dropped' = dropped \cup Range(wire) \cup Range(batch)
  BY Zenon DEF EndsSession
<1>3. fails' \in [Entries -> Nat]
  BY <1>0, <1>2, FailingType
<1>4. ASSUME NEW e \in Entries
      PROVE  copies[TableOf(e)][e] + Pend(1, e)' + Pend(2, e)' <= fails'[e] + Due(e)'
  <2>1. PICK c \in Nat : c = copies[TableOf(e)][e]
    BY <1>0, InTables
  <2>2. c + Pend(1, e) + Pend(2, e) <= fails[e] + Due(e)
    BY <2>1, Zenon DEF CountInv
  <2>3. \A h \in Handlers : Carries(handlers'[h], e) => Carries(handlers[h], e)
    BY <1>2, FreesCarries, Zenon
  <2>4. \/ fails'[e] >= fails[e] + 1
        \/ fails'[e] >= fails[e] /\ (Spent(e)' => Spent(e))
    <3>1. CASE e \in Range(wire)
      BY <1>0, <1>2, <3>1, FailingFacts, Zenon
    <3>2. CASE e \notin Range(wire)
      <4>1. fails'[e] >= fails[e]
        BY <1>0, <1>2, FailingFacts, Zenon
      <4>2. Range(batch) \subseteq Range(Waiting)
        BY <1>0, WaitingRange
      <4>3. Spent(e)' => Spent(e)
        BY <1>1, <1>2, <3>2, <4>2 DEF Spent
      <4>4. QED
        BY <4>1, <4>3, Zenon
    <3>3. QED
      BY <3>1, <3>2, Zenon
  <2>5. c + Pend(1, e)' + Pend(2, e)' <= fails'[e] + Due(e)'
    BY <1>0, <1>3, <2>2, <2>3, <2>4, CountKeeps, Zenon
  <2>6. QED
    BY <2>1, <2>5, Zenon
<1>5. QED
  BY <1>2, <1>4, Zenon DEF CountInv

\* A handler has nothing that was not sent.
LEMMA CarriesSent ==
  ASSUME ShipTypes, NEW h \in Handlers, NEW e, Carries(handlers[h], e)
  PROVE  e \in 1..sent
<1>1. sent \in Nat /\ handlers[h] \in Holding(sent)
  BY LogAssumption DEF ShipTypes
<1>2. PICK r \in Holding(sent) : r = handlers[h]
  BY <1>1
<1>3. r.todo \in Seq(1..sent) /\ r.access \in Seq(1..sent) /\ r.events \in Seq(1..sent)
  BY <1>1, HoldingFacts, Zenon
<1>4. /\ Range(r.todo) \subseteq 1..sent /\ Range(r.access) \subseteq 1..sent
      /\ Range(r.events) \subseteq 1..sent
  BY <1>3, SeqRange, Zenon
<1>5. QED
  BY <1>2, <1>4 DEF Carries

LEMMA CountSend == BaseInv /\ RowsInv /\ CountInv /\ SendLog => CountInv'
<1> SUFFICES ASSUME BaseInv, RowsInv, CountInv, SendLog PROVE CountInv'
  OBVIOUS
<1>0. /\ ShipTypes /\ ShipTypes' /\ QueueInv /\ copies \in [Tables -> [Entries -> Nat]]
      /\ fails \in [Entries -> Nat] /\ sent \in Nat
  <2>1. BaseInv'
    BY BaseSend, Zenon
  <2>2. ShipTypes /\ ShipTypes' /\ QueueInv
    BY <2>1, Zenon DEF BaseInv
  <2>3. /\ copies \in [Tables -> [Entries -> Nat]] /\ fails \in [Entries -> Nat]
        /\ sent \in 0..MaxLog
    BY <2>2, Zenon DEF ShipTypes
  <2>4. sent \in Nat
    BY <2>3
  <2>5. QED
    BY <2>2, <2>3, <2>4, Zenon
<1>1. PICK x : x = sent + 1
  OBVIOUS
<1>2. /\ copies' = copies /\ handlers' = handlers /\ fails' = fails /\ wire' = wire
      /\ batch' = batch /\ x \notin 1..sent
      /\ \/ channel' = Append(channel, x) /\ dropped' = dropped
         \/ dropped' = dropped \cup {x} /\ channel' = channel
  BY <1>0, <1>1 DEF SendLog, server
<1>3. /\ Range(Waiting) = Range(wire) \cup Range(batch) \cup Range(channel)
      /\ Range(Waiting') = Range(wire') \cup Range(batch') \cup Range(channel')
  <2>1. PICK S : S = 1..sent'
    OBVIOUS
  <2>2. PICK w \in Seq(S), b \in Seq(S), c \in Seq(S) : w = wire' /\ b = batch' /\ c = channel'
    BY <1>0, <2>1, Zenon DEF ShipTypes
  <2>3. Adjoin(w, b, c)
    BY JoinRange, Zenon
  <2>4. Range(Waiting') = Range(wire') \cup Range(batch') \cup Range(channel')
    BY <2>2, <2>3, Zenon DEF Waiting, Adjoin
  <2>5. QED
    BY <1>0, <2>4, WaitingRange, Zenon
<1>4. ASSUME NEW e \in Entries
      PROVE  copies[TableOf(e)][e] + Pend(1, e)' + Pend(2, e)' <= fails'[e] + Due(e)'
  <2>1. PICK c \in Nat : c = copies[TableOf(e)][e]
    BY <1>0, InTables
  <2>2. c + Pend(1, e) + Pend(2, e) <= fails[e] + Due(e)
    BY <2>1, Zenon DEF CountInv
  <2>3. CASE e = x
    <3>1. c = 0
      <4>1. e \notin Own(sent, TableOf(e))
        BY <1>2, <2>3 DEF Own
      <4>2. ~(c > 0)
        BY <2>1, <4>1, InTables, Zenon DEF RowsInv
      <4>3. QED
        BY <4>2
    <3>2. 1 \in Handlers /\ 2 \in Handlers
      BY DEF Handlers
    <3>3. ~Carries(handlers[1], e) /\ ~Carries(handlers[2], e)
      BY <1>0, <1>2, <2>3, <3>2, CarriesSent, Zenon
    <3>4. Pend(1, e)' = 0 /\ Pend(2, e)' = 0
      BY <1>2, <3>3, Zenon DEF Pend
    <3>5. fails'[e] \in Nat /\ Due(e)' \in {0, 1}
      <4>1. Due(e)' \in {0, 1}
        BY Zenon DEF Due
      <4>2. QED
        BY <1>0, <1>2, <4>1
    <3>6. QED
      BY <2>1, <3>1, <3>4, <3>5
  <2>4. CASE e # x
    <3>1. e \in Range(channel') => e \in Range(channel)
      <4>1. CASE channel' = channel
        BY <4>1
      <4>2. CASE channel' = Append(channel, x)
        <5>1. PICK S : S = 1..sent'
          OBVIOUS
        <5>2. channel' \in Seq(S) /\ x \in S
          BY <1>0, <1>1, <5>1 DEF ShipTypes, SendLog
        <5>3. channel \in Seq(S)
          <6>1. 1..sent \subseteq S
            BY <1>0, <1>1, <5>1 DEF SendLog
          <6>2. channel \in Seq(1..sent)
            BY <1>0 DEF ShipTypes
          <6>3. QED
            BY <6>1, <6>2, LargerSeq, Zenon
        <5>4. PICK z \in Seq(S) : z = channel'
          BY <5>2, Zenon
        <5>5. Extends(channel, x, z)
          BY <4>2, <5>2, <5>3, <5>4, AppendExtends, Zenon
        <5>6. e \in Range(z) <=> e = x \/ e \in Range(channel)
          BY <5>3, <5>5, ExtendedRange, Zenon
        <5>7. QED
          BY <2>4, <5>4, <5>6, Zenon
      <4>3. QED
        BY <1>2, <4>1, <4>2, Zenon
    <3>2. Spent(e)' => Spent(e)
      BY <1>2, <1>3, <2>4, <3>1 DEF Spent
    <3>3. fails'[e] >= fails[e]
      BY <1>0, <1>2
    <3>4. \A h \in Handlers : Carries(handlers'[h], e) => Carries(handlers[h], e)
      BY <1>2, Zenon
    <3>5. fails' \in [Entries -> Nat]
      BY <1>0, <1>2, Zenon
    <3>6. c + Pend(1, e)' + Pend(2, e)' <= fails'[e] + Due(e)'
      BY <1>0, <2>2, <3>2, <3>3, <3>4, <3>5, CountKeeps, Zenon
    <3>7. QED
      BY <2>1, <3>6, Zenon
  <2>5. QED
    BY <2>3, <2>4, Zenon
<1>5. QED
  BY <1>2, <1>4, Zenon DEF CountInv

\* A new call adds a handler with its entries, and may succeed.
LEMMA CountShip == BaseInv /\ CountInv /\ Ship => CountInv'
<1> SUFFICES ASSUME BaseInv, CountInv, Ship PROVE CountInv'
  OBVIOUS
<1>0. /\ ShipTypes /\ PhaseInv /\ LengthInv /\ copies \in [Tables -> [Entries -> Nat]]
      /\ fails \in [Entries -> Nat] /\ handlers \in [Handlers -> Holding(sent)]
  BY DEF BaseInv, ShipTypes
<1>1. /\ sent' = sent /\ copies' = copies /\ dropped' = dropped /\ fails' = fails
      /\ wire = <<>> /\ \E b : Moves(b)
  BY <1>0, ShipFacts, Zenon
<1>2. PICK b : Moves(b)
  BY <1>1
<1>3. Waiting' = Waiting /\ Cat(b, channel', Waiting)
  BY <1>1, <1>2, ShipQueue
<1>4. Range(<<>>) = {}
  BY DEF Range
<1>5. CASE Keeps(b)
  <2>1. wire' = wire /\ handlers' = handlers
    BY <1>5, Zenon DEF Keeps
  <2>2. QED
    BY <1>1, <1>3, <2>1, CountStill, Zenon
<1>6. ASSUME NEW l, Calls(b, l) PROVE CountInv'
  <2>1. PICK k \in Handlers : k = call'
    BY <1>6 DEF Calls
  <2>2. PICK r : r = [Free EXCEPT !.at = "recv", !.todo = b]
    OBVIOUS
  <2>3. wire' = b /\ handlers' = [handlers EXCEPT ![k] = r]
    BY <1>6, <2>1, <2>2, Zenon DEF Calls
  <2>4. r = [at |-> "recv", todo |-> b, access |-> <<>>, events |-> <<>>]
    BY <2>2 DEF Free
  <2>5. \A e : Carries(r, e) <=> e \in Range(b)
    BY <1>4, <2>4 DEF Carries
  <2>6. \A j \in Handlers : handlers'[j] = IF j = k THEN r ELSE handlers[j]
    BY <1>0, <2>3
  <2>7. \A e \in Range(b) : e \in Range(Waiting)
    <3>1. PICK S : S = 1..sent
      OBVIOUS
    <3>2. PICK d \in Seq(S) : d = channel'
      BY <1>2, <3>1 DEF Moves
    <3>3. b \in Seq(S)
      BY <1>2, <3>1 DEF Moves
    <3>4. Range(b \o d) = Range(b) \cup Range(d)
      BY <3>3, RangeConcatenation, ZenonT(60)
    <3>5. Waiting = b \o d
      BY <1>3, <3>2, Zenon DEF Cat
    <3>6. QED
      BY <3>4, <3>5
  <2>8. ASSUME NEW e \in Entries
        PROVE  copies[TableOf(e)][e] + Pend(1, e)' + Pend(2, e)' <= fails'[e] + Due(e)'
    <3>1. PICK c \in Nat : c = copies[TableOf(e)][e]
      BY <1>0, InTables
    <3>2. c + Pend(1, e) + Pend(2, e) <= fails[e] + Due(e)
      BY <3>1, Zenon DEF CountInv
    <3>3. CASE e \notin Range(b)
      <4>1. \A h \in Handlers : Carries(handlers'[h], e) => Carries(handlers[h], e)
        BY <2>5, <2>6, <3>3, Zenon
      <4>2. Spent(e)' => Spent(e)
        BY <1>1, <1>3, <1>4, <2>3, <3>3 DEF Spent
      <4>3. fails'[e] >= fails[e] /\ fails' \in [Entries -> Nat]
        BY <1>0, <1>1
      <4>4. c + Pend(1, e)' + Pend(2, e)' <= fails'[e] + Due(e)'
        BY <1>0, <3>2, <4>1, <4>2, <4>3, CountKeeps, Zenon
      <4>5. QED
        BY <3>1, <4>4, Zenon
    <3>4. CASE e \in Range(b)
      <4>1. Spent(e) /\ ~Spent(e)'
        BY <1>1, <1>4, <2>3, <2>7, <3>4 DEF Spent
      <4>2. Due(e) = 0 /\ Due(e)' = 1
        BY <4>1, Zenon DEF Due
      <4>3. PICK p1, p2, q1, q2 :
              p1 = Pend(1, e) /\ p2 = Pend(2, e) /\ q1 = Pend(1, e)' /\ q2 = Pend(2, e)'
        OBVIOUS
      <4>4. p1 \in {0, 1} /\ p2 \in {0, 1} /\ q1 \in {0, 1} /\ q2 \in {0, 1}
        BY <4>3, Zenon DEF Pend
      <4>5. k = 1 \/ k = 2
        BY DEF Handlers
      <4>6. (k = 1 => q2 = p2) /\ (k = 2 => q1 = p1)
        <5>1. 1 \in Handlers /\ 2 \in Handlers
          BY DEF Handlers
        <5>2. (k = 1 => handlers'[2] = handlers[2]) /\ (k = 2 => handlers'[1] = handlers[1])
          BY <2>6, <5>1
        <5>3. QED
          BY <4>3, <5>2, Zenon DEF Pend
      <4>7. c + p1 + p2 <= fails[e]
        BY <1>0, <3>1, <3>2, <4>2, <4>3, <4>4
      <4>8. fails[e] \in Nat
        BY <1>0
      <4>9. c + q1 + q2 <= fails[e] + 1
        BY <4>4, <4>5, <4>6, <4>7, <4>8
      <4>10. QED
        BY <1>1, <3>1, <4>2, <4>3, <4>9, Zenon
    <3>5. QED
      BY <3>3, <3>4, Zenon
  <2>9. QED
    BY <1>1, <2>8, Zenon DEF CountInv
<1>7. QED
  BY <1>2, <1>5, <1>6, Zenon DEF Moves

\* A row that is added is one that the handler no longer has.
LEMMA CountHandler ==
  ASSUME BaseInv, CountInv, NEW h \in Handlers, NEW q, NEW S, NEW t,
         Works(h, q, S, t), Adds(S, t), Rest
  PROVE  CountInv'
<1>0. /\ ShipTypes /\ copies \in [Tables -> [Entries -> Nat]] /\ fails \in [Entries -> Nat]
      /\ handlers \in [Handlers -> Holding(sent)]
  BY DEF BaseInv, ShipTypes
<1>1. /\ handlers' = [handlers EXCEPT ![h] = q]
      /\ \A e : Carries(q, e) => Carries(handlers[h], e)
      /\ \A e \in S : Carries(handlers[h], e) /\ ~Carries(q, e)
  BY Zenon DEF Works
<1>2. /\ fails' = fails /\ Waiting' = Waiting /\ dropped' = dropped /\ wire' = wire
  BY Zenon DEF Rest, Waiting
<1>3. \A j \in Handlers : handlers'[j] = IF j = h THEN q ELSE handlers[j]
  BY <1>0, <1>1
<1>4. ASSUME NEW e \in Entries
      PROVE  copies'[TableOf(e)][e] + Pend(1, e)' + Pend(2, e)' <= fails'[e] + Due(e)'
  <2>1. PICK v \in Tables : v = TableOf(e)
    BY InTables
  <2>2. PICK c, d : c = copies[v][e] /\ d = copies'[v][e]
    OBVIOUS
  <2>3. c \in Nat /\ d = c + IF v = t /\ e \in S THEN 1 ELSE 0
    BY <1>0, <2>2 DEF Adds
  <2>4. PICK f : f = fails[e] + Due(e)
    OBVIOUS
  <2>5. f = fails'[e] + Due(e)' /\ f \in Nat
    <3>1. Due(e)' = Due(e)
      BY <1>2, Zenon DEF Due, Spent
    <3>2. Due(e) \in {0, 1}
      BY Zenon DEF Due
    <3>3. QED
      BY <1>0, <1>2, <2>4, <3>1, <3>2
  <2>6. PICK p1, p2, q1, q2 :
          p1 = Pend(1, e) /\ p2 = Pend(2, e) /\ q1 = Pend(1, e)' /\ q2 = Pend(2, e)'
    OBVIOUS
  <2>7. p1 \in {0, 1} /\ p2 \in {0, 1} /\ q1 \in {0, 1} /\ q2 \in {0, 1}
    BY <2>6, Zenon DEF Pend
  <2>8. c + p1 + p2 <= f
    BY <2>1, <2>2, <2>4, <2>6, Zenon DEF CountInv
  <2>9. 1 \in Handlers /\ 2 \in Handlers /\ (h = 1 \/ h = 2)
    BY DEF Handlers
  <2>10. ASSUME NEW j \in Handlers, j # h PROVE Pend(j, e)' = Pend(j, e)
    <3>1. handlers'[j] = handlers[j]
      BY <1>3, <2>10
    <3>2. QED
      BY <3>1, Zenon DEF Pend
  <2>11. /\ Pend(h, e)' = 1 => Pend(h, e) = 1
         /\ e \in S => Pend(h, e) = 1 /\ Pend(h, e)' = 0
    <3>1. handlers'[h] = q
      BY <1>3
    <3>2. CASE Carries(q, e)
      BY <1>1, <3>1, <3>2, Zenon DEF Pend
    <3>3. CASE ~Carries(q, e)
      <4>1. Pend(h, e)' = 0
        BY <3>1, <3>3, Zenon DEF Pend
      <4>2. e \in S => Pend(h, e) = 1
        BY <1>1, Zenon DEF Pend
      <4>3. QED
        BY <4>1, <4>2
    <3>4. QED
      BY <3>2, <3>3, Zenon
  <2>12. CASE h = 1
    <3>1. q2 = p2 /\ (q1 = 1 => p1 = 1) /\ (e \in S => p1 = 1 /\ q1 = 0)
      BY <2>6, <2>9, <2>10, <2>11, <2>12
    <3>2. d + q1 + q2 <= f
      BY <2>3, <2>5, <2>7, <2>8, <3>1
    <3>3. QED
      BY <2>1, <2>2, <2>5, <2>6, <3>2, Zenon
  <2>13. CASE h = 2
    <3>1. q1 = p1 /\ (q2 = 1 => p2 = 1) /\ (e \in S => p2 = 1 /\ q2 = 0)
      BY <2>6, <2>9, <2>10, <2>11, <2>13
    <3>2. d + q1 + q2 <= f
      BY <2>3, <2>5, <2>7, <2>8, <3>1
    <3>3. QED
      BY <2>1, <2>2, <2>5, <2>6, <3>2, Zenon
  <2>14. QED
    BY <2>9, <2>12, <2>13, Zenon
<1>5. QED
  BY <1>4, Zenon DEF CountInv

LEMMA CountNext ==
  ASSUME BaseInv, RowsInv, CountInv, [LogNext]_allVars
  PROVE  CountInv'
<1>0. ShipTypes /\ PhaseInv /\ OrderInv
  BY DEF BaseInv
<1>1. \/ Still \/ SendLog \/ Ship \/ CallReturns \/ CallLost
      \/ \E h \in Handlers : HandlerStep(h)
      \/ SessionEnds /\ ShipperDropped
  BY <1>0, StepKinds
<1>2. CASE Still
  <2>1. /\ sent' = sent /\ copies' = copies /\ handlers' = handlers /\ fails' = fails
        /\ dropped' = dropped /\ wire' = wire /\ Waiting' = Waiting
    BY <1>2, Zenon DEF Still, Waiting
  <2>2. QED
    BY <2>1, CountStill, Zenon
<1>3. CASE SendLog
  BY <1>3, CountSend
<1>4. CASE Ship
  BY <1>4, CountShip
<1>5. CASE CallReturns \/ CallLost
  BY <1>0, <1>5, CallFacts, CountCall, Zenon
<1>6. ASSUME NEW h \in Handlers, HandlerStep(h) PROVE CountInv'
  BY <1>0, <1>6, HandlerStepFacts, CountHandler, Zenon
<1>7. CASE SessionEnds /\ ShipperDropped
  BY <1>0, <1>7, SessionFacts, CountSession, Zenon
<1>8. QED
  BY <1>1, <1>2, <1>3, <1>4, <1>5, <1>6, <1>7, Zenon

\* What is inductive of log shipping.
LogInv == BaseInv /\ RowsInv /\ StoredInv /\ CountInv

LEMMA LogStart == LogInit => LogInv
<1> SUFFICES ASSUME LogInit PROVE LogInv
  OBVIOUS
<1>1. /\ copies = [u \in Tables |-> [e \in Entries |-> 0]] /\ fails = [e \in Entries |-> 0]
      /\ step = "off" /\ handlers = [h \in Handlers |-> Free]
  BY DEF LogInit
<1>2. RowsInv
  BY <1>1 DEF RowsInv
<1>3. StoredInv
  BY <1>1 DEF StoredInv
<1>4. ASSUME NEW e \in Entries
      PROVE  copies[TableOf(e)][e] + Pend(1, e) + Pend(2, e) <= fails[e] + Due(e)
  <2>1. copies[TableOf(e)][e] = 0 /\ fails[e] = 0
    BY <1>1, InTables
  <2>2. handlers[1] = Free /\ handlers[2] = Free
    BY <1>1 DEF Handlers
  <2>3. Pend(1, e) = 0 /\ Pend(2, e) = 0
    BY <2>2, FreeIs, Zenon DEF Pend
  <2>4. Due(e) \in {0, 1}
    BY Zenon DEF Due
  <2>5. QED
    BY <2>1, <2>3, <2>4
<1>5. QED
  BY <1>2, <1>3, <1>4, BaseStart, Zenon DEF LogInv, CountInv

\* A step of the agent's session or of a handler keeps LogInv.
THEOREM LogInductive == LogInv /\ [LogNext]_allVars => LogInv'
BY BaseNext, RowsNext, StoredNext, CountNext, Zenon DEF LogInv

\* A row is stored again only for an entry whose call had not ended well, and in
\* the table of its entry, for every capacity, batch size and number of entries.
THEOREM CopiesAreExplained == LogSpec => []CopiesExplained
<1>1. LogInv => CopiesExplained
  <2> SUFFICES ASSUME LogInv, NEW e \in Entries, NEW t \in Tables
               PROVE  /\ copies[t][e] <= fails[e] + IF e \in Range(Waiting) \cup dropped
                                                       /\ e \notin Range(wire) THEN 0 ELSE 1
                      /\ copies[t][e] > 0 => t = TableOf(e) /\ e \notin Foreign
    BY DEF CopiesExplained
  <2>1. /\ copies \in [Tables -> [Entries -> Nat]] /\ fails \in [Entries -> Nat] /\ RowsInv
        /\ CountInv
    BY DEF LogInv, BaseInv, ShipTypes
  <2>2. copies[t][e] > 0 => t = TableOf(e) /\ e \notin Foreign
    BY <2>1 DEF RowsInv, Own
  <2>3. PICK d : d = Due(e)
    OBVIOUS
  <2>4. d = (IF e \in Range(Waiting) \cup dropped /\ e \notin Range(wire) THEN 0 ELSE 1)
    BY <2>3, Zenon DEF Due, Spent
  <2>5. d \in {0, 1} /\ Pend(1, e) \in {0, 1} /\ Pend(2, e) \in {0, 1}
    BY <2>3, Zenon DEF Pend, Due
  <2>6. copies[TableOf(e)][e] + Pend(1, e) + Pend(2, e) <= fails[e] + d
    BY <2>1, <2>3, Zenon DEF CountInv
  <2>7. copies[t][e] <= fails[e] + d
    <3>1. copies[t][e] \in Nat /\ fails[e] \in Nat
      BY <2>1
    <3>2. CASE t = TableOf(e)
      BY <2>5, <2>6, <3>1, <3>2
    <3>3. CASE t # TableOf(e)
      BY <2>2, <2>5, <3>1, <3>3
    <3>4. QED
      BY <3>2, <3>3
  <2>8. QED
    BY <2>2, <2>4, <2>7, Zenon
<1>2. QED
  BY <1>1, LogStart, LogInductive, PTL DEF LogSpec

-----------------------------------------------------------------------------
(* Log shipping implements LogDelivery *)

Rows == {x \in Tables \X Entries : copies[x[1]][x[2]] > 0}
RowTables == [e \in Entries |-> IF e \in Foreign THEN {} ELSE {TableOf(e)}]
RowsFor(S) == UNION {{<<u, e>> : u \in RowTables[e]} : e \in S}

LEMMA InRowsFor ==
  ASSUME NEW S, S \subseteq Entries, NEW u, NEW e
  PROVE  <<u, e>> \in RowsFor(S) <=> e \in S /\ e \notin Foreign /\ u = TableOf(e)
<1>1. \A x \in S : RowTables[x] = IF x \in Foreign THEN {} ELSE {TableOf(x)}
  BY DEF RowTables
<1>2. <<u, e>> \in RowsFor(S) <=> \E x \in S : \E v \in RowTables[x] : <<u, e>> = <<v, x>>
  BY DEF RowsFor
<1>3. \A x, v : <<u, e>> = <<v, x>> <=> u = v /\ e = x
  OBVIOUS
<1>4. QED
  BY <1>1, <1>2, <1>3

LEMMA InRows ==
  ASSUME NEW u \in Tables, NEW e \in Entries
  PROVE  (<<u, e>> \in Rows <=> copies[u][e] > 0) /\ (<<u, e>> \in Rows' <=> copies'[u][e] > 0)
BY DEF Rows

\* The queue, what is lost and the rows are the abstract ones.
Same == sent' = sent /\ Waiting' = Waiting /\ dropped' = dropped /\ Rows' = Rows

LEMMA SameStutters == Same => UNCHANGED Delivery!vars
BY DEF Same, Rows, Delivery!vars

\* Nothing leaves, or the first n do.
LEMMA LeavesNone ==
  ASSUME QueueInv, Leaves(1..sent, Waiting, 0, Waiting')
  PROVE  Waiting' = Waiting /\ First(Waiting, 0) = {}
<1>1. PICK w \in Seq(1..sent) : w = Waiting
  BY Zenon DEF QueueInv
<1>2. SubSeq(w, 1, Len(w)) = w
  BY SubSeqFull, Zenon
<1>3. Waiting' = SubSeq(w, 0 + 1, Len(w))
  BY <1>1, Zenon DEF Leaves, Suffix
<1>4. 0 + 1 = 1
  OBVIOUS
<1>5. First(Waiting, 0) = {}
  BY DEF First
<1>6. QED
  BY <1>1, <1>2, <1>3, <1>4, <1>5, Zenon

LEMMA AbandonStep ==
  ASSUME QueueInv, NEW n, n \in 0..Len(Waiting), Leaves(1..sent, Waiting, n, Waiting'),
         dropped' = dropped \cup First(Waiting, n), sent' = sent, Rows' = Rows
  PROVE  Delivery!Abandon \/ Same
<1>1. CASE n = 0
  <2>1. Waiting' = Waiting /\ First(Waiting, n) = {}
    BY <1>1, LeavesNone, Zenon
  <2>2. dropped' = dropped
    BY <2>1
  <2>3. QED
    BY <2>1, <2>2, Zenon DEF Same
<1>2. CASE n # 0
  <2>1. Len(Waiting) \in Nat
    BY DEF QueueInv
  <2>2. n \in 1..Len(Waiting)
    BY <1>2, <2>1
  <2>3. Waiting' = SubSeq(Waiting, n + 1, Len(Waiting))
    BY Zenon DEF Leaves, Suffix
  <2>4. Delivery!Leave(n)
    BY <2>3, Zenon DEF Delivery!Leave
  <2>5. dropped' = dropped \cup Delivery!Front(n)
    BY Zenon DEF Delivery!Front, First
  <2>6. QED
    BY <2>2, <2>4, <2>5, Zenon DEF Delivery!Abandon, Rows
<1>3. QED
  BY <1>1, <1>2, Zenon

LEMMA ConfirmStep ==
  ASSUME QueueInv, NEW n, n \in 0..Len(Waiting), Leaves(1..sent, Waiting, n, Waiting'),
         dropped' = dropped, sent' = sent, Rows' = Rows, RowsFor(First(Waiting, n)) \subseteq Rows
  PROVE  Delivery!Confirm \/ Same
<1>1. CASE n = 0
  <2>1. Waiting' = Waiting
    BY <1>1, LeavesNone, Zenon
  <2>2. QED
    BY <2>1, Zenon DEF Same
<1>2. CASE n # 0
  <2>1. Len(Waiting) \in Nat
    BY DEF QueueInv
  <2>2. n \in 1..Len(Waiting)
    BY <1>2, <2>1
  <2>3. Waiting' = SubSeq(Waiting, n + 1, Len(Waiting))
    BY Zenon DEF Leaves, Suffix
  <2>4. Delivery!Leave(n)
    BY <2>3, Zenon DEF Delivery!Leave
  <2>5. Delivery!RowsOf(Delivery!Front(n)) \subseteq Rows
    BY Zenon DEF Delivery!Front, Delivery!RowsOf, First, RowsFor, RowTables
  <2>6. QED
    BY <2>2, <2>4, <2>5, Zenon DEF Delivery!Confirm, Rows
<1>3. QED
  BY <1>1, <1>2, Zenon

\* A step of a handler stores rows of entries that were sent, or none.
LEMMA StoreStep ==
  ASSUME BaseInv, NEW h \in Handlers, HandlerStep(h)
  PROVE  Delivery!Store
<1>0. /\ ShipTypes /\ PhaseInv /\ OrderInv /\ copies \in [Tables -> [Entries -> Nat]]
      /\ sent \in Nat /\ 1..sent \subseteq Entries
  <2>1. /\ ShipTypes /\ PhaseInv /\ OrderInv /\ copies \in [Tables -> [Entries -> Nat]]
        /\ sent \in 0..MaxLog
    BY Zenon DEF BaseInv, ShipTypes
  <2>2. sent \in Nat /\ 1..sent \subseteq Entries
    BY <2>1, LogAssumption DEF Entries
  <2>3. QED
    BY <2>1, <2>2, Zenon
<1>1. PICK q, S, u : Works(h, q, S, u) /\ Adds(S, u) /\ Rest
  BY <1>0, HandlerStepFacts, Zenon
<1>2. /\ S \subseteq Own(sent, u) /\ u \in Tables /\ sent' = sent /\ Waiting' = Waiting
      /\ dropped' = dropped
  BY <1>1, Zenon DEF Works, Rest, Waiting
<1>3. /\ S \subseteq Entries /\ S \subseteq 1..sent
      /\ \A e \in S : e \notin Foreign /\ TableOf(e) = u
  BY <1>0, <1>2 DEF Own
<1>4. PICK K : K = 1..sent
  OBVIOUS
<1>5. K \subseteq Entries /\ S \subseteq K
  BY <1>0, <1>3, <1>4, Zenon
<1>6. RowsFor(S) \subseteq RowsFor(K)
  BY <1>5, Zenon DEF RowsFor
<1>7. Rows' = Rows \cup RowsFor(S)
  <2>1. ASSUME NEW v \in Tables, NEW e \in Entries
        PROVE  <<v, e>> \in Rows' <=> <<v, e>> \in Rows \/ <<v, e>> \in RowsFor(S)
    <3>1. /\ copies[v][e] \in Nat /\ copies'[v][e] \in Nat
          /\ copies'[v][e] = copies[v][e] + IF v = u /\ e \in S THEN 1 ELSE 0
      BY <1>0, <1>1 DEF Adds
    <3>2. copies'[v][e] > 0 <=> (copies[v][e] > 0 \/ (v = u /\ e \in S))
      BY <3>1
    <3>3. <<v, e>> \in RowsFor(S) <=> e \in S /\ e \notin Foreign /\ v = TableOf(e)
      BY <1>3, InRowsFor, Zenon
    <3>4. QED
      BY <1>3, <3>2, <3>3, InRows, Zenon
  <2>2. Rows \subseteq Tables \X Entries /\ Rows' \subseteq Tables \X Entries
    BY DEF Rows
  <2>3. RowsFor(S) \subseteq Tables \X Entries
    <3>1. \A e \in S : RowTables[e] \subseteq Tables /\ e \in Entries
      BY <1>3, InTables DEF RowTables
    <3>2. QED
      BY <3>1 DEF RowsFor
  <2>4. \A x \in Tables \X Entries : \E v \in Tables, e \in Entries : x = <<v, e>>
    OBVIOUS
  <2>5. ASSUME NEW x PROVE x \in Rows' <=> x \in Rows \cup RowsFor(S)
    <3>1. CASE x \in Tables \X Entries
      <4>1. PICK v \in Tables, e \in Entries : x = <<v, e>>
        BY <2>4, <3>1, Zenon
      <4>2. QED
        BY <2>1, <4>1, Zenon
    <3>2. CASE x \notin Tables \X Entries
      BY <2>2, <2>3, <3>2, Zenon
    <3>3. QED
      BY <3>1, <3>2, Zenon
  <2>6. QED
    BY <2>5, Zenon
<1>8. Delivery!RowsOf(1..sent) = RowsFor(K)
  BY <1>4, Zenon DEF Delivery!RowsOf, RowsFor, RowTables
<1>9. \E R \in SUBSET Delivery!RowsOf(1..sent) : Rows' = Rows \cup R
  <2>1. RowsFor(S) \in SUBSET Delivery!RowsOf(1..sent)
    BY <1>6, <1>8, Zenon
  <2>2. QED
    BY <1>7, <2>1, Zenon
<1>10. QED
  BY <1>2, <1>9, Zenon DEF Delivery!Store, Rows

\* The rows of the entries that a successful call lets go are there.
LEMMA CallStep ==
  ASSUME BaseInv, StoredInv, NEW n, NEW kept, NEW gone, EndsCall(n, kept, gone)
  PROVE  Delivery!Confirm \/ Delivery!Abandon \/ Same
<1>1. /\ Leaves(1..sent, Waiting, n, Waiting') /\ n \in 0..Len(Waiting)
      /\ Gone(wire, kept, Waiting, n)
  BY CallQueue
<1>2. QueueInv /\ sent' = sent /\ Rows' = Rows
  BY Zenon DEF BaseInv, EndsCall, Rows
<1>3. CASE gone = Range(wire) \ Range(kept)
  <2>1. dropped' = dropped \cup First(Waiting, n)
    BY <1>1, <1>3, Zenon DEF EndsCall, Gone
  <2>2. QED
    BY <1>1, <1>2, <2>1, AbandonStep, Zenon
<1>4. CASE handlers[call].at = "done" /\ n = Len(wire) /\ gone = {}
  <2>1. dropped' = dropped
    BY <1>4 DEF EndsCall
  <2>2. PICK F : F = First(Waiting, n)
    OBVIOUS
  <2>3. F \subseteq Range(wire)
    BY <1>1, <2>2, Zenon DEF Gone
  <2>4. F \subseteq Entries
    <3>1. F \subseteq 1..sent
      BY <1>1, <2>2, FirstSent, Zenon DEF BaseInv
    <3>2. QED
      BY <3>1, LogAssumption DEF BaseInv, ShipTypes, Entries
  <2>5. ASSUME NEW e \in F PROVE e \in Foreign \/ copies[TableOf(e)][e] > 0
    <3>1. call \in Handlers /\ step = "call"
      BY DEF EndsCall, BaseInv, PhaseInv
    <3>2. Orderly(handlers[call])
      BY <3>1 DEF BaseInv, OrderInv
    <3>3. ~Carries(handlers[call], e)
      <4>1. handlers[call].at = "done"
        BY <1>4
      <4>2. /\ handlers[call].todo = <<>> /\ handlers[call].access = <<>>
            /\ handlers[call].events = <<>>
        BY <3>2, <4>1 DEF Orderly
      <4>3. Range(<<>>) = {}
        BY DEF Range
      <4>4. QED
        BY <4>2, <4>3 DEF Carries
    <3>4. Covers(handlers[call], e)
      <4>1. handlers[call].at \in Live
        BY <1>4 DEF Live
      <4>2. QED
        BY <2>3, <2>5, <3>1, <4>1, Zenon DEF StoredInv
    <3>5. QED
      BY <3>3, <3>4, Zenon DEF Covers
  <2>6. RowsFor(F) \subseteq Rows
    <3>1. ASSUME NEW e \in F, NEW v \in RowTables[e] PROVE <<v, e>> \in Rows
      <4>1. e \notin Foreign /\ v = TableOf(e)
        BY <2>4, <3>1 DEF RowTables
      <4>2. copies[v][e] > 0 /\ v \in Tables /\ e \in Entries
        BY <2>4, <2>5, <4>1, InTables, Zenon
      <4>3. QED
        BY <4>2, InRows, Zenon
    <3>2. QED
      BY <3>1 DEF RowsFor
  <2>7. QED
    BY <1>1, <1>2, <2>1, <2>2, <2>6, ConfirmStep, Zenon
<1>5. QED
  BY <1>3, <1>4, Zenon DEF EndsCall

LEMMA SessionStep ==
  ASSUME BaseInv, EndsSession
  PROVE  Delivery!Abandon \/ Same
<1>0. PICK n : n = Len(wire \o batch)
  OBVIOUS
<1>1. /\ Leaves(1..sent, Waiting, n, Waiting') /\ n \in 0..Len(Waiting)
      /\ Gone(wire \o batch, <<>>, Waiting, n)
      /\ Range(wire \o batch) = Range(wire) \cup Range(batch)
  BY <1>0, SessionQueue
<1>2. Range(wire) \cup Range(batch) = First(Waiting, n)
  <2>1. Range(<<>>) = {}
    BY DEF Range
  <2>2. QED
    BY <1>1, <2>1 DEF Gone
<1>3. dropped' = dropped \cup First(Waiting, n)
  BY <1>2 DEF EndsSession
<1>4. QueueInv /\ sent' = sent /\ Rows' = Rows
  BY Zenon DEF BaseInv, EndsSession, Rows
<1>5. QED
  BY <1>1, <1>3, <1>4, AbandonStep, Zenon

\* The entry that is sent is the last one of the queue, if there is room for it.
LEMMA SendStep ==
  ASSUME BaseInv, SendLog
  PROVE  Delivery!Accept \/ Delivery!Refuse
<1>1. /\ sent \in 0..MaxLog /\ wire \in Seq(1..sent) /\ batch \in Seq(1..sent)
      /\ channel \in Seq(1..sent) /\ Waiting \in Seq(1..sent)
  BY Zenon DEF BaseInv, ShipTypes, QueueInv
<1>2. PICK x : x = sent + 1
  OBVIOUS
<1>3. x \in Entries /\ 1..sent \subseteq Entries
  BY <1>1, <1>2, LogAssumption DEF SendLog, Entries
<1>4. /\ sent' = x /\ batch' = batch /\ wire' = wire /\ Rows' = Rows
  BY <1>2 DEF SendLog, server, Rows
<1>5. /\ \/ Len(channel) < ChannelCap /\ channel' = Append(channel, x) /\ dropped' = dropped
         \/ dropped' = dropped \cup {x} /\ channel' = channel
  BY <1>2, <1>4 DEF SendLog
<1>6. CASE dropped' = dropped \cup {x} /\ channel' = channel
  <2>1. Waiting' = Waiting
    BY <1>4, <1>6, Zenon DEF Waiting
  <2>2. sent + 1 \in Entries /\ sent' = sent + 1 /\ dropped' = dropped \cup {sent'}
    BY <1>2, <1>3, <1>4, <1>6, Zenon
  <2>3. Delivery!Refuse
    BY <1>4, <2>1, <2>2, Zenon DEF Delivery!Refuse, Rows
  <2>4. QED
    BY <2>3
<1>7. CASE Len(channel) < ChannelCap /\ channel' = Append(channel, x) /\ dropped' = dropped
  <2>1. PICK w \in Seq(Entries), b \in Seq(Entries), c \in Seq(Entries) :
          w = wire /\ b = batch /\ c = channel
    BY <1>1, <1>3, LargerSeq, Zenon
  <2>2. w \o b \in Seq(Entries) /\ Len(w \o b) = Len(w) + Len(b)
    BY ConcatProperties, Zenon
  <2>3. PICK p \in Seq(Entries) : p = w \o b /\ Len(p \o c) = Len(p) + Len(c)
    BY <2>2, ConcatProperties, Zenon
  <2>4. p \o Append(c, x) = Append(p \o c, x)
    <3>1. PICK y \in Entries : y = x
      BY <1>3, Zenon
    <3>2. p \o Append(c, y) = Append(p \o c, y)
      BY JoinAppend
    <3>3. QED
      BY <3>1, <3>2, Zenon
  <2>5. Waiting = p \o c /\ Waiting' = p \o Append(c, x)
    BY <1>4, <1>7, <2>1, <2>3, Zenon DEF Waiting
  <2>6. Waiting' = Append(Waiting, sent')
    BY <1>4, <2>4, <2>5, Zenon
  <2>7. Len(Waiting) < ChannelCap + 2 * BatchSize
    <3>1. /\ Len(w) \in Nat /\ Len(b) \in Nat /\ Len(c) \in Nat
      BY <2>1
    <3>2. Len(w) = 0 \/ Len(b) = 0
      <4>1. Len(<<>>) = 0
        OBVIOUS
      <4>2. w = <<>> \/ b = <<>>
        BY <2>1, Zenon DEF BaseInv, PhaseInv
      <4>3. QED
        BY <4>1, <4>2, Zenon
    <3>3. Len(b) <= BatchSize /\ Len(w) <= 2 * BatchSize /\ Len(c) < ChannelCap
      BY <1>7, <2>1, Zenon DEF BaseInv, LengthInv
    <3>4. BatchSize \in Nat /\ ChannelCap \in Nat
      BY LogAssumption
    <3>5. Len(w) + Len(b) + Len(c) < ChannelCap + 2 * BatchSize
      BY <3>1, <3>2, <3>3, <3>4
    <3>6. QED
      BY <2>2, <2>3, <2>5, <3>5, Zenon
  <2>8. sent + 1 \in Entries /\ sent' = sent + 1
    BY <1>2, <1>3, <1>4, Zenon
  <2>9. Delivery!Accept
    BY <1>4, <1>7, <2>6, <2>7, <2>8, Zenon DEF Delivery!Accept, Rows
  <2>10. QED
    BY <2>9
<1>8. QED
  BY <1>5, <1>6, <1>7, Zenon

LEMMA DeliveryStep ==
  ASSUME LogInv, [LogNext]_allVars
  PROVE  [Delivery!Next]_(Delivery!vars)
<1>0. BaseInv /\ StoredInv /\ ShipTypes /\ PhaseInv /\ OrderInv /\ LengthInv
  BY Zenon DEF LogInv, BaseInv
<1>1. CASE Same
  BY <1>1, SameStutters, Zenon
<1>2. CASE Still
  <2>1. Same
    BY <1>2, Zenon DEF Still, Same, Waiting, Rows
  <2>2. QED
    BY <1>1, <2>1, Zenon
<1>3. CASE SendLog
  BY <1>0, <1>3, SendStep, Zenon DEF Delivery!Next
<1>4. CASE Ship
  <2>1. PICK b : Moves(b)
    BY <1>0, <1>4, ShipFacts, Zenon
  <2>2. wire = <<>> /\ sent' = sent /\ dropped' = dropped /\ copies' = copies
    BY <1>0, <1>4, ShipFacts, Zenon
  <2>3. Waiting' = Waiting
    BY <1>0, <2>1, <2>2, ShipQueue, Zenon
  <2>4. Same
    BY <2>2, <2>3, Zenon DEF Same, Rows
  <2>5. QED
    BY <1>1, <2>4, Zenon
<1>5. CASE CallReturns \/ CallLost
  <2>1. PICK n, kept, gone : EndsCall(n, kept, gone)
    BY <1>0, <1>5, CallFacts, Zenon
  <2>2. Delivery!Confirm \/ Delivery!Abandon \/ Same
    BY <1>0, <2>1, CallStep, Zenon
  <2>3. QED
    BY <1>1, <2>2, Zenon DEF Delivery!Next
<1>6. ASSUME NEW h \in Handlers, HandlerStep(h) PROVE Delivery!Next
  BY <1>0, <1>6, StoreStep, Zenon DEF Delivery!Next
<1>7. CASE SessionEnds /\ ShipperDropped
  <2>1. Delivery!Abandon \/ Same
    BY <1>0, <1>7, SessionFacts, SessionStep, Zenon
  <2>2. QED
    BY <1>1, <2>1, Zenon DEF Delivery!Next
<1>8. \/ Still \/ SendLog \/ Ship \/ CallReturns \/ CallLost
      \/ \E h \in Handlers : HandlerStep(h)
      \/ SessionEnds /\ ShipperDropped
  BY <1>0, StepKinds
<1>9. QED
  BY <1>2, <1>3, <1>4, <1>5, <1>6, <1>7, <1>8, Zenon

LEMMA DeliveryStart == LogInit => Delivery!Init
<1> SUFFICES ASSUME LogInit PROVE Delivery!Init
  OBVIOUS
<1>1. /\ sent = 0 /\ channel = <<>> /\ batch = <<>> /\ wire = <<>> /\ dropped = {}
      /\ copies = [u \in Tables |-> [e \in Entries |-> 0]]
  BY DEF LogInit
<1>2. Waiting = <<>>
  <2>1. <<>> \in Seq(Entries)
    OBVIOUS
  <2>2. <<>> \o <<>> = <<>>
    BY <2>1, ConcatEmptySeq, Zenon
  <2>3. QED
    BY <1>1, <2>2, Zenon DEF Waiting
<1>3. Rows = {}
  <2>1. \A u \in Tables, e \in Entries : ~(copies[u][e] > 0)
    BY <1>1
  <2>2. QED
    BY <2>1 DEF Rows
<1>4. QED
  BY <1>1, <1>2, <1>3, Zenon DEF Delivery!Init, Rows

\* send_log, run_log_shipper and ship_logs implement LogDelivery, for every
\* capacity, batch and chunk size: entries leave the agent in the order they
\* were sent, and one that left is a row of its table or was given up.
THEOREM ShippingDelivers == LogSpec => DeliversLogs
BY DeliveryStart, DeliveryStep, LogStart, LogInductive, PTL
   DEF LogSpec, DeliversLogs, Delivery!Spec

-----------------------------------------------------------------------------
(* The dynamic IP blocks (BlockedIps), for any threads, addresses and CIDRs. *)

BlockLabels == {"idle", "sweep", "evict", "remove", "unindex", "insert", "index", "dropsite"}
BlockOps == {"none", "sweep", "evict", "unblock", "cleanup", "waf", "site", "lookup"}

\* No block has a stamp that was not issued.
BlocksType ==
  /\ issued \in 0..MaxBlock /\ lapsed \subseteq 1..issued /\ auto \subseteq 1..issued
  /\ blocked \in [Keys -> 0..issued] /\ pushes \in Nat
  /\ index \subseteq [key : Cidrs, stamp : 1..issued, slot : 1..pushes]
  /\ stage \in [Threads -> BlockLabels] /\ op \in [Threads -> BlockOps]
  /\ key \in [Threads -> Keys \cup {NoKey}] /\ stamp \in [Threads -> 0..issued]
  /\ todo \in [Threads -> SUBSET Keys] /\ cur \in [Threads -> Keys \cup {NoKey}]

\* What a thread holds at each label.
BlockShape(t) ==
  /\ stage[t] = "idle" => op[t] = "none" /\ key[t] = NoKey /\ todo[t] = {}
  /\ stage[t] \in {"sweep", "evict", "insert", "index"} \/ op[t] \in {"sweep", "evict"}
       => key[t] \in Keys /\ stamp[t] # NoStamp
  /\ stage[t] = "index" => key[t] \in Cidrs
  /\ stage[t] \in {"sweep", "evict", "insert", "index", "dropsite"} => todo[t] = {}
  /\ op[t] = "site" => stage[t] \in {"remove", "dropsite"}
  /\ stage[t] = "dropsite" => op[t] = "site"
  /\ IF stage[t] = "unindex" THEN cur[t] \in Keys ELSE cur[t] = NoKey

BlockShapes == \A t \in Threads : BlockShape(t)

\* The blocks of k in the index, and that they are what the map has.
IndexedAs(k) == {e.stamp : e \in {e \in index : e.key = k}}
InStep(k) == IndexedAs(k) = {blocked[k]} \ {NoStamp}

\* Thread t has changed the map for k, and has yet to change the index.
MapRemoved(t, k) ==
  (stage[t] = "unindex" /\ cur[t] = k) \/ (op[t] = "site" /\ k \notin todo[t])
MapInserted(t, k) == stage[t] = "index" /\ key[t] = k
Halfway(t, k) ==
  /\ MapRemoved(t, k) => blocked[k] = NoStamp
  /\ MapInserted(t, k) => blocked[k] = stamp[t]
  /\ InStep(k) \/ MapRemoved(t, k) \/ MapInserted(t, k)

\* Of a CIDR that was never contended: at most one thread is busy with it, and
\* that thread alone accounts for what the index lacks.
StepInv ==
  \A k \in Cidrs \ contended :
    /\ \A t, u \in Threads : k \in Touched(t) /\ k \in Touched(u) => t = u
    /\ \A t \in Threads : k \in Touched(t) => Halfway(t, k)
    /\ (\A t \in Threads : k \notin Touched(t)) => InStep(k)

BlocksInv == BlocksType /\ BlockShapes /\ StepInv

\* The other threads are where they were.
OthersWait(t) ==
  \A u \in Threads \ {t} :
    /\ stage'[u] = stage[u] /\ op'[u] = op[u] /\ key'[u] = key[u] /\ stamp'[u] = stamp[u]
    /\ todo'[u] = todo[u] /\ cur'[u] = cur[u]

\* The map and the index of k are as they were; what thread t does with k.
SameBlock(k) == blocked'[k] = blocked[k] /\ IndexedAs(k)' = IndexedAs(k)
HoldsBlock(t, k) ==
  /\ k \notin Touched(t) => SameBlock(k)
  /\ Halfway(t, k) => Halfway(t, k)'

\* What a step of thread t has to show.
BlockStep(t) ==
  BlocksType' /\ BlockShape(t)' /\ OthersWait(t) /\ \A k \in Cidrs : HoldsBlock(t, k)

\* A thread that changes neither map, and neither was halfway nor gets there.
LEMMA MapsKept ==
  ASSUME NEW t \in Threads, UNCHANGED maps, BlockShape(t),
         stage[t] \notin {"unindex", "index"}, op[t] # "site",
         stage'[t] \notin {"unindex", "index"},
         op'[t] = "site" => todo'[t] = Present
  PROVE  \A k \in Cidrs : HoldsBlock(t, k)
<1> TAKE k \in Cidrs
<1>1. SameBlock(k)
  BY DEF SameBlock, IndexedAs, maps
<1>2. ~MapRemoved(t, k) /\ ~MapInserted(t, k) /\ ~MapInserted(t, k)'
  BY DEF MapRemoved, MapInserted
<1>3. MapRemoved(t, k)' => blocked'[k] = NoStamp
  BY <1>1 DEF MapRemoved, Present, SameBlock, Keys
<1>4. InStep(k) => InStep(k)'
  BY <1>1 DEF InStep, SameBlock
<1>5. QED
  BY <1>1, <1>2, <1>3, <1>4 DEF HoldsBlock, Halfway

\* An operation has collected the keys it is going to remove.
LEMMA CollectStep ==
  ASSUME BlocksType, NEW t \in Threads, BlockShape(t), NEW o \in BlockOps \ {"none"},
         NEW S \in SUBSET Keys, Collect(t, o, S),
         o = "site" => S = Present,
         IF o \in {"sweep", "evict"} THEN stage[t] = o ELSE stage[t] = "idle"
  PROVE  BlockStep(t)
<1> USE DEF maps, blocks
<1>1. /\ stage' = [stage EXCEPT ![t] = "remove"] /\ op' = [op EXCEPT ![t] = o]
      /\ todo' = [todo EXCEPT ![t] = S]
      /\ UNCHANGED <<blocked, index, pushes, issued, auto, lapsed, key, stamp, cur>>
  BY DEF Collect, Goto
<1>2. stage'[t] = "remove" /\ op'[t] = o /\ todo'[t] = S
  BY <1>1 DEF BlocksType
<1>3. BlocksType'
  BY <1>1 DEF BlocksType, BlockLabels
<1>4. BlockShape(t)'
  BY <1>1, <1>2 DEF BlockShape
<1>5. OthersWait(t)
  BY <1>1 DEF OthersWait, BlocksType
<1>6. \A k \in Cidrs : HoldsBlock(t, k)
  <2>1. stage[t] \notin {"unindex", "index"} /\ op[t] # "site"
    BY DEF BlockShape
  <2>2. QED
    BY <1>1, <1>2, <2>1, MapsKept
<1>7. QED
  BY <1>3, <1>4, <1>5, <1>6 DEF BlockStep

\* A thread leaves its operation.
LEMMA FinishFacts ==
  ASSUME BlocksType, NEW t \in Threads, Finish(t)
  PROVE  /\ stage' \in [Threads -> BlockLabels] /\ op' \in [Threads -> BlockOps]
         /\ key' \in [Threads -> Keys \cup {NoKey}] /\ stamp' \in [Threads -> 0..issued]
         /\ todo' \in [Threads -> SUBSET Keys] /\ cur' \in [Threads -> Keys \cup {NoKey}]
         /\ BlockShape(t)' /\ OthersWait(t)
         /\ stage'[t] = "idle" /\ op'[t] = "none"
<1>1. /\ stage' = [stage EXCEPT ![t] = "idle"] /\ op' = [op EXCEPT ![t] = "none"]
      /\ key' = [key EXCEPT ![t] = NoKey] /\ stamp' = [stamp EXCEPT ![t] = 0]
      /\ todo' = [todo EXCEPT ![t] = {}] /\ cur' = [cur EXCEPT ![t] = NoKey]
  BY DEF Finish, Goto, NoStamp
<1>2. issued \in Nat /\ 0 \in 0..issued
  BY DEF BlocksType
<1>3. /\ stage' \in [Threads -> BlockLabels] /\ op' \in [Threads -> BlockOps]
      /\ key' \in [Threads -> Keys \cup {NoKey}] /\ stamp' \in [Threads -> 0..issued]
      /\ todo' \in [Threads -> SUBSET Keys] /\ cur' \in [Threads -> Keys \cup {NoKey}]
  BY <1>1, <1>2 DEF BlocksType, BlockLabels, BlockOps
<1>4. OthersWait(t)
  BY <1>1 DEF OthersWait, BlocksType
<1>5. /\ stage'[t] = "idle" /\ op'[t] = "none" /\ key'[t] = NoKey /\ todo'[t] = {} /\ cur'[t] = NoKey
  BY <1>1 DEF BlocksType
<1>6. BlockShape(t)'
  BY <1>5 DEF BlockShape
<1>7. QED
  BY <1>3, <1>4, <1>5, <1>6

\* block_ip.
LEMMA BlockIpStep ==
  ASSUME BlocksType, NEW t \in Threads, BlockShape(t), NEW k \in Keys, NEW waf, BlockIp(t, k, waf)
  PROVE  BlockStep(t)
<1> USE DEF maps
<1>0. issued \in Nat /\ issued + 1 \in 1..MaxBlock /\ MaxBlock \in Nat
  BY BlockedAssumption DEF BlocksType, BlockIp
<1>1. /\ stage[t] = "idle" /\ issued' = issued + 1 /\ auto' \subseteq auto \cup {issued'}
      /\ key' = [key EXCEPT ![t] = k] /\ stamp' = [stamp EXCEPT ![t] = issued']
      /\ UNCHANGED <<blocked, index, pushes, lapsed, op, todo, cur>>
  BY DEF BlockIp
<1>2. PICK l \in {"sweep", "insert"} : stage' = [stage EXCEPT ![t] = l]
  BY DEF BlockIp, Goto
<1>3. stage'[t] = l /\ op'[t] = op[t] /\ key'[t] = k /\ stamp'[t] = issued' /\ todo'[t] = todo[t]
  BY <1>1, <1>2 DEF BlocksType
<1>4. BlocksType'
  <2>1. 0..issued \subseteq 0..issued' /\ 1..issued \subseteq 1..issued' /\ issued' \in 1..issued'
    BY <1>0, <1>1
  <2>2. issued' \in 0..MaxBlock /\ lapsed' \subseteq 1..issued' /\ auto' \subseteq 1..issued'
    BY <1>0, <1>1, <2>1 DEF BlocksType
  <2>3. blocked' \in [Keys -> 0..issued']
    BY <1>1, <2>1 DEF BlocksType
  <2>4. index' \subseteq [key : Cidrs, stamp : 1..issued', slot : 1..pushes'] /\ pushes' \in Nat
    BY <1>1, <2>1 DEF BlocksType
  <2>5. stamp' \in [Threads -> 0..issued']
    BY <1>0, <1>1, <2>1 DEF BlocksType
  <2>6. stage' \in [Threads -> BlockLabels] /\ key' \in [Threads -> Keys \cup {NoKey}]
    BY <1>1, <1>2 DEF BlocksType, BlockLabels
  <2>7. QED
    BY <1>1, <2>2, <2>3, <2>4, <2>5, <2>6 DEF BlocksType
<1>5. BlockShape(t)'
  BY <1>0, <1>1, <1>2, <1>3 DEF BlockShape, NoStamp
<1>6. OthersWait(t)
  BY <1>1, <1>2 DEF OthersWait, BlocksType
<1>7. \A c \in Cidrs : HoldsBlock(t, c)
  <2>1. op[t] = "none"
    BY <1>1 DEF BlockShape
  <2>2. QED
    BY <1>1, <1>2, <1>3, <2>1, MapsKept
<1>8. QED
  BY <1>4, <1>5, <1>6, <1>7 DEF BlockStep

\* The removal loop: the map.
LEMMA RemoveMapStep ==
  ASSUME BlocksType, NEW t \in Threads, BlockShape(t), RemoveMap(t)
  PROVE  BlockStep(t)
<1> USE DEF blocks
<1>1. PICK x \in todo[t] :
        /\ blocked' = [blocked EXCEPT ![x] = NoStamp] /\ todo' = [todo EXCEPT ![t] = @ \ {x}]
        /\ IF op[t] = "site" THEN UNCHANGED <<stage, cur>>
           ELSE cur' = [cur EXCEPT ![t] = x] /\ stage' = [stage EXCEPT ![t] = "unindex"]
  BY DEF RemoveMap, Goto
<1>2. stage[t] = "remove" /\ UNCHANGED <<index, pushes, issued, auto, lapsed, op, key, stamp>>
  BY DEF RemoveMap
<1>3. /\ x \in Keys /\ x \in Touched(t) /\ todo'[t] = todo[t] \ {x} /\ op'[t] = op[t]
      /\ IF op[t] = "site" THEN stage'[t] = "remove" /\ cur'[t] = cur[t]
         ELSE stage'[t] = "unindex" /\ cur'[t] = x
  BY <1>1, <1>2 DEF BlocksType, Touched
<1>4. BlocksType'
  <2>1. NoStamp \in 0..issued
    BY DEF BlocksType, NoStamp
  <2>2. blocked' \in [Keys -> 0..issued']
    BY <1>1, <1>2, <2>1 DEF BlocksType
  <2>3. todo' \in [Threads -> SUBSET Keys]
    BY <1>1 DEF BlocksType
  <2>4. stage' \in [Threads -> BlockLabels] /\ cur' \in [Threads -> Keys \cup {NoKey}]
    BY <1>1, <1>3 DEF BlocksType, BlockLabels
  <2>5. QED
    BY <1>2, <2>2, <2>3, <2>4 DEF BlocksType
<1>5. BlockShape(t)'
  BY <1>2, <1>3 DEF BlockShape
<1>6. OthersWait(t)
  BY <1>1, <1>2 DEF OthersWait, BlocksType
<1>7. ASSUME NEW k \in Cidrs PROVE HoldsBlock(t, k)
  <2>1. IndexedAs(k)' = IndexedAs(k) /\ k \in Keys
    BY <1>2 DEF IndexedAs, Keys
  <2>2. ~MapInserted(t, k) /\ ~MapInserted(t, k)'
    BY <1>2, <1>3 DEF MapInserted
  <2>3. CASE k = x
    <3>1. MapRemoved(t, k)' /\ blocked'[k] = NoStamp
      BY <1>1, <1>3, <2>3 DEF MapRemoved, BlocksType
    <3>2. QED
      BY <1>3, <2>2, <2>3, <3>1 DEF HoldsBlock, Halfway
  <2>4. CASE k # x
    <3>1. SameBlock(k)
      BY <1>1, <2>1, <2>4 DEF SameBlock, BlocksType
    <3>2. MapRemoved(t, k)' <=> MapRemoved(t, k)
      BY <1>2, <1>3, <2>4 DEF MapRemoved
    <3>3. InStep(k) => InStep(k)'
      BY <3>1 DEF InStep, SameBlock
    <3>4. QED
      BY <2>2, <3>1, <3>2, <3>3 DEF HoldsBlock, Halfway, SameBlock
  <2>5. QED
    BY <2>3, <2>4
<1>8. QED
  BY <1>4, <1>5, <1>6, <1>7 DEF BlockStep

\* index_remove_key.
LEMMA UnindexStep ==
  ASSUME BlocksType, NEW t \in Threads, BlockShape(t), Unindex(t)
  PROVE  BlockStep(t)
<1> USE DEF blocks
<1>1. /\ stage[t] = "unindex" /\ index' = {e \in index : e.key # cur[t]}
      /\ cur' = [cur EXCEPT ![t] = NoKey] /\ stage' = [stage EXCEPT ![t] = "remove"]
      /\ UNCHANGED <<blocked, pushes, issued, auto, lapsed, op, key, stamp, todo>>
  BY DEF Unindex, Goto
<1>2. stage'[t] = "remove" /\ cur'[t] = NoKey /\ op[t] # "site" /\ cur[t] \in Keys
  BY <1>1 DEF BlocksType, BlockShape
<1>3. BlocksType'
  BY <1>1 DEF BlocksType, BlockLabels
<1>4. BlockShape(t)'
  BY <1>1, <1>2 DEF BlockShape
<1>5. OthersWait(t)
  BY <1>1 DEF OthersWait, BlocksType
<1>6. ASSUME NEW k \in Cidrs PROVE HoldsBlock(t, k)
  <2>1. ~MapRemoved(t, k)' /\ ~MapInserted(t, k) /\ ~MapInserted(t, k)'
    BY <1>1, <1>2 DEF MapRemoved, MapInserted
  <2>2. CASE k = cur[t]
    <3>1. IndexedAs(k)' = {}
      BY <1>1, <2>2 DEF IndexedAs
    <3>2. MapRemoved(t, k) /\ k \in Touched(t)
      BY <1>1, <1>2, <2>2, BlockedAssumption DEF MapRemoved, Touched, Keys
    <3>3. Halfway(t, k) => InStep(k)'
      BY <1>1, <3>1, <3>2 DEF Halfway, InStep
    <3>4. QED
      BY <2>1, <3>2, <3>3 DEF HoldsBlock, Halfway
  <2>3. CASE k # cur[t]
    <3>1. SameBlock(k)
      BY <1>1, <2>3 DEF SameBlock, IndexedAs
    <3>2. ~MapRemoved(t, k)
      BY <1>2, <2>3 DEF MapRemoved
    <3>3. InStep(k) => InStep(k)'
      BY <3>1 DEF InStep, SameBlock
    <3>4. QED
      BY <2>1, <3>1, <3>2, <3>3 DEF HoldsBlock, Halfway
  <2>4. QED
    BY <2>2, <2>3
<1>7. QED
  BY <1>3, <1>4, <1>5, <1>6 DEF BlockStep

\* The end of the loop.
LEMMA LoopDoneStep ==
  ASSUME BlocksType, NEW t \in Threads, BlockShape(t), LoopDone(t)
  PROVE  BlockStep(t)
<1> USE DEF blocks, maps
<1>1. stage[t] = "remove" /\ todo[t] = {} /\ UNCHANGED <<blocked, index, pushes, issued, auto, lapsed>>
  BY DEF LoopDone
<1>2. CASE After(op[t]) = "idle"
  <2>1. Finish(t) /\ op[t] # "site"
    BY <1>2 DEF LoopDone, After
  <2>2. BlocksType'
    BY <1>1, <2>1, FinishFacts DEF BlocksType
  <2>3. \A k \in Cidrs : HoldsBlock(t, k)
    BY <1>1, <2>1, FinishFacts, MapsKept
  <2>4. QED
    BY <2>1, <2>2, <2>3, FinishFacts DEF BlockStep
<1>3. CASE After(op[t]) # "idle"
  <2>1. /\ stage' = [stage EXCEPT ![t] = After(op[t])] /\ UNCHANGED <<op, key, stamp, todo, cur>>
        /\ After(op[t]) \in {"evict", "insert", "dropsite"}
        /\ op[t] = "site" <=> After(op[t]) = "dropsite"
        /\ op[t] \in {"sweep", "evict", "site"}
    BY <1>3 DEF LoopDone, After, Goto
  <2>2. stage'[t] = After(op[t])
    BY <2>1 DEF BlocksType
  <2>3. BlocksType'
    BY <1>1, <2>1 DEF BlocksType, BlockLabels
  <2>4. BlockShape(t)'
    BY <1>1, <2>1, <2>2 DEF BlockShape
  <2>5. OthersWait(t)
    BY <2>1 DEF OthersWait, BlocksType
  <2>6. ASSUME NEW k \in Cidrs PROVE HoldsBlock(t, k)
    <3>1. SameBlock(k)
      BY <1>1 DEF SameBlock, IndexedAs
    <3>2. ~MapInserted(t, k) /\ ~MapInserted(t, k)' /\ (MapRemoved(t, k)' <=> MapRemoved(t, k))
      BY <1>1, <2>1, <2>2 DEF MapInserted, MapRemoved
    <3>3. InStep(k) => InStep(k)'
      BY <3>1 DEF InStep, SameBlock
    <3>4. QED
      BY <3>1, <3>2, <3>3 DEF HoldsBlock, Halfway, SameBlock
  <2>7. QED
    BY <2>3, <2>4, <2>5, <2>6 DEF BlockStep
<1>4. QED
  BY <1>2, <1>3

\* block_ip: the map.
LEMMA InsertStep ==
  ASSUME BlocksType, NEW t \in Threads, BlockShape(t), Insert(t)
  PROVE  BlockStep(t)
<1> USE DEF blocks
<1>1. /\ stage[t] = "insert" /\ blocked' = [blocked EXCEPT ![key[t]] = stamp[t]]
      /\ UNCHANGED <<index, pushes, issued, auto, lapsed>>
  BY DEF Insert
<1>2. key[t] \in Keys /\ op[t] # "site" /\ stamp[t] \in 0..issued /\ key[t] \in Touched(t)
  BY <1>1, BlockedAssumption DEF BlockShape, BlocksType, Touched, Keys
<1>3. blocked' \in [Keys -> 0..issued']
  BY <1>1, <1>2 DEF BlocksType
<1>4. ASSUME NEW k \in Cidrs, k # key[t]
      PROVE  SameBlock(k) /\ ~MapRemoved(t, k) /\ ~MapInserted(t, k) /\ (InStep(k) => InStep(k)')
  <2>1. SameBlock(k)
    BY <1>1, <1>4 DEF SameBlock, IndexedAs, BlocksType, Keys
  <2>2. ~MapRemoved(t, k) /\ ~MapInserted(t, k)
    BY <1>1, <1>2 DEF MapRemoved, MapInserted
  <2>3. QED
    BY <2>1, <2>2 DEF InStep, SameBlock
<1>5. CASE key[t] \in Cidrs
  <2>1. stage' = [stage EXCEPT ![t] = "index"] /\ UNCHANGED <<op, key, stamp, todo, cur>>
    BY <1>5 DEF Insert, Goto
  <2>2. stage'[t] = "index"
    BY <2>1 DEF BlocksType
  <2>3. BlocksType'
    BY <1>1, <1>3, <2>1 DEF BlocksType, BlockLabels
  <2>4. BlockShape(t)'
    BY <1>1, <1>2, <1>5, <2>1, <2>2 DEF BlockShape
  <2>5. OthersWait(t)
    BY <2>1 DEF OthersWait, BlocksType
  <2>6. ASSUME NEW k \in Cidrs PROVE HoldsBlock(t, k)
    <3>1. ~MapRemoved(t, k)'
      BY <1>2, <2>1, <2>2 DEF MapRemoved
    <3>2. CASE k = key[t]
      <4>1. MapInserted(t, k)' /\ blocked'[k] = stamp'[t]
        BY <1>1, <1>2, <2>1, <2>2, <3>2 DEF MapInserted, BlocksType
      <4>2. QED
        BY <1>2, <3>1, <3>2, <4>1 DEF HoldsBlock, Halfway
    <3>3. CASE k # key[t]
      <4>1. ~MapInserted(t, k)'
        BY <2>1, <3>3 DEF MapInserted
      <4>2. QED
        BY <1>4, <3>1, <3>3, <4>1 DEF HoldsBlock, Halfway
    <3>4. QED
      BY <3>2, <3>3
  <2>7. QED
    BY <2>3, <2>4, <2>5, <2>6 DEF BlockStep
<1>6. CASE key[t] \notin Cidrs
  <2>1. Finish(t)
    BY <1>6 DEF Insert
  <2>2. BlocksType'
    BY <1>1, <1>3, <2>1, FinishFacts DEF BlocksType
  <2>3. ASSUME NEW k \in Cidrs PROVE HoldsBlock(t, k)
    <3>1. ~MapRemoved(t, k)' /\ ~MapInserted(t, k)'
      BY <2>1, FinishFacts DEF MapRemoved, MapInserted
    <3>2. QED
      BY <1>4, <1>6, <3>1 DEF HoldsBlock, Halfway
  <2>4. QED
    BY <2>1, <2>2, <2>3, FinishFacts DEF BlockStep
<1>7. QED
  BY <1>5, <1>6

\* index_insert.
LEMMA IndexStep ==
  ASSUME BlocksType, NEW t \in Threads, BlockShape(t), Index(t)
  PROVE  BlockStep(t)
<1> USE DEF blocks
<1> DEFINE old == {e \in index : e.key = key[t]}
<1>1. stage[t] = "index" /\ Finish(t) /\ UNCHANGED <<blocked, issued, auto, lapsed>>
  BY DEF Index
<1>2. \/ /\ old = {} /\ pushes' = pushes + 1
         /\ index' = index \cup {[key |-> key[t], stamp |-> stamp[t], slot |-> pushes']}
      \/ /\ old # {} /\ pushes' = pushes
         /\ index' = (index \ old) \cup {[e EXCEPT !.stamp = stamp[t]] : e \in old}
  BY DEF Index
<1>3. /\ key[t] \in Cidrs /\ key[t] \in Touched(t) /\ op[t] # "site"
      /\ issued \in Nat /\ stamp[t] \in 1..issued /\ pushes \in Nat
      /\ index \subseteq [key : Cidrs, stamp : 1..issued, slot : 1..pushes]
  <2>1. stamp[t] # 0 /\ stamp[t] \in 0..issued /\ issued \in Nat
    BY <1>1 DEF BlockShape, BlocksType, NoStamp
  <2>2. QED
    BY <1>1, <2>1, BlockedAssumption DEF BlockShape, BlocksType, Touched, Keys
<1>4. /\ index' \subseteq [key : Cidrs, stamp : 1..issued, slot : 1..pushes'] /\ pushes' \in Nat
      /\ \A k \in Cidrs : k = key[t] => IndexedAs(k)' = {stamp[t]}
      /\ \A k \in Cidrs \ {key[t]} : IndexedAs(k)' = IndexedAs(k)
  <2>1. CASE old = {}
    <3> DEFINE new == [key |-> key[t], stamp |-> stamp[t], slot |-> pushes + 1]
    <3>1. index' = index \cup {new} /\ pushes' = pushes + 1 /\ \A e \in index : e.key # key[t]
      BY <1>2, <2>1
    <3>2. new \in [key : Cidrs, stamp : 1..issued, slot : 1..pushes'] /\ 1..pushes \subseteq 1..pushes'
      BY <1>3, <3>1
    <3>3. index' \subseteq [key : Cidrs, stamp : 1..issued, slot : 1..pushes'] /\ pushes' \in Nat
      BY <1>3, <3>1, <3>2
    <3>4. new.key = key[t] /\ new.stamp = stamp[t]
      OBVIOUS
    <3> HIDE DEF new
    <3>5. {e \in index' : e.key = key[t]} = {new}
      BY <3>1, <3>4
    <3>6. \A k \in Cidrs \ {key[t]} : {e \in index' : e.key = k} = {e \in index : e.key = k}
      BY <3>1, <3>4
    <3>7. QED
      BY <3>3, <3>4, <3>5, <3>6 DEF IndexedAs
  <2>2. CASE old # {}
    <3> DEFINE upd == {[e EXCEPT !.stamp = stamp[t]] : e \in old}
    <3>1. index' = (index \ old) \cup upd /\ pushes' = pushes
      BY <1>2, <2>2
    <3>2. \A e \in upd : /\ e.key = key[t] /\ e.stamp = stamp[t]
                         /\ e \in [key : Cidrs, stamp : 1..issued, slot : 1..pushes]
      BY <1>3
    <3>3. upd # {}
      BY <2>2
    <3> HIDE DEF upd
    <3>4. index' \subseteq [key : Cidrs, stamp : 1..issued, slot : 1..pushes'] /\ pushes' \in Nat
      BY <1>3, <3>1, <3>2
    <3>5. {e \in index' : e.key = key[t]} = upd
      BY <3>1, <3>2
    <3>6. \A k \in Cidrs \ {key[t]} : {e \in index' : e.key = k} = {e \in index : e.key = k}
      BY <3>1, <3>2
    <3>7. {e.stamp : e \in upd} = {stamp[t]}
      BY <3>2, <3>3
    <3>8. QED
      BY <3>4, <3>5, <3>6, <3>7 DEF IndexedAs
  <2>3. QED
    BY <2>1, <2>2
<1> HIDE DEF old
<1>5. BlocksType'
  BY <1>1, <1>4, FinishFacts DEF BlocksType
<1>6. ASSUME NEW k \in Cidrs PROVE HoldsBlock(t, k)
  <2>1. ~MapRemoved(t, k)' /\ ~MapInserted(t, k)' /\ ~MapRemoved(t, k)
    BY <1>1, <1>3, FinishFacts DEF MapRemoved, MapInserted
  <2>2. CASE k = key[t]
    <3>1. MapInserted(t, k) /\ IndexedAs(k)' = {stamp[t]} /\ stamp[t] # NoStamp
      BY <1>1, <1>3, <1>4, <2>2 DEF MapInserted, NoStamp
    <3>2. Halfway(t, k) => InStep(k)'
      BY <1>1, <3>1 DEF Halfway, InStep
    <3>3. QED
      BY <1>3, <2>1, <2>2, <3>2 DEF HoldsBlock, Halfway
  <2>3. CASE k # key[t]
    <3>1. SameBlock(k) /\ ~MapInserted(t, k)
      BY <1>1, <1>4, <2>3 DEF SameBlock, MapInserted
    <3>2. InStep(k) => InStep(k)'
      BY <3>1 DEF InStep, SameBlock
    <3>3. QED
      BY <2>1, <3>1, <3>2 DEF HoldsBlock, Halfway
  <2>4. QED
    BY <2>2, <2>3
<1>7. QED
  BY <1>1, <1>5, <1>6, FinishFacts DEF BlockStep

\* index_remove_site.
LEMMA DropSiteStep ==
  ASSUME BlocksType, NEW t \in Threads, BlockShape(t), DropSite(t)
  PROVE  BlockStep(t)
<1> USE DEF blocks
<1>1. /\ stage[t] = "dropsite" /\ index' = {} /\ Finish(t)
      /\ UNCHANGED <<blocked, pushes, issued, auto, lapsed>>
  BY DEF DropSite
<1>2. op[t] = "site" /\ todo[t] = {}
  BY <1>1 DEF BlockShape
<1>3. BlocksType'
  BY <1>1, FinishFacts DEF BlocksType
<1>4. ASSUME NEW k \in Cidrs PROVE HoldsBlock(t, k)
  <2>1. k \in Touched(t) /\ MapRemoved(t, k)
    BY <1>2 DEF Touched, MapRemoved, Keys
  <2>2. IndexedAs(k)' = {}
    BY <1>1 DEF IndexedAs
  <2>3. Halfway(t, k) => InStep(k)'
    BY <1>1, <2>1, <2>2 DEF Halfway, InStep
  <2>4. ~MapRemoved(t, k)' /\ ~MapInserted(t, k)'
    BY <1>1, FinishFacts DEF MapRemoved, MapInserted
  <2>5. QED
    BY <2>1, <2>3, <2>4 DEF HoldsBlock, Halfway
<1>5. QED
  BY <1>1, <1>3, <1>4, FinishFacts DEF BlockStep

\* An expiry changes neither map.
LEMMA LapseStep ==
  ASSUME BlocksType, NEW s \in Stamps, Lapse(s) PROVE BlocksType'
<1> USE DEF maps, threads
<1>1. /\ lapsed' = lapsed \cup {s}
      /\ UNCHANGED <<blocked, index, pushes, issued, auto, stage, op, key, stamp, todo, cur>>
  BY DEF Lapse
<1>2. s \in 1..issued
  <2>1. s \in Nat \ {0} /\ issued \in Nat
    BY BlockedAssumption DEF Stamps, BlocksType
  <2>2. s \in 0..issued
    BY DEF Lapse, BlocksType
  <2>3. QED
    BY <2>1, <2>2
<1>3. QED
  BY <1>1, <1>2 DEF BlocksType

\* A thread's step, whichever it is.
LEMMA ThreadBlocks ==
  ASSUME BlocksType, BlockShapes, Step,
         ~("lapse" \in Ops /\ \E s \in Stamps : Lapse(s))
  PROVE  \E t \in Threads : BlockStep(t)
<1>1. PICK t \in Threads :
       \/ \E k \in Keys : BlockIp(t, k, FALSE)
       \/ "waf" \in Ops /\ \E a \in Addrs : BlockIp(t, a, TRUE)
       \/ "unblock" \in Ops /\ \E k \in Keys : UnblockIp(t, k)
       \/ "cleanup" \in Ops /\ CleanupExpiredBlocks(t)
       \/ "waf" \in Ops /\ ClearWafAutoBlocks(t)
       \/ "site" \in Ops /\ ClearSiteBlocks(t)
       \/ "lookup" \in Ops /\ \E a \in Addrs : Lookup(t, a)
       \/ Sweep(t) \/ Evict(t) \/ Insert(t) \/ Index(t)
       \/ RemoveMap(t) \/ Unindex(t) \/ LoopDone(t) \/ DropSite(t)
  BY DEF Step
<1>2. BlockShape(t) /\ Addrs \subseteq Keys
  BY DEF BlockShapes, Keys
<1>3. CASE (\E k \in Keys : BlockIp(t, k, FALSE)) \/ (\E a \in Addrs : BlockIp(t, a, TRUE))
  BY <1>2, <1>3, BlockIpStep
<1>4. CASE \E k \in Keys : UnblockIp(t, k)
  <2>1. PICK k \in Keys : stage[t] = "idle" /\ Collect(t, "unblock", {k})
    BY <1>4 DEF UnblockIp
  <2>2. {k} \in SUBSET Keys /\ "unblock" \in BlockOps \ {"none"}
    BY DEF BlockOps
  <2>3. QED
    BY <1>2, <2>1, <2>2, CollectStep
<1>5. ASSUME NEW o \in {"cleanup", "waf", "site", "lookup"}, NEW S \in SUBSET Keys, stage[t] = "idle",
             Collect(t, o, S), o = "site" => S = Present
      PROVE  BlockStep(t)
  <2>1. o \in BlockOps \ {"none"}
    BY DEF BlockOps
  <2>2. QED
    BY <1>2, <1>5, <2>1, CollectStep
<1>6. CASE CleanupExpiredBlocks(t) \/ ClearWafAutoBlocks(t) \/ ClearSiteBlocks(t)
  <2>1. Expired \in SUBSET Keys /\ Present \in SUBSET Keys /\ InForce \in SUBSET Keys
    BY DEF Expired, Present, InForce
  <2>2. {k \in InForce : blocked[k] \in auto} \in SUBSET Keys
    BY <2>1
  <2>3. QED
    BY <1>5, <1>6, <2>1, <2>2 DEF CleanupExpiredBlocks, ClearWafAutoBlocks, ClearSiteBlocks
<1>7. CASE \E a \in Addrs : Lookup(t, a)
  <2>1. PICK a \in Addrs : stage[t] = "idle" /\ Collect(t, "lookup", {a})
    BY <1>7 DEF Lookup
  <2>2. {a} \in SUBSET Keys
    BY <1>2
  <2>3. QED
    BY <1>5, <2>1, <2>2
<1>8. CASE Sweep(t) \/ Evict(t)
  <2>1. PICK o \in {"sweep", "evict"} : \E S \in SUBSET Keys : stage[t] = o /\ Collect(t, o, S)
    <3>1. CASE Sweep(t)
      <4>1. Expired \in SUBSET Keys
        BY DEF Expired, Present
      <4>2. QED
        BY <3>1, <4>1 DEF Sweep
    <3>2. CASE Evict(t)
      <4> DEFINE R == {k \in Present : Cardinality({l \in Present : blocked[l] < blocked[k]})
                                         < Cardinality(Present) - Target}
      <4>1. R \in SUBSET Keys
        BY DEF Present
      <4>2. stage[t] = "evict" /\ Collect(t, "evict", R)
        BY <3>2 DEF Evict
      <4>3. QED
        BY <4>1, <4>2
    <3>3. QED
      BY <1>8, <3>1, <3>2
  <2>2. o \in BlockOps \ {"none"}
    BY DEF BlockOps
  <2>3. QED
    BY <1>2, <2>1, <2>2, CollectStep
<1>9. CASE Insert(t) \/ Index(t) \/ RemoveMap(t) \/ Unindex(t) \/ LoopDone(t) \/ DropSite(t)
  BY <1>2, <1>9, InsertStep, IndexStep, RemoveMapStep, UnindexStep, LoopDoneStep, DropSiteStep
<1>10. QED
  BY <1>1, <1>3, <1>4, <1>6, <1>7, <1>8, <1>9

\* No two threads are busy with what is not contended.
LEMMA Uncontended ==
  ASSUME BlocksNext, NEW k \in Cidrs \ contended'
  PROVE  k \notin contended /\ \A t, u \in Threads : k \in Touched(t)' /\ k \in Touched(u)' => t = u
<1>1. k \notin contended /\ k \notin Contended'
  BY DEF BlocksNext
<1>2. QED
  BY <1>1 DEF Contended, Keys

\* Whoever is busy with an uncontended CIDR keeps its index in step.
LEMMA StepKeeps ==
  ASSUME BlocksInv, BlocksNext, NEW t \in Threads, BlockStep(t)
  PROVE  BlocksInv'
<1>1. BlocksType'
  BY DEF BlockStep
<1>2. OthersWait(t) /\ BlockShape(t)'
  BY DEF BlockStep
<1>3. BlockShapes'
  <2>1. ASSUME NEW u \in Threads \ {t} PROVE BlockShape(u)'
    <3>1. BlockShape(u)
      BY DEF BlocksInv, BlockShapes
    <3>2. QED
      BY <1>2, <3>1 DEF OthersWait, BlockShape
  <2>2. QED
    BY <1>2, <2>1 DEF BlockShapes
<1>4. \A u \in Threads \ {t} : Touched(u)' = Touched(u)
  BY <1>2 DEF OthersWait, Touched
<1>5. ASSUME NEW k \in Cidrs \ contended'
      PROVE  /\ \A u \in Threads : k \in Touched(u)' => Halfway(u, k)'
             /\ (\A u \in Threads : k \notin Touched(u)') => InStep(k)'
  <2>1. /\ k \notin contended
        /\ \A u, v \in Threads : k \in Touched(u)' /\ k \in Touched(v)' => u = v
    BY Uncontended
  <2>2. /\ \A u, v \in Threads : k \in Touched(u) /\ k \in Touched(v) => u = v
        /\ \A u \in Threads : k \in Touched(u) => Halfway(u, k)
        /\ (\A u \in Threads : k \notin Touched(u)) => InStep(k)
    BY <2>1 DEF BlocksInv, StepInv
  <2>3. HoldsBlock(t, k)
    BY DEF BlockStep
  <2>4. k \in Keys /\ NoKey # k
    BY BlockedAssumption DEF Keys
  <2>5. ASSUME k \in Touched(t) \/ k \in Touched(t)'
        PROVE  Halfway(t, k)' /\ \A u \in Threads \ {t} : k \notin Touched(u)'
    <3>1. \A u \in Threads \ {t} : k \notin Touched(u)' /\ k \notin Touched(u)
      BY <1>4, <2>1, <2>2, <2>5
    <3>2. Halfway(t, k)
      <4>1. CASE k \in Touched(t)
        BY <2>2, <4>1
      <4>2. CASE k \notin Touched(t)
        <5>1. InStep(k)
          BY <2>2, <3>1, <4>2
        <5>2. ~MapRemoved(t, k) /\ ~MapInserted(t, k)
          BY <2>4, <4>2 DEF MapRemoved, MapInserted, Touched
        <5>3. QED
          BY <5>1, <5>2 DEF Halfway
      <4>3. QED
        BY <4>1, <4>2
    <3>3. QED
      BY <2>3, <3>1, <3>2 DEF HoldsBlock
  <2>6. CASE k \in Touched(t) \/ k \in Touched(t)'
    <3>1. Halfway(t, k)' /\ \A u \in Threads \ {t} : k \notin Touched(u)'
      BY <2>5, <2>6
    <3>2. k \notin Touched(t)' => InStep(k)'
      <4>1. k \notin Touched(t)' => ~MapRemoved(t, k)' /\ ~MapInserted(t, k)'
        BY <2>4 DEF MapRemoved, MapInserted, Touched
      <4>2. QED
        BY <3>1, <4>1 DEF Halfway
    <3>3. QED
      BY <3>1, <3>2
  <2>7. CASE k \notin Touched(t) /\ k \notin Touched(t)'
    <3>1. SameBlock(k)
      BY <2>3, <2>7 DEF HoldsBlock
    <3>2. InStep(k) => InStep(k)'
      BY <3>1 DEF InStep, SameBlock
    <3>3. ASSUME NEW u \in Threads, k \in Touched(u)' PROVE Halfway(u, k)'
      <4>1. u # t /\ Halfway(u, k)
        BY <1>4, <2>2, <2>7, <3>3
      <4>2. (MapRemoved(u, k)' <=> MapRemoved(u, k)) /\ (MapInserted(u, k)' <=> MapInserted(u, k))
        BY <1>2, <4>1 DEF OthersWait, MapRemoved, MapInserted
      <4>3. stamp'[u] = stamp[u] /\ blocked'[k] = blocked[k]
        BY <1>2, <3>1, <4>1 DEF OthersWait, SameBlock
      <4>4. QED
        BY <3>2, <4>1, <4>2, <4>3 DEF Halfway
    <3>4. ASSUME \A u \in Threads : k \notin Touched(u)' PROVE InStep(k)'
      <4>1. \A u \in Threads : k \notin Touched(u)
        BY <1>4, <2>7, <3>4
      <4>2. QED
        BY <2>2, <3>2, <4>1
    <3>5. QED
      BY <3>3, <3>4
  <2>8. QED
    BY <2>6, <2>7
<1>6. StepInv'
  <2>1. ASSUME NEW k \in Cidrs \ contended'
        PROVE  \A u, v \in Threads : k \in Touched(u)' /\ k \in Touched(v)' => u = v
    BY Uncontended
  <2>2. QED
    BY <1>5, <2>1 DEF StepInv
<1>7. QED
  BY <1>1, <1>3, <1>6 DEF BlocksInv

\* Nothing of the maps or the threads changes.
LEMMA StillKeeps ==
  ASSUME BlocksInv, BlocksType', UNCHANGED <<maps, threads>>, contended \subseteq contended'
  PROVE  BlocksInv'
<1> USE DEF maps, threads
<1>1. BlockShapes'
  BY DEF BlocksInv, BlockShapes, BlockShape
<1>2. ASSUME NEW k \in Cidrs \ contended'
      PROVE  /\ \A t, u \in Threads : k \in Touched(t)' /\ k \in Touched(u)' => t = u
             /\ \A t \in Threads : k \in Touched(t)' => Halfway(t, k)'
             /\ (\A t \in Threads : k \notin Touched(t)') => InStep(k)'
  <2>1. \A t \in Threads : Touched(t)' = Touched(t)
    BY DEF Touched
  <2>2. InStep(k)' <=> InStep(k)
    BY DEF InStep, IndexedAs
  <2>3. \A t \in Threads : Halfway(t, k) => Halfway(t, k)'
    BY <2>2 DEF Halfway, MapRemoved, MapInserted
  <2>4. QED
    BY <2>1, <2>2, <2>3 DEF BlocksInv, StepInv
<1>3. StepInv'
  BY <1>2 DEF StepInv
<1>4. QED
  BY <1>1, <1>3 DEF BlocksInv

\* blocked_ips and cidr_index: the index of a CIDR that no two operations were
\* busy with at once is in step with the map whenever none is, whatever happens
\* to the other keys (IndexInStep), for any threads, addresses and CIDRs.
THEOREM IndexesInStep == BlocksSpec => []IndexInStep
<1>1. BlocksInit => BlocksInv
  <2> SUFFICES ASSUME BlocksInit PROVE BlocksInv
    OBVIOUS
  <2> USE DEF BlocksInit, NoStamp
  <2>1. BlocksType
    BY BlockedAssumption DEF BlocksType, BlockLabels, BlockOps
  <2>2. BlockShapes
    BY DEF BlockShapes, BlockShape
  <2>3. \A t \in Threads : Touched(t) = {}
    BY DEF Touched
  <2>4. \A k \in Cidrs : InStep(k)
    BY DEF InStep, IndexedAs, Keys
  <2>5. QED
    BY <2>1, <2>2, <2>3, <2>4 DEF BlocksInv, StepInv
<1>2. BlocksInv /\ [BlocksNext]_blocksVars => BlocksInv'
  <2>1. ASSUME BlocksInv, BlocksNext PROVE BlocksInv'
    <3>1. BlocksType /\ BlockShapes /\ Step /\ contended \subseteq contended'
      BY <2>1 DEF BlocksInv, BlocksNext
    <3>2. CASE "lapse" \in Ops /\ \E s \in Stamps : Lapse(s)
      <4>1. PICK s \in Stamps : Lapse(s)
        BY <3>2
      <4>2. UNCHANGED <<maps, threads>>
        BY <4>1 DEF Lapse
      <4>3. QED
        BY <2>1, <3>1, <4>1, <4>2, LapseStep, StillKeeps
    <3>3. CASE ~("lapse" \in Ops /\ \E s \in Stamps : Lapse(s))
      BY <2>1, <3>1, <3>3, ThreadBlocks, StepKeeps
    <3>4. QED
      BY <3>2, <3>3
  <2>2. ASSUME BlocksInv, UNCHANGED blocksVars PROVE BlocksInv'
    <3>1. UNCHANGED <<maps, threads>> /\ contended' = contended
      BY <2>2 DEF blocksVars
    <3>2. BlocksType'
      BY <2>2 DEF blocksVars, maps, threads, blocks, BlocksInv, BlocksType
    <3>3. QED
      BY <2>2, <3>1, <3>2, StillKeeps
  <2>3. QED
    BY <2>1, <2>2
<1>3. BlocksInv => IndexInStep
  <2> SUFFICES ASSUME BlocksInv PROVE IndexInStep
    OBVIOUS
  <2>1. TypeOK
    <3>1. BlocksType /\ MaxBlock \in Nat
      BY BlockedAssumption DEF BlocksInv
    <3>2. 0..issued \subseteq 0..MaxBlock /\ 1..issued \subseteq Stamps
      BY <3>1 DEF BlocksType, Stamps
    <3>3. blocked \in [Keys -> 0..MaxBlock] /\ stamp \in [Threads -> 0..MaxBlock]
      BY <3>1, <3>2 DEF BlocksType
    <3>4. index \subseteq [key : Cidrs, stamp : Stamps, slot : 1..pushes]
      BY <3>1, <3>2 DEF BlocksType
    <3>5. QED
      BY <3>1, <3>3, <3>4 DEF BlocksType, TypeOK
  <2>2. \A k \in Cidrs \ contended : (\A t \in Threads : k \notin Touched(t)) => InStep(k)
    BY DEF BlocksInv, StepInv
  <2>3. QED
    BY <2>1, <2>2 DEF IndexInStep, InStep, IndexedAs
<1>4. QED
  BY <1>1, <1>2, <1>3, PTL DEF BlocksSpec
=============================================================================
