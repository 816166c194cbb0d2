----------------------------- MODULE LogDelivery -----------------------------
(* What log shipping promises, from send_log to the tables of the control    *)
(* plane: entries wait in the order they were sent, leave from the front,    *)
(* and an entry that left is either in its table or known to be lost.  A row *)
(* may be stored before the agent knows, and stored again.                   *)
EXTENDS Naturals, Sequences, FiniteSets

CONSTANTS Entries,    \* 1, 2, ... in the order they are sent
          TablesOf,   \* the tables each entry belongs in
          Capacity    \* entries that may wait at once

VARIABLES
  last,     \* the last entry sent
  queue,    \* the entries that wait, oldest first
  rows,     \* <<table, entry>>
  lost

vars == <<last, queue, rows, lost>>

Init == last = 0 /\ queue = <<>> /\ rows = {} /\ lost = {}

Front(n) == {queue[i] : i \in 1..n}
Leave(n) == queue' = SubSeq(queue, n + 1, Len(queue))
RowsOf(S) == UNION {{<<t, e>> : t \in TablesOf[e]} : e \in S}

Accept ==
  /\ last + 1 \in Entries /\ last' = last + 1
  /\ Len(queue) < Capacity /\ queue' = Append(queue, last')
  /\ UNCHANGED <<rows, lost>>

\* There is no room: the entry that is sent is the one that is lost.
Refuse ==
  /\ last + 1 \in Entries /\ last' = last + 1
  /\ lost' = lost \cup {last'}
  /\ UNCHANGED <<queue, rows>>

\* Some rows, of entries that were sent.
Store ==
  /\ \E S \in SUBSET RowsOf(1..last) : rows' = rows \cup S
  /\ UNCHANGED <<last, queue, lost>>

\* The oldest entries leave because all of their rows are there...
Confirm ==
  /\ \E n \in 1..Len(queue) : Leave(n) /\ RowsOf(Front(n)) \subseteq rows
  /\ UNCHANGED <<last, rows, lost>>

\* ...or are given up.
Abandon ==
  /\ \E n \in 1..Len(queue) : Leave(n) /\ lost' = lost \cup Front(n)
  /\ UNCHANGED <<last, rows>>

Next == Accept \/ Refuse \/ Store \/ Confirm \/ Abandon

Spec == Init /\ [][Next]_vars
=============================================================================
