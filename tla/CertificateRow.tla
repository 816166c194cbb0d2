---------------------------- MODULE CertificateRow ---------------------------
(* The control plane's row for one ACME certificate of a site.               *)
(*                                                                           *)
(* Issuance runs on the edge and four writers race for the row: the          *)
(* operator, who re-arms the order (api/ssl.rs), the heartbeats, which say   *)
(* what an edge serves, the shipped failure events, and the sweep of orders  *)
(* that have been pending for too long (all grpc/control_plane.rs).  Every   *)
(* edge issues a certificate of its own.                                     *)
EXTENDS Naturals, Sequences

CONSTANTS Edges,      \* the site's agents
          Reporters,  \* the tasks that persist their heartbeats
          EdgeOf,     \* the agent whose heartbeats a task persists
          MaxWrite,   \* bound: what the operator writes
          MaxIssue,   \* bound: certificates issued
          MaxEvent    \* bound: failure events under way

ASSUME CertAssumption ==
  EdgeOf \in [Reporters -> Edges] /\ {MaxWrite, MaxIssue, MaxEvent} \subseteq Nat

NoReason == 0
NoMessage == [serial |-> 0, status |-> "idle"]
Statuses == {"pending", "active", "expired", "failed"}

VARIABLES
  \* the row
  status,
  expires,     \* expires_at: the serial of the certificate it belongs to
  reason,      \* failure_reason: the order it is about, or NoReason
  overdue,     \* updated_at lies further back than the grace period
  \* the operator
  order,       \* number of the current order
  writes,
  \* the edges
  issued,      \* certificates issued so far, numbered by their expiry
  served,      \* serial of the certificate an edge serves, or 0
  expired,
  \* under way
  events,      \* failure events, each with the order that failed
  message,     \* the heartbeat a task is persisting
  swept        \* {the order the sweep is about to fail}, or {}

certificate == <<status, expires, reason, overdue>>
operator == <<order, writes>>
edgeState == <<issued, served, expired>>
certVars == <<certificate, operator, edgeState, events, message, swept>>

CertInit ==
  /\ status = "pending" /\ expires = 0 /\ reason = NoReason /\ overdue = FALSE
  /\ order = 1 /\ writes = 0
  /\ issued = 0 /\ served = [e \in Edges |-> 0] /\ expired = [e \in Edges |-> FALSE]
  /\ events = <<>> /\ message = [t \in Reporters |-> NoMessage] /\ swept = {}

-----------------------------------------------------------------------------
(* The operator *)

\* Mutant: the failure is kept.
RenewKeepsReason ==
  /\ writes < MaxWrite /\ writes' = writes + 1
  /\ order' = order + 1
  /\ status' = "pending" /\ overdue' = FALSE
  /\ UNCHANGED <<expires, reason, edgeState, events, message, swept>>

\* renew_certificate.
Renew ==
  /\ writes < MaxWrite /\ writes' = writes + 1
  /\ order' = order + 1
  /\ status' = "pending" /\ reason' = NoReason /\ overdue' = FALSE
  /\ UNCHANGED <<expires, edgeState, events, message, swept>>

\* apply_certificate_update with a status: only "pending" touches the failure,
\* and re-arms the order.
EditCertificate(s) ==
  /\ writes < MaxWrite /\ writes' = writes + 1
  /\ status' = s /\ overdue' = FALSE
  /\ IF s = "pending" THEN reason' = NoReason /\ order' = order + 1
     ELSE UNCHANGED <<reason, order>>
  /\ UNCHANGED <<expires, edgeState, events, message, swept>>

-----------------------------------------------------------------------------
(* The edges *)

EdgeIssues(e) ==
  /\ issued < MaxIssue /\ issued' = issued + 1
  /\ served' = [served EXCEPT ![e] = issued + 1] /\ expired' = [expired EXCEPT ![e] = FALSE]
  /\ UNCHANGED <<certificate, operator, events, message, swept>>

EdgeExpires(e) ==
  /\ served[e] > 0 /\ ~expired[e] /\ expired' = [expired EXCEPT ![e] = TRUE]
  /\ UNCHANGED <<certificate, operator, issued, served, events, message, swept>>

\* An attempt at an order fails for good; an edge may still be at an old one.
EdgeFails(o) ==
  /\ \A i \in 1..Len(events) : events[i] # o
  /\ Len(events) < MaxEvent
  /\ events' = Append(events, o)
  /\ UNCHANGED <<certificate, operator, edgeState, message, swept>>

\* What an edge serves.
Serving(e) ==
  [serial |-> served[e], status |-> IF served[e] = 0 THEN "none"
                                    ELSE IF expired[e] THEN "expired" ELSE "active"]

\* The heartbeat reports what the edge serves now.
HeartbeatSent(t) ==
  /\ message[t] = NoMessage
  /\ message' = [message EXCEPT ![t] = Serving(EdgeOf[t])]
  /\ UNCHANGED <<certificate, operator, edgeState, events, swept>>

-----------------------------------------------------------------------------
(* The control plane *)

Persisted(t) == message' = [message EXCEPT ![t] = NoMessage]

\* Mutant: only pending rows are written back.
ReportPendingOnly(t) ==
  /\ message[t] # NoMessage /\ Persisted(t)
  /\ LET m == message[t] IN
       IF m.status # "none" /\ status = "pending"
       THEN /\ status' = m.status /\ expires' = m.serial
            /\ reason' = NoReason /\ overdue' = FALSE
       ELSE UNCHANGED certificate
  /\ UNCHANGED <<operator, edgeState, events, swept>>

\* Mutant: a report renews updated_at, whether it changes the row or not.
ReportTouches(t) ==
  /\ message[t] # NoMessage /\ Persisted(t)
  /\ LET m == message[t] IN
       IF m.status # "none"
       THEN status' = m.status /\ expires' = m.serial /\ reason' = NoReason
       ELSE UNCHANGED <<status, expires, reason>>
  /\ overdue' = FALSE
  /\ UNCHANGED <<operator, edgeState, events, swept>>

\* persist_site_certificates: a row that differs is written, whatever its
\* status.
Report(t) ==
  /\ message[t] # NoMessage /\ Persisted(t)
  /\ LET m == message[t] IN
       IF m.status # "none" /\ (status # m.status \/ expires # m.serial)
       THEN /\ status' = m.status /\ expires' = m.serial
            /\ reason' = NoReason /\ overdue' = FALSE
       ELSE UNCHANGED certificate
  /\ UNCHANGED <<operator, edgeState, events, swept>>

\* The database fails.
ReportFails(t) ==
  /\ message[t] # NoMessage /\ Persisted(t)
  /\ UNCHANGED <<certificate, operator, edgeState, events, swept>>

\* fail_certificate_from_event: pending rows only.
EventArrives ==
  /\ events # <<>> /\ events' = Tail(events)
  /\ IF status = "pending"
     THEN /\ status' = "failed" /\ reason' = Head(events) /\ overdue' = FALSE
     ELSE UNCHANGED <<status, reason, overdue>>
  /\ UNCHANGED <<expires, operator, edgeState, message, swept>>

\* The shipper drops it, or the database fails.
EventLost ==
  /\ events # <<>> /\ events' = Tail(events)
  /\ UNCHANGED <<certificate, operator, edgeState, message, swept>>

\* Half an hour passes.
Ages ==
  /\ status = "pending" /\ ~overdue /\ overdue' = TRUE
  /\ UNCHANGED <<status, expires, reason, operator, edgeState, events, message, swept>>

\* sweep_stale_pending_certificates: the query...
SweepList ==
  /\ swept = {} /\ status = "pending" /\ overdue
  /\ swept' = {order}
  /\ UNCHANGED <<certificate, operator, edgeState, events, message>>

\* ...and the update, by id.
SweepFail ==
  \E o \in swept :
    /\ swept' = {}
    /\ status' = "failed" /\ reason' = o /\ overdue' = FALSE
    /\ UNCHANGED <<expires, operator, edgeState, events, message>>

\* The database fails.
SweepGivesUp ==
  /\ swept # {} /\ swept' = {}
  /\ UNCHANGED <<certificate, operator, edgeState, events, message>>

CertNext ==
  \/ Renew \/ \E s \in Statuses : EditCertificate(s)
  \/ \E e \in Edges : EdgeIssues(e) \/ EdgeExpires(e)
  \/ \E o \in 1..order : EdgeFails(o)
  \/ \E t \in Reporters : HeartbeatSent(t) \/ Report(t) \/ ReportFails(t)
  \/ EventArrives \/ EventLost
  \/ Ages \/ SweepList \/ SweepFail \/ SweepGivesUp

\* Heartbeats are sent and persisted, and events arrive or are lost; time
\* passes and the sweep recurs (CertSweepRecurs of HeartbeatSweeps); the
\* database does not fail every time.
CertFairness ==
  /\ \A t \in Reporters :
       /\ WF_certVars(HeartbeatSent(t))
       /\ WF_certVars(Report(t) \/ ReportFails(t)) /\ SF_certVars(Report(t))
  /\ WF_certVars(Ages) /\ WF_certVars(SweepList)
  /\ WF_certVars(SweepFail \/ SweepGivesUp) /\ SF_certVars(SweepFail)
  /\ WF_certVars(EventArrives \/ EventLost)

CertSpec == CertInit /\ [][CertNext]_certVars /\ CertFairness

-----------------------------------------------------------------------------
\* Types; and, of all the writers of the row: a row that is pending never
\* carries the reason of a failure, and a reason is always about an order that
\* was placed.
PendingIsClean ==
  /\ status \in Statuses /\ expires \in 0..MaxIssue /\ overdue \in BOOLEAN
  /\ order \in 1..MaxWrite + 1 /\ writes \in 0..MaxWrite
  /\ issued \in 0..MaxIssue /\ served \in [Edges -> 0..issued]
  /\ expired \in [Edges -> BOOLEAN]
  /\ events \in Seq(1..order) /\ swept \subseteq 1..order
  /\ reason \in 0..order
  /\ status = "pending" => reason = NoReason
  /\ overdue => status = "pending"

\* sweep_stale_pending_certificates' comment: an order that is wedged at the
\* edge does not leave the row pending forever, whatever the heartbeats report
\* meanwhile and however often the row is re-armed first.
PendingEnds == status = "pending" ~> status # "pending"

\* persist_site_certificates: whatever the operator, the sweep and late events
\* wrote in the meantime, the row comes to show a certificate that some edge
\* serves, as it stands, and stays so.
EdgeStateShown ==
  <>[]((\E e \in Edges : served[e] > 0) =>
         \E e \in Edges : served[e] > 0 /\ Serving(e) = [serial |-> expires, status |-> status])

\* apply_certificate_update's comment: a stale failure never outlives its
\* retry.  (Violated: the event of the old order arrives after the retry, or
\* the sweep had listed the row before it.)
FailureIsOfThisOrder == status = "failed" /\ reason # NoReason => reason = order

\* sweep_stale_pending_certificates marks rows whose order has been pending for
\* too long.  (Violated: a heartbeat or the operator may have written the row
\* between the query and the update.)
OnlyOverdueSwept == [][SweepFail => status = "pending" /\ overdue]_certVars
=============================================================================
