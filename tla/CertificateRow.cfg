\* The operator writes twice and two certificates are issued, so that every
\* writer meets a row another one has changed.
SPECIFICATION CertSpec
CONSTANTS
  Edges = {1, 2}
  Reporters = {1, 2}
  EdgeOf <- MCEdgeOf
  MaxWrite = 2
  MaxIssue = 2
  MaxEvent = 2
INVARIANT PendingIsClean
PROPERTIES PendingEnds EdgeStateShown
