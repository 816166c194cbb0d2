\* One sync beside the rules the agent starts with, which the shutdown hook may
\* persist: an older and a newer snapshot race for the files.  One crash at any
\* point, one damage to what it leaves; one address is blocked and unblocked.
SPECIFICATION Spec
CONSTANTS
  sync = sync
  stop = stop
  flush = flush
  req = req
  ip = ip
  Nobody = Nobody
  Persisters <- TwoPersisters
  Flushers <- OneFlusher
  Blockers <- OneBlocker
  Blocks <- OneBlock
  MaxVersion = 1
  MaxCrash = 1
  MaxDamage = 1
INVARIANTS
  TypeOK
  Recoverable
  BackupStands
  RestartKeepsRules
  LoadFailureSticky
  CleanMeansFlushed
CHECK_DEADLOCK FALSE
