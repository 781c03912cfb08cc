SPECIFICATION FairSpec
CONSTANTS
  Hooks = {h1, h2, h3}
  MAX_RETRIES = 3
  MAX_BACKOFF = 60
INVARIANTS
  TypeOK
  Conserved
  AttemptsCounted
  NoLostWakeup
PROPERTIES
  SentSettlesUnlessBroken
  DeliveryImplemented
