SPECIFICATION FairSpec
CONSTANTS
  Hooks = {h1, h2}
  MAX_RETRIES = 3
  MAX_BACKOFF = 60
PROPERTY SentSettles
