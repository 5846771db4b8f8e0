SPECIFICATION FairSpec
CONSTANTS
  cron = cron
  redis = redis
  health = health
  tasks = tasks
  users = users
  encryption = encryption
  Factories <- MCFactories
  MayFail = {redis}
  NeverAnswer = {redis}
  HangsOnClose = {cron}
  Readers <- MCReaders
  Services <- MCServices
  Enabled = {tasks, encryption}
  Declining = {encryption}
  Needs <- MCNeeds
INVARIANTS
    ReadyMeansChecked
    NothingLeftOpen
PROPERTIES
    StaleStatusAgesOut
    StartupAndShutdownEnd
CHECK_DEADLOCK FALSE
