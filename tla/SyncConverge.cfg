SPECIFICATION FairSpec
CONSTANTS
  Workers <- OneWorker
  Scheduler = "scheduler"
  MaxAttempts = 2
  Scenarios <- ConvergeScenarios
PROPERTIES SidesConverge UploadConverges OneWay QueueLife
CHECK_DEADLOCK FALSE
