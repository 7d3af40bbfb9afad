SPECIFICATION Spec
CONSTANTS
    Refuses = FALSE
    KafkaOptions <- MCKafkaOptions
    AwsOptions <- MCAwsOptions
    MaxRestarts = 0
INVARIANTS
    FileNotNeeded
