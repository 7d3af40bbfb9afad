SPECIFICATION Spec
CONSTANTS
    Refuses = TRUE
    KafkaOptions <- MCKafkaOptions
    AwsOptions <- MCAwsOptions
    MaxRestarts = 1
INVARIANTS
    TypeOK
    OnlyK3Commits
    StrongestSourceWins
    ApiOutlivesUsers
