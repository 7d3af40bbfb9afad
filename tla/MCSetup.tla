------------------------------ MODULE MCSetup ------------------------------
EXTENDS Setup

MCKafkaOptions == {"group.id", "metadata.broker.list"}
MCAwsOptions   == {"kms_arn"}
=============================================================================
