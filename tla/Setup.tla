------------------------------- MODULE Setup -------------------------------
(***************************************************************************)
(* From main to the subscription and back: the configuration file, the     *)
(* environment, AwsGuard, S3::setup, Consume::setup and KafkaConf::create, *)
(* in the order in which they override and refuse each other, then the     *)
(* destructors.  A memory restart goes through all of it again.  A         *)
(* setting's value is represented by where it comes from.                  *)
(***************************************************************************)
EXTENDS Integers, SequencesExt

CONSTANTS
    KafkaOptions, \* librdkafka options with a variable of their own
    AwsOptions,   \* options of S3
    Refuses,      \* librdkafka may refuse an option of the file or a consumer
    MaxRestarts   \* bound on restarts for lack of memory

Group      == "group.id"
AutoCommit == "enable.auto.commit"
Batchsize  == "batchsize"
Kms        == "kms_arn"
Loglevel   == "loglevel"

AwsSettings == AwsOptions \cup {Loglevel}
Documented == KafkaOptions \cup AwsSettings \cup {Batchsize}
Settings   == Documented \cup {AutoCommit}
Sources    == {"none", "default", "json", "env", "setvar", "k3", "garbage"}

ASSUME SetupAssumption ==
    /\ Group \in KafkaOptions /\ Kms \in AwsOptions
    /\ KafkaOptions \cap (AwsSettings \cup {Batchsize, AutoCommit}) = {}
    /\ AwsOptions \cap {Batchsize, AutoCommit, Loglevel} = {}
    /\ Refuses \in BOOLEAN /\ MaxRestarts \in Nat

\* A configuration file, as far as it decides anything.
AllFiles == [exists : BOOLEAN,           \* one of the files could be loaded
             kafka  : BOOLEAN,           \* it has an object "kafka"
             global : BOOLEAN,           \* which has "default_global_conf"
             topic  : BOOLEAN,           \* and "default_topic_conf"
             sets   : SUBSET Settings,   \* what it sets
             topics : BOOLEAN]           \* topics are left after the exclusions,
                                         \* or "auto_discover_topics" is true

\* What is not there sets nothing.
Files == {f \in AllFiles :
            /\ f.kafka \/ f.sets # {} => f.exists
            /\ f.global \/ f.topic \/ f.topics \/ ~(f.sets \subseteq AwsSettings)
               => f.kafka
            /\ f.sets \cap (KafkaOptions \cup {AutoCommit}) # {} => f.global}

VARIABLES
    file,     \* the configuration file
    env,      \* settings whose documented variable is set
    setvars,  \* librdkafka options set by RDKAFKA_SETVAR_*
    ignored,  \* variables with a value that is not taken: librdkafka refuses it,
              \* or RDKAFKA_SETVAR_* is empty
    levels,   \* the sources whose log level is one that AwsGuard knows
    pc,       \* the next step of the start or of the end
    alive,    \* the objects comsume_to_s3 has made, in this order
    pconf,    \* the pointer _pconf: "indeterminate" or "set"
    values,   \* where the value of each setting comes from
    restarts  \* restarts so far (bounded by MaxRestarts)

inputs == <<file, env, setvars, ignored, levels>>
vars   == <<inputs, pc, alive, pconf, values, restarts>>

\* A mistake: a member without an initial value.
DefaultsPartial == [o \in Documented |-> "default"]

\* S3::S3 and Consume::Consume
Defaults == [o \in Settings |->
               IF o \in {"region", "bucket", Batchsize, Loglevel} THEN "default" ELSE "none"]

Init ==
    /\ file \in Files
    /\ env \in SUBSET Documented
    /\ setvars \in SUBSET (KafkaOptions \cup {AutoCommit})
    /\ ignored \in SUBSET (({"env"} \X (env \cap KafkaOptions))
                           \cup ({"setvar"} \X (setvars \cap KafkaOptions)))
    /\ levels \in SUBSET {source \in {"json", "env"} :
                            Loglevel \in IF source = "env" THEN env ELSE file.sets}
    /\ pc = "start" /\ alive = <<>> /\ pconf = "indeterminate"
    /\ values = Defaults
    /\ restarts = 0

Override(options, source) ==
    [o \in Settings |-> IF o \in options THEN source ELSE values[o]]

Goto(step) == pc' = step /\ UNCHANGED <<inputs, alive, restarts>>
Abort      == Goto("aborted") /\ UNCHANGED <<pconf, values>>

\* comsume_to_s3 found the object "kafka".
HasKafka == file.exists /\ file.kafka

-----------------------------------------------------------------------------
\* Where AwsGuard takes the name of its log level from, if there is one.
LevelFrom == IF Loglevel \in env THEN "env"
             ELSE IF file.exists /\ Loglevel \in file.sets THEN "json" ELSE "none"

\* comsume_to_s3 makes an AwsGuard, which picks its log level (Info unless it
\* knows the name), an S3 and a Consume.
Construct ==
    /\ pc = "start"
    /\ alive' = <<"aws", "s3", "consume">>
    /\ pconf' = "indeterminate"
    /\ values' = [Defaults EXCEPT ![Loglevel] = IF LevelFrom \in levels THEN LevelFrom ELSE @]
    /\ pc' = "s3"
    /\ UNCHANGED <<inputs, restarts>>

\* _kms_arn = "", whatever was configured
KmsCleared(options) == [options EXCEPT ![Kms] = "none"]

\* S3::setup: the file, then the environment; the client follows _kms_arn.
SetupS3 ==
    /\ pc = "s3"
    /\ LET json == AwsOptions \cap (IF file.exists THEN file.sets ELSE {})
       IN  values' = KmsCleared([o \in Settings |->
                        CASE o \in AwsOptions \cap env -> "env"
                          [] o \in json \ env          -> "json"
                          [] OTHER                     -> values[o]])
    /\ Goto("global")
    /\ UNCHANGED pconf

\* A mistake: a file is taken to name a group.
GroupAssumed == Override(file.sets \ AwsSettings, "json")

\* KafkaConf::create (and setup_general): the file's options, and a group.id
\* if there is none.
FromFile ==
    [Override(file.sets \ AwsSettings, "json") EXCEPT ![Group] = IF @ = "none" THEN "default" ELSE @]

\* setup_exclude_topics, setup_topics, setup_general, setup_default_global_conf.
\* A file without the last one is refused, and so is an option that librdkafka
\* does not accept.
SetupJson ==
    /\ pc = "global"
    /\ \/ ~HasKafka /\ Goto("env") /\ UNCHANGED <<pconf, values>>
       \/ /\ HasKafka /\ file.global
          /\ values' = FromFile
          /\ pconf' = "set"
          /\ Goto("topic")
       \/ HasKafka /\ (~file.global \/ Refuses) /\ Abort

\* setup_default_topic_conf: KafkaConf::create sets group.id on a topic
\* configuration too, which is refused.
SetupTopicConf ==
    /\ pc = "topic"
    /\ \/ file.topic /\ Abort
       \/ ~file.topic /\ Goto("env") /\ UNCHANGED <<pconf, values>>

\* The result of _pconf->set is not looked at: a value that is refused leaves
\* the option as it is, and so does an empty RDKAFKA_SETVAR_*.
TakenFromEnv    == {o \in env : <<"env", o>> \notin ignored}
TakenFromSetvar == {o \in setvars : <<"setvar", o>> \notin ignored}

\* A mistake: a variable only fills what the file leaves open.
EnvFills(options) == {o \in options : values[o] \in {"none", "default"}}

\* Each variable that is taken overrides.
EnvOverrides(options) == options

\* Consume::setup, the documented variables.  Using the indeterminate _pconf
\* crashes or changes something else.
SetupEnv ==
    /\ pc = "env"
    /\ \/ /\ pconf = "set"
          /\ values' = Override(EnvOverrides(TakenFromEnv \ AwsSettings), "env")
          /\ Goto("setvar")
       \/ /\ pconf = "indeterminate"
          /\ values' = Override(KafkaOptions, "garbage")
          /\ Goto("setvar")
       \/ /\ pconf = "indeterminate"
          /\ Goto("aborted")
          /\ UNCHANGED values
    /\ UNCHANGED pconf

\* A mistake: enable.auto.commit is set before the variables are applied.
AutoCommitEarly(settings) ==
    [settings EXCEPT ![AutoCommit] = IF AutoCommit \in setvars THEN "setvar" ELSE "k3"]

\* _pconf->set("enable.auto.commit", "false"), the last setting of all.
AutoCommitOff(settings) == [settings EXCEPT ![AutoCommit] = "k3"]

\* The RDKAFKA_SETVAR_ variables, then the consumer is created, or refused.
CreateConsumer ==
    /\ pc = "setvar"
    /\ \/ /\ values' = AutoCommitOff(Override(TakenFromSetvar, "setvar"))
          /\ Goto("subscribe")
          /\ UNCHANGED pconf
       \/ Refuses /\ Abort

\* Without auto discovery there must be topics.
Subscribe ==
    /\ pc = "subscribe"
    /\ \/ /\ HasKafka /\ file.topics
          /\ Goto("loop")
          /\ UNCHANGED <<pconf, values>>
       \/ ~(HasKafka /\ file.topics) /\ Abort

\* run returns 1 for lack of memory, or 0 after a signal.
Return ==
    /\ pc = "loop"
    /\ \/ /\ restarts < MaxRestarts /\ restarts' = restarts + 1
          /\ pc' = "restart"
       \/ pc' = "stop" /\ UNCHANGED restarts
    /\ UNCHANGED <<inputs, alive, pconf, values>>

\* A mistake: the objects are declared in the opposite order.
OldestFirst(objects) == Tail(objects)

\* comsume_to_s3 leaves its scope: what was made last is destroyed first.
NewestFirst(objects) == Front(objects)

\* One destructor; ~Consume PUTs what is still buffered.
Destroy ==
    /\ pc \in {"restart", "stop"}
    /\ alive # <<>>
    /\ alive' = NewestFirst(alive)
    /\ UNCHANGED <<inputs, pc, pconf, values, restarts>>

\* while(rval > 0)
Again ==
    /\ pc \in {"restart", "stop"}
    /\ alive = <<>>
    /\ Goto(IF pc = "restart" THEN "start" ELSE "exited")
    /\ UNCHANGED <<pconf, values>>

Settled == pc \in {"exited", "aborted"} /\ UNCHANGED vars

Next == Construct \/ SetupS3 \/ SetupJson \/ SetupTopicConf \/ SetupEnv \/ CreateConsumer
        \/ Subscribe \/ Return \/ Destroy \/ Again \/ Settled

Spec == Init /\ [][Next]_vars

-----------------------------------------------------------------------------
\* Every variable has a value of its type.
TypeOK ==
    /\ file \in Files
    /\ env \subseteq Documented
    /\ setvars \subseteq KafkaOptions \cup {AutoCommit}
    /\ ignored \subseteq {"env", "setvar"} \X KafkaOptions
    /\ levels \subseteq {"json", "env"}
    /\ pc \in {"start", "s3", "global", "topic", "env", "setvar", "subscribe", "loop",
              "restart", "stop", "exited", "aborted"}
    /\ alive \in Seq({"aws", "s3", "consume"})
    /\ pconf \in {"indeterminate", "set"}
    /\ values \in [Settings -> Sources]
    /\ restarts \in 0 .. MaxRestarts

\* No consumer runs with librdkafka's own commits switched on, whatever the
\* file and the variables say: only ~MessageWrapper commits.
\* (Consume::setup, the line before the consumer is created)
OnlyK3Commits == pc \in {"subscribe", "loop"} => values[AutoCommit] = "k3"

Strongest(o) ==
    CASE o \in TakenFromSetvar                               -> "setvar"
      [] o \in TakenFromEnv \ TakenFromSetvar                -> "env"
      [] o \in file.sets \ (TakenFromEnv \cup TakenFromSetvar) -> "json"
      [] OTHER                                               -> Defaults[o]

\* A running consumer has a group, and every setting comes from the strongest
\* source with a value for it that is taken: RDKAFKA_SETVAR_*, then its
\* variable, then the file, then the default; the KMS key apart.  Nothing it
\* uses is indeterminate.  A log level AwsGuard does not know is the default,
\* not the next source's.
\* (AwsGuard, S3::setup, Consume::setup, KafkaConf::create; src/README.md:53,
\* 75, 80)
StrongestSourceWins ==
    pc = "loop" =>
        /\ \A o \in Documented \ {Kms, Group, Loglevel} : values[o] = Strongest(o)
        /\ values[Group] = IF Strongest(Group) = "none" THEN "default" ELSE Strongest(Group)
        /\ values[Loglevel] = IF Strongest(Loglevel) \in levels THEN Strongest(Loglevel)
                              ELSE "default"

\* S3 and the AWS SDK are there for as long as they are used:
\* ~Consume PUTs the rest of the buffers through an S3 that is still there,
\* and no S3 client outlives the AWS SDK, on every way out and every restart.
\* (comsume_to_s3, ~Consume, ~AwsGuard)
ApiOutlivesUsers ==
    /\ "consume" \in ToSet(alive) => "s3" \in ToSet(alive)
    /\ "s3" \in ToSet(alive) => "aws" \in ToSet(alive)
    /\ pc \in {"start", "exited"} => alive = <<>>

\* With every documented variable set no file is needed.  (src/README.md:3)
FileNotNeeded ==
    ~file.exists /\ env = Documented /\ setvars = {} => pc # "aborted"
=============================================================================
