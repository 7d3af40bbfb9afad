---------------------------- MODULE SetupProofs ----------------------------
(***************************************************************************)
(* The start and the end of a process, for all options, files, variables   *)
(* and numbers of restarts.                                                *)
(***************************************************************************)
EXTENDS Setup, SequenceTheorems, TLAPS

\* What librdkafka and k3 are told besides the settings of the AWS side.
KafkaSide == KafkaOptions \cup {Batchsize, AutoCommit}

\* While comsume_to_s3 works all three objects are there; they go one by one.
Nested ==
    /\ alive \in {<<>>, <<"aws">>, <<"aws", "s3">>, <<"aws", "s3", "consume">>}
    /\ pc \in {"start", "exited"} => alive = <<>>
    /\ pc \in {"s3", "global", "topic", "env", "setvar", "subscribe", "loop"}
       => alive = <<"aws", "s3", "consume">>

\* The file and the variables of the AWS side have been applied.
AwsApplied ==
    /\ \A o \in AwsOptions \ {Kms} : values[o] = Strongest(o)
    /\ values[Loglevel] = IF Strongest(Loglevel) \in levels THEN Strongest(Loglevel)
                          ELSE "default"

\* What the file leaves of a setting of the Kafka side.
Filed(o) == IF o \in file.sets THEN "json"
            ELSE IF o = Group THEN "default" ELSE Defaults[o]

\* What the variable of its own leaves of it.
Varied(o) == IF o \in TakenFromEnv THEN "env" ELSE Filed(o)

\* What holds of the values before each step of the start.  Once a file was
\* needed and not there, nothing is known of them, and the start aborts.
Staged ==
    /\ pc = "s3" =>
         values = [Defaults EXCEPT ![Loglevel] = IF LevelFrom \in levels THEN LevelFrom ELSE @]
    /\ pc = "global" => /\ AwsApplied
                        /\ \A o \in KafkaSide : values[o] = Defaults[o]
    /\ pc \in {"topic", "env"} => /\ AwsApplied
                                  /\ HasKafka => \A o \in KafkaSide : values[o] = Filed(o)
    /\ pc = "topic" => HasKafka
    /\ pc = "setvar" => /\ AwsApplied
                        /\ HasKafka => \A o \in KafkaSide : values[o] = Varied(o)
    /\ pc = "subscribe" => /\ AwsApplied
                           /\ values[AutoCommit] = "k3"
                           /\ HasKafka => \A o \in KafkaSide \ {AutoCommit} :
                                values[o] = IF o \in TakenFromSetvar THEN "setvar" ELSE Varied(o)
    /\ pc \in {"topic", "env", "setvar"} /\ HasKafka => pconf = "set"
    /\ pc = "loop" => StrongestSourceWins /\ values[AutoCommit] = "k3"

Inv == TypeOK /\ Nested /\ Staged

LEMMA Distinct ==
    /\ Group \in KafkaSide /\ Group \notin AwsSettings
    /\ KafkaSide \cap AwsSettings = {} /\ KafkaSide \cup AwsSettings = Settings
    /\ Batchsize \notin AwsSettings /\ AutoCommit \notin AwsSettings /\ Loglevel \notin AwsOptions
    /\ AutoCommit \notin Documented /\ Batchsize # AutoCommit
    /\ Kms \in AwsOptions
BY SetupAssumption DEF KafkaSide, AwsSettings, Settings, Documented, Group, AutoCommit,
     Batchsize, Loglevel, Kms

LEMMA DefaultsType == Defaults \in [Settings -> Sources]
BY DEF Defaults, Sources

LEMMA OverrideType ==
  ASSUME values \in [Settings -> Sources], NEW S, NEW x \in Sources
  PROVE  Override(S, x) \in [Settings -> Sources]
BY DEF Override

LEMMA InitInv == Init => Inv
<1> SUFFICES ASSUME Init PROVE Inv
  OBVIOUS
<1>1. TypeOK
  <2>1. alive \in Seq({"aws", "s3", "consume"})
    BY DEF Init
  <2> QED BY <2>1, DefaultsType, SetupAssumption DEF Init, TypeOK
<1>2. Nested
  BY DEF Init, Nested
<1>3. Staged
  BY DEF Init, Staged
<1> QED BY <1>1, <1>2, <1>3 DEF Inv

\* Every step keeps the types.
LEMMA TypeStep == ASSUME TypeOK, Nested, Next PROVE TypeOK'
<1> USE DEF TypeOK
<1>1. CASE Construct
  <2>1. alive' \in Seq({"aws", "s3", "consume"})
    BY <1>1 DEF Construct
  <2>2. (IF LevelFrom \in levels THEN LevelFrom ELSE Defaults[Loglevel]) \in Sources
    BY DefaultsType DEF Sources, Settings, Documented, AwsSettings
  <2>3. values' \in [Settings -> Sources]
    BY <1>1, <2>2, DefaultsType DEF Construct
  <2> QED BY <1>1, <2>1, <2>3 DEF Construct, inputs
<1>2. CASE SetupS3
  <2> DEFINE json == AwsOptions \cap (IF file.exists THEN file.sets ELSE {})
             new  == [o \in Settings |-> CASE o \in AwsOptions \cap env -> "env"
                                           [] o \in json \ env          -> "json"
                                           [] OTHER                     -> values[o]]
  <2>1. new \in [Settings -> Sources]
    BY DEF Sources
  <2>2. values' \in [Settings -> Sources]
    BY <1>2, <2>1 DEF SetupS3, KmsCleared, Sources
  <2> QED BY <1>2, <2>2 DEF SetupS3, Goto, inputs
<1>3. CASE SetupJson
  <2>1. FromFile \in [Settings -> Sources]
    <3>1. Override(file.sets \ AwsSettings, "json") \in [Settings -> Sources]
      BY OverrideType DEF Sources
    <3> QED BY <3>1 DEF FromFile, Sources
  <2> QED BY <1>3, <2>1 DEF SetupJson, Goto, Abort, inputs
<1>4. CASE SetupTopicConf
  BY <1>4 DEF SetupTopicConf, Goto, Abort, inputs
<1>5. CASE SetupEnv
  <2>1. /\ Override(EnvOverrides(TakenFromEnv \ AwsSettings), "env") \in [Settings -> Sources]
        /\ Override(KafkaOptions, "garbage") \in [Settings -> Sources]
    BY OverrideType DEF Sources
  <2> QED BY <1>5, <2>1 DEF SetupEnv, Goto, inputs
<1>6. CASE CreateConsumer
  <2>1. Override(TakenFromSetvar, "setvar") \in [Settings -> Sources]
    BY OverrideType DEF Sources
  <2>2. AutoCommitOff(Override(TakenFromSetvar, "setvar")) \in [Settings -> Sources]
    BY <2>1 DEF AutoCommitOff, Sources
  <2> QED BY <1>6, <2>2 DEF CreateConsumer, Goto, Abort, inputs
<1>7. CASE Subscribe
  BY <1>7 DEF Subscribe, Goto, Abort, inputs
<1>8. CASE Return
  BY <1>8, SetupAssumption DEF Return, inputs
<1>9. CASE Destroy
  <2>1. alive' \in Seq({"aws", "s3", "consume"})
    BY <1>9 DEF Destroy, NewestFirst, Front, Nested
  <2> QED BY <1>9, <2>1 DEF Destroy, inputs
<1>10. CASE Again
  BY <1>10 DEF Again, Goto, inputs
<1>11. CASE Settled
  BY <1>11 DEF Settled, vars, inputs
<1> QED BY <1>1, <1>2, <1>3, <1>4, <1>5, <1>6, <1>7, <1>8, <1>9, <1>10, <1>11 DEF Next

Objects == {"aws", "s3", "consume"}

\* The destructors run in the opposite order of the constructors.
LEMMA FrontOf ==
    /\ Front(<<"aws">>) = <<>>
    /\ Front(<<"aws", "s3">>) = <<"aws">>
    /\ Front(<<"aws", "s3", "consume">>) = <<"aws", "s3">>
<1>1. Front(<<"aws">>) = <<>>
  BY DEF Front
<1>2. Front(<<"aws", "s3">>) = <<"aws">>
  <2> DEFINE s == <<"aws", "s3">>
             t == <<"aws">>
  <2>1. /\ \A i \in 1 .. 1 : s[i] \in Objects
        /\ t \in Seq(Objects) /\ Len(t) = 1 /\ Len(s) = 2 /\ s[1] = t[1]
    BY DEF Objects
  <2> HIDE DEF s, t
  <2>2. /\ SubSeq(s, 1, 1) \in Seq(Objects) /\ Len(SubSeq(s, 1, 1)) = 1
        /\ SubSeq(s, 1, 1)[1] = s[1]
    BY <2>1, SubSeqProperties
  <2>3. SubSeq(s, 1, 1) = t
    BY <2>1, <2>2, SeqEqual
  <2>4. Front(s) = t
    BY <2>1, <2>3 DEF Front
  <2> QED BY <2>4 DEF s, t
<1>3. Front(<<"aws", "s3", "consume">>) = <<"aws", "s3">>
  <2> DEFINE s == <<"aws", "s3", "consume">>
             t == <<"aws", "s3">>
  <2>1. \A i \in 1 .. 2 : s[i] \in Objects
    BY DEF Objects
  <2>2. /\ SubSeq(s, 1, 2) \in Seq(Objects) /\ Len(SubSeq(s, 1, 2)) = 2
        /\ SubSeq(s, 1, 2)[1] = s[1] /\ SubSeq(s, 1, 2)[2] = s[2]
    BY <2>1, SubSeqProperties
  <2>3. /\ t \in Seq(Objects) /\ Len(t) = 2 /\ Len(s) = 3
        /\ s[1] = t[1] /\ s[2] = t[2]
    BY DEF Objects
  <2> HIDE DEF s, t
  <2>4. \A i \in 1 .. 2 : SubSeq(s, 1, 2)[i] = t[i]
    BY <2>2, <2>3
  <2>5. SubSeq(s, 1, 2) = t
    BY <2>2, <2>3, <2>4, SeqEqual
  <2>6. Front(s) = t
    BY <2>3, <2>5 DEF Front
  <2> QED BY <2>6 DEF s, t
<1> QED BY <1>1, <1>2, <1>3

\* Every step keeps the nesting of the three objects.
LEMMA NestedStep == ASSUME TypeOK, Nested, Next PROVE Nested'
<1> USE DEF Nested
<1>1. CASE Construct \/ SetupS3 \/ SetupJson \/ SetupTopicConf \/ SetupEnv
  BY <1>1 DEF Construct, SetupS3, SetupJson, SetupTopicConf, SetupEnv, Goto, Abort
<1>2. CASE CreateConsumer \/ Subscribe \/ Return \/ Again \/ Settled
  BY <1>2 DEF CreateConsumer, Subscribe, Return, Again, Settled, Goto, Abort, vars
<1>3. CASE Destroy
  BY <1>3, FrontOf DEF Destroy, NewestFirst
<1> QED BY <1>1, <1>2, <1>3 DEF Next

-----------------------------------------------------------------------------
\* What a file that is not there sets, and what no RDKAFKA_SETVAR_ can set.
LEMMA Inputs ==
  ASSUME TypeOK
  PROVE  /\ file.sets # {} => file.exists
         /\ setvars \subseteq KafkaSide /\ AwsSettings \cap setvars = {}
         /\ Loglevel \notin setvars
         /\ TakenFromSetvar \subseteq setvars
         /\ \A o \in AwsSettings : o \in TakenFromEnv <=> o \in env
<1>1. file \in AllFiles /\ (file.sets # {} => file.exists)
  BY DEF TypeOK, Files
<1>2. setvars \subseteq KafkaSide
  BY DEF TypeOK, KafkaSide
<1>3. TakenFromSetvar \subseteq setvars
  BY DEF TakenFromSetvar
<1>4. \A o \in AwsSettings : <<"env", o>> \notin ignored
  <2>1. AwsSettings \cap KafkaOptions = {}
    BY SetupAssumption
  <2> QED BY <2>1 DEF TypeOK
<1>5. \A o \in AwsSettings : o \in TakenFromEnv <=> o \in env
  BY <1>4 DEF TakenFromEnv
<1>6. AwsSettings \cap setvars = {} /\ Loglevel \notin setvars
  BY <1>2, Distinct DEF AwsSettings
<1> QED BY <1>1, <1>2, <1>3, <1>5, <1>6

\* The strongest source of a setting of the AWS side.
LEMMA StrongestAws ==
  ASSUME TypeOK, NEW o \in AwsSettings
  PROVE  Strongest(o) = IF o \in env THEN "env"
                        ELSE IF o \in file.sets THEN "json" ELSE Defaults[o]
BY Inputs DEF Strongest

\* AwsApplied holds after a step that leaves its settings and the inputs alone.
LEMMA AwsKept ==
  ASSUME AwsApplied, UNCHANGED inputs, \A o \in AwsSettings : values'[o] = values[o]
  PROVE  AwsApplied'
<1>1. \A o : Strongest(o)' = Strongest(o)
  BY DEF Strongest, TakenFromEnv, TakenFromSetvar, inputs, Defaults
<1> QED BY <1>1 DEF AwsApplied, AwsSettings, inputs

\* S3::setup completes what AwsGuard began.
LEMMA StagedS3 == ASSUME TypeOK, Staged, SetupS3 PROVE Staged'
<1> DEFINE json == AwsOptions \cap (IF file.exists THEN file.sets ELSE {})
           new  == [o \in Settings |-> CASE o \in AwsOptions \cap env -> "env"
                                         [] o \in json \ env          -> "json"
                                         [] OTHER                     -> values[o]]
<1>1. /\ pc = "s3" /\ pc' = "global" /\ UNCHANGED inputs
      /\ values' = [new EXCEPT ![Kms] = "none"]
  BY DEF SetupS3, Goto, KmsCleared
<1>2. /\ \A o \in Settings \ {Loglevel} : values[o] = Defaults[o]
      /\ values[Loglevel] = IF LevelFrom \in levels THEN LevelFrom ELSE Defaults[Loglevel]
  BY <1>1, DefaultsType, Distinct DEF Staged, Settings, Documented, AwsSettings
<1>3. json = AwsOptions \cap file.sets
  BY Inputs
<1>4. \A o \in Settings \ {Kms} : values'[o] = new[o]
  BY <1>1
<1>5. \A o \in AwsOptions \ {Kms} : values'[o] = Strongest(o)
  <2> SUFFICES ASSUME NEW o \in AwsOptions \ {Kms} PROVE values'[o] = Strongest(o)
    OBVIOUS
  <2>1. o \in Settings /\ o # Loglevel /\ o \in AwsSettings
    BY Distinct DEF AwsSettings
  <2> QED BY <1>2, <1>3, <1>4, <2>1, StrongestAws
<1>6. values'[Loglevel] = IF Strongest(Loglevel) \in levels THEN Strongest(Loglevel)
                          ELSE "default"
  <2>1. Loglevel \in Settings /\ Loglevel \in AwsSettings /\ Loglevel \notin AwsOptions
        /\ Loglevel # Kms
    BY Distinct DEF AwsSettings
  <2>2. values'[Loglevel] = values[Loglevel]
    BY <1>4, <2>1
  <2>3. Defaults[Loglevel] = "default"
    BY <2>1 DEF Defaults
  <2>4. LevelFrom = IF Loglevel \in env THEN "env"
                    ELSE IF Loglevel \in file.sets THEN "json" ELSE "none"
    BY Inputs DEF LevelFrom
  <2>5. "none" \notin levels /\ "default" \notin levels
    BY DEF TypeOK
  <2> QED BY <1>2, <2>1, <2>2, <2>3, <2>4, <2>5, StrongestAws
<1>7. \A o \in KafkaSide : values'[o] = Defaults[o]
  <2>1. \A o \in KafkaSide : o \in Settings /\ o # Loglevel /\ o # Kms /\ o \notin AwsOptions
    BY Distinct DEF AwsSettings
  <2> QED BY <1>2, <1>4, <2>1
<1>8. AwsApplied'
  <2>1. \A o : Strongest(o)' = Strongest(o)
    BY <1>1 DEF Strongest, TakenFromEnv, TakenFromSetvar, inputs, Defaults
  <2> QED BY <1>1, <1>5, <1>6, <2>1 DEF AwsApplied, inputs
<1> QED BY <1>1, <1>7, <1>8 DEF Staged, Defaults

\* The file's Kafka side.
LEMMA StagedJson == ASSUME TypeOK, Staged, SetupJson PROVE Staged'
<1> USE DEF SetupJson, Goto, Abort
<1>1. pc = "global" /\ AwsApplied /\ (\A o \in KafkaSide : values[o] = Defaults[o])
      /\ UNCHANGED inputs
  BY DEF Staged
<1>2. CASE ~HasKafka /\ pc' = "env" /\ UNCHANGED <<pconf, values>>
  <2>1. AwsApplied' /\ ~HasKafka'
    BY <1>1, <1>2, AwsKept DEF HasKafka, inputs
  <2> QED BY <1>2, <2>1 DEF Staged
<1>3. CASE HasKafka /\ values' = FromFile /\ pconf' = "set" /\ pc' = "topic"
  <2>1. \A o \in AwsSettings : values'[o] = values[o]
    BY <1>3, Distinct DEF FromFile, Override
  <2>2. AwsApplied' /\ HasKafka'
    BY <1>1, <1>3, <2>1, AwsKept DEF HasKafka, inputs
  <2>3. \A o \in KafkaSide : values'[o] = Filed(o)
    <3>1. Defaults[Group] = "none" /\ Group \in Settings
      BY Distinct DEF Defaults, Group, Batchsize, Loglevel
    <3>2. \A o \in KafkaSide : o \in Settings /\ o \notin AwsSettings
      BY Distinct
    <3> QED BY <1>1, <1>3, <3>1, <3>2 DEF FromFile, Override, Filed
  <2>4. \A o \in KafkaSide : values'[o] = Filed(o)'
    BY <1>1, <2>3 DEF Filed, inputs, Defaults
  <2> QED BY <1>3, <2>2, <2>4 DEF Staged
<1>4. CASE pc' = "aborted"
  BY <1>4 DEF Staged
<1> QED BY <1>2, <1>3, <1>4

\* Nothing is set.
LEMMA StagedTopic == ASSUME TypeOK, Staged, SetupTopicConf PROVE Staged'
<1> USE DEF SetupTopicConf, Goto, Abort
<1>1. pc = "topic" /\ AwsApplied /\ HasKafka /\ UNCHANGED <<inputs, pconf, values>>
      /\ (\A o \in KafkaSide : values[o] = Filed(o)) /\ pconf = "set"
  BY DEF Staged
<1>2. AwsApplied' /\ HasKafka' /\ \A o \in KafkaSide : values'[o] = Filed(o)'
  BY <1>1, AwsKept DEF HasKafka, inputs, Filed, Defaults
<1> QED BY <1>1, <1>2 DEF Staged

\* The variables of the Kafka side.
LEMMA StagedEnv == ASSUME TypeOK, Staged, SetupEnv PROVE Staged'
<1> USE DEF SetupEnv, Goto
<1>1. /\ pc = "env" /\ AwsApplied /\ UNCHANGED <<inputs, pconf>>
      /\ HasKafka => (\A o \in KafkaSide : values[o] = Filed(o)) /\ pconf = "set"
  BY DEF Staged
<1>2. HasKafka' = HasKafka
  BY <1>1 DEF HasKafka, inputs
<1>3. CASE pconf = "set" /\ pc' = "setvar"
           /\ values' = Override(EnvOverrides(TakenFromEnv \ AwsSettings), "env")
  <2>1. \A o \in Settings : values'[o] = IF o \in TakenFromEnv \ AwsSettings THEN "env" ELSE values[o]
    BY <1>3 DEF Override, EnvOverrides
  <2>2. AwsApplied'
    BY <1>1, <2>1, AwsKept, Distinct
  <2>3. HasKafka => \A o \in KafkaSide : values'[o] = Varied(o)
    BY <1>1, <2>1, Distinct DEF Varied
  <2>4. \A o : Varied(o)' = Varied(o)
    BY <1>1 DEF Varied, Filed, TakenFromEnv, inputs, Defaults
  <2> QED BY <1>1, <1>2, <1>3, <2>2, <2>3, <2>4 DEF Staged
<1>4. CASE pconf = "indeterminate" /\ pc' = "setvar" /\ values' = Override(KafkaOptions, "garbage")
  <2>1. ~HasKafka
    BY <1>1, <1>4
  <2>2. \A o \in AwsSettings : values'[o] = values[o]
    <3>1. KafkaOptions \subseteq KafkaSide
      BY DEF KafkaSide
    <3> QED BY <1>4, <3>1, Distinct DEF Override
  <2>3. AwsApplied'
    BY <1>1, <2>2, AwsKept
  <2> QED BY <1>2, <1>4, <2>1, <2>3 DEF Staged
<1>5. CASE pc' = "aborted"
  BY <1>5 DEF Staged
<1> QED BY <1>3, <1>4, <1>5

\* RDKAFKA_SETVAR_ and the last setting.
LEMMA StagedCreate == ASSUME TypeOK, Staged, CreateConsumer PROVE Staged'
<1> USE DEF CreateConsumer, Goto, Abort
<1>1. /\ pc = "setvar" /\ AwsApplied /\ UNCHANGED inputs
      /\ HasKafka => \A o \in KafkaSide : values[o] = Varied(o)
  BY DEF Staged
<1>2. CASE pc' = "subscribe" /\ values' = AutoCommitOff(Override(TakenFromSetvar, "setvar"))
  <2>1. /\ values'[AutoCommit] = "k3"
        /\ \A o \in Settings \ {AutoCommit} :
              values'[o] = IF o \in TakenFromSetvar THEN "setvar" ELSE values[o]
    BY <1>2 DEF AutoCommitOff, Override, Settings
  <2>2. AwsApplied'
    <3>1. \A o \in AwsSettings : values'[o] = values[o]
      BY <2>1, Distinct, Inputs
    <3> QED BY <1>1, <3>1, AwsKept
  <2>3. HasKafka => \A o \in KafkaSide \ {AutoCommit} :
          values'[o] = IF o \in TakenFromSetvar THEN "setvar" ELSE Varied(o)
    BY <1>1, <2>1, Distinct
  <2>4. \A o : Varied(o)' = Varied(o)
    BY <1>1 DEF Varied, Filed, TakenFromEnv, inputs, Defaults
  <2>5. TakenFromSetvar' = TakenFromSetvar
    BY <1>1 DEF TakenFromSetvar, inputs
  <2> QED BY <1>1, <1>2, <2>1, <2>2, <2>3, <2>4, <2>5 DEF Staged, HasKafka, inputs
<1>3. CASE pc' = "aborted"
  BY <1>3 DEF Staged
<1> QED BY <1>2, <1>3

\* When the loop is entered the settings are what the sources make of them.
LEMMA StagedSubscribe == ASSUME TypeOK, Staged, Subscribe PROVE Staged'
<1> USE DEF Subscribe, Goto, Abort
<1>1. /\ pc = "subscribe" /\ AwsApplied /\ UNCHANGED <<inputs, values>>
      /\ values[AutoCommit] = "k3"
      /\ HasKafka => \A o \in KafkaSide \ {AutoCommit} :
           values[o] = IF o \in TakenFromSetvar THEN "setvar" ELSE Varied(o)
  BY DEF Staged
<1>2. CASE HasKafka /\ pc' = "loop"
  <2>1. ASSUME NEW o \in Documented \ {Kms, Group, Loglevel} PROVE values[o] = Strongest(o)
    <3>1. CASE o \in AwsOptions
      BY <1>1, <3>1 DEF AwsApplied
    <3>2. CASE o \notin AwsOptions
      <4>1. o \in KafkaSide \ {AutoCommit}
        BY <3>2, Distinct DEF Documented, AwsSettings, KafkaSide
      <4>2. values[o] = IF o \in TakenFromSetvar THEN "setvar" ELSE Varied(o)
        BY <1>1, <1>2, <4>1
      <4> QED BY <4>2 DEF Strongest, Varied, Filed
    <3> QED BY <3>1, <3>2
  <2>2. values[Group] = IF Strongest(Group) = "none" THEN "default" ELSE Strongest(Group)
    <3>1. Defaults[Group] = "none" /\ Group \in KafkaSide \ {AutoCommit}
      BY Distinct DEF Defaults, Group, Batchsize, Loglevel, AutoCommit
    <3>2. values[Group] = IF Group \in TakenFromSetvar THEN "setvar" ELSE Varied(Group)
      BY <1>1, <1>2, <3>1
    <3> QED BY <3>1, <3>2 DEF Strongest, Varied, Filed
  <2>3. pc' = "loop" => /\ \A o \in Documented \ {Kms, Group, Loglevel} : values[o] = Strongest(o)
                        /\ values[Group] = IF Strongest(Group) = "none" THEN "default"
                                           ELSE Strongest(Group)
                        /\ values[Loglevel] = IF Strongest(Loglevel) \in levels
                                              THEN Strongest(Loglevel) ELSE "default"
    BY <1>1, <2>1, <2>2 DEF AwsApplied
  <2>4. \A o : Strongest(o)' = Strongest(o)
    BY <1>1 DEF Strongest, TakenFromEnv, TakenFromSetvar, inputs, Defaults
  <2>5. StrongestSourceWins'
    BY <1>1, <1>2, <2>3, <2>4 DEF StrongestSourceWins, inputs
  <2> QED BY <1>1, <1>2, <2>5 DEF Staged
<1>3. CASE pc' = "aborted"
  BY <1>3 DEF Staged
<1> QED BY <1>2, <1>3

LEMMA StagedStep == ASSUME Inv, Next PROVE Staged'
<1>0. TypeOK /\ Staged
  BY DEF Inv
<1>1. CASE Construct
  <2>1. LevelFrom' = LevelFrom /\ Defaults' = Defaults /\ levels' = levels
    BY <1>1 DEF Construct, inputs, LevelFrom, Defaults
  <2>2. values' = [Defaults EXCEPT ![Loglevel] = IF LevelFrom \in levels THEN LevelFrom ELSE @]
        /\ pc' = "s3"
    BY <1>1 DEF Construct
  <2> QED BY <2>1, <2>2 DEF Staged
<1>2. CASE SetupS3 \/ SetupJson \/ SetupTopicConf \/ SetupEnv \/ CreateConsumer \/ Subscribe
  BY <1>0, <1>2, StagedS3, StagedJson, StagedTopic, StagedEnv, StagedCreate, StagedSubscribe
<1>3. CASE Return \/ Destroy \/ Again
  BY <1>3 DEF Return, Destroy, Again, Goto, Staged
<1>4. CASE Settled
  <2>1. pc' \in {"exited", "aborted"}
    BY <1>4 DEF Settled, vars
  <2> QED BY <2>1 DEF Staged
<1> QED BY <1>1, <1>2, <1>3, <1>4 DEF Next

LEMMA Inductive == Inv /\ [Next]_vars => Inv'
<1> SUFFICES ASSUME Inv, [Next]_vars PROVE Inv'
  OBVIOUS
<1>1. CASE Next
  BY <1>1, TypeStep, NestedStep, StagedStep DEF Inv
<1>2. CASE UNCHANGED vars
  <2>1. UNCHANGED <<file, env, setvars, ignored, levels, pc, alive, pconf, values, restarts>>
    BY <1>2 DEF vars, inputs
  <2>2. TypeOK' /\ Nested'
    BY <2>1 DEF Inv, TypeOK, Nested
  <2>3. /\ Defaults' = Defaults /\ LevelFrom' = LevelFrom /\ HasKafka' = HasKafka
        /\ \A o : Strongest(o)' = Strongest(o) /\ Filed(o)' = Filed(o) /\ Varied(o)' = Varied(o)
    BY <2>1 DEF Defaults, LevelFrom, HasKafka, Strongest, Filed, Varied, TakenFromEnv,
             TakenFromSetvar
  <2>4. AwsApplied' = AwsApplied /\ StrongestSourceWins' = StrongestSourceWins
    BY <2>1, <2>3 DEF AwsApplied, StrongestSourceWins
  <2>5. TakenFromSetvar' = TakenFromSetvar
    BY <2>1 DEF TakenFromSetvar
  <2>6. Staged'
    BY <2>1, <2>3, <2>4, <2>5 DEF Inv, Staged
  <2> QED BY <2>2, <2>6 DEF Inv
<1> QED BY <1>1, <1>2

LEMMA Invariant == Spec => []Inv
BY InitInv, Inductive, PTL DEF Spec

\* Every reachable state of the start is well typed.
THEOREM SetupTypeCorrect == Spec => []TypeOK
<1>1. Inv => TypeOK
  BY DEF Inv
<1> QED BY <1>1, Invariant, PTL

\* No consumer runs with librdkafka's own commits switched on, whatever the
\* file and the variables say, on the first start and after every restart.
\* (_pconf->set("enable.auto.commit", "false") is the last setting of all)
THEOREM OnlyK3CommitsCorrect == Spec => []OnlyK3Commits
<1>1. Inv => OnlyK3Commits
  BY DEF Inv, Staged, OnlyK3Commits
<1> QED BY <1>1, Invariant, PTL

\* In a running process every setting comes from the strongest source that
\* has it, for all options.  (S3::setup, Consume::setup, KafkaConf::create)
THEOREM StrongestCorrect == Spec => []StrongestSourceWins
<1>1. Inv => StrongestSourceWins
  BY DEF Inv, Staged, StrongestSourceWins
<1> QED BY <1>1, Invariant, PTL

\* S3 and the AWS SDK outlive what uses them, on every way out and restart.
\* (comsume_to_s3, ~Consume, ~AwsGuard)
THEOREM ApiOutlivesCorrect == Spec => []ApiOutlivesUsers
<1>1. Inv => ApiOutlivesUsers
  <2>1. /\ ToSet(<<>>) = {} /\ ToSet(<<"aws">>) = {"aws"} /\ ToSet(<<"aws", "s3">>) = {"aws", "s3"}
        /\ ToSet(<<"aws", "s3", "consume">>) = {"aws", "s3", "consume"}
    BY DEF ToSet
  <2> QED BY <2>1 DEF Inv, Nested, ApiOutlivesUsers
<1> QED BY <1>1, Invariant, PTL
=============================================================================
