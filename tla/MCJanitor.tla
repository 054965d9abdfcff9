------------------------------ MODULE MCJanitor ------------------------------
EXTENDS Janitor

OneOwner == [s \in Secrets |-> "app"]

FourKinds == <<"AivenApplication", "CronJob", "Job", "Pod">>
TwoKinds  == <<"AivenApplication", "Pod">>

\* What brings about what in the cluster.
AllMakers ==
  [k \in KindSet |->
     KindSet \cap CASE k = "AivenApplication"          -> {}
                    [] k \in {"ReplicaSet", "CronJob"} -> {"AivenApplication"}
                    [] k = "Job" -> {"AivenApplication", "CronJob"}
                    [] k = "Pod" -> {"AivenApplication", "ReplicaSet", "CronJob", "Job"}]

\* Workloads of Kafka applications as naiserator makes them: with the label, and
\* the Secret mounted as a volume.
Volumes == {[label |-> "app", mount |-> "volume"]}
=============================================================================
