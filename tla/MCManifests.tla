----------------------------- MODULE MCManifests -----------------------------
(* A small instance of Manifests: the values users give to each field. *)
EXTENDS Manifests

NoProbe ==
    [Handler |-> Unset, InitialDelaySeconds |-> 0, PeriodSeconds |-> 0,
     TimeoutSeconds |-> 0, FailureThreshold |-> 0, SuccessThreshold |-> 0]

NoElasticSearch == [Host |-> Unset, UserName |-> Unset, Password |-> Unset]

MCLabelKeys == {"team", "app", ClusterLabel, ClusterResourceLabel}
MCAnnotationKeys == {BodySizeAnnotation, "nginx.ingress.kubernetes.io/server-snippet"}

BodySize(number, unit) ==
    [k \in {BodySizeAnnotation} |-> [number |-> number, unit |-> unit, multiline |-> FALSE]]

Snippet ==
    [k \in {"nginx.ingress.kubernetes.io/server-snippet"} |->
        [number |-> 0, unit |-> "return", multiline |-> FALSE]]

Label(key, value) == [k \in {key} |-> value]

MCBaseMattermost ==
    [Name |-> "mm",
     Spec |->
        [Size |-> Unset, Image |-> Unset, Version |-> Unset, Replicas |-> {},
         MattermostEnv |-> <<>>, LicenseSecret |-> Unset, IngressName |-> "chat.example.com",
         IngressAnnotations |-> EmptyMap, UseIngressTLS |-> FALSE,
         UseServiceLoadBalancer |-> FALSE, ServiceAnnotations |-> EmptyMap,
         ResourceLabels |-> {}, Ingress |-> {}, AWSLoadBalancerController |-> {},
         Volumes |-> <<>>, VolumeMounts |-> <<>>, ImagePullPolicy |-> Unset,
         ImagePullSecrets |-> Unset, DNS |-> Unset, Database |-> NoDatabase,
         FileStore |-> [External |-> {}, ExternalVolume |-> {}, OperatorManaged |-> {}, Local |-> {}],
         ElasticSearch |-> NoElasticSearch,
         Scheduling |-> [Resources |-> NoResources, Placement |-> Unset],
         Probes |-> [LivenessProbe |-> NoProbe, ReadinessProbe |-> NoProbe],
         PodTemplate |-> {}, DeploymentTemplate |-> {}, UpdateJob |-> {}, JobServer |-> {},
         PodExtensions |-> [InitContainers |-> <<>>, SidecarContainers |-> <<>>,
                            ContainerPorts |-> <<>>],
         ResourcePatch |-> {}]]

Base == MCBaseMattermost.Spec

FS == Base.FileStore
External(useServiceAccount) ==
    [FS EXCEPT !.External = {[URL |-> "s3.example.com", Bucket |-> "files", Secret |-> "s3",
                              UseServiceAccount |-> useServiceAccount]}]
Volume_(claim) == [FS EXCEPT !.ExternalVolume = {[VolumeClaimName |-> claim]}]
Local(modes, size) ==
    [FS EXCEPT !.Local = {[Enabled |-> TRUE, StorageSize |-> size, AccessModes |-> modes]}]
Minio_ ==
    [FS EXCEPT !.OperatorManaged = {[EmptyMinio EXCEPT !.StorageSize = "100Gi", !.Replicas = {1}]}]

IngressOn(host, hosts) ==
    [Enabled |-> TRUE, Host |-> host, Hosts |-> hosts, Annotations |-> Snippet,
     TLSSecret |-> "tls", IngressClass |-> {"internal"}]
ALB(hosts, class) ==
    [Enabled |-> TRUE, CertificateARN |-> Unset, InternetFacing |-> TRUE, Hosts |-> hosts,
     IngressClassName |-> class, Annotations |-> EmptyMap]
Patched(deployment, service) ==
    [Deployment |-> {[Disable |-> FALSE, Patch |-> deployment]},
     Service |-> {[Disable |-> FALSE, Patch |-> service]}]
UserEnv ==
    <<Text("MM_CONFIG", "first"), Text("CUSTOM", "1"), Text("MYSQL_USERNAME", "me"),
      Text("MM_CONFIG", "second")>>

MCMattermostChoices ==
    [Size |-> {"1000users", "unknown"},
     Version |-> {"sha256:d"},
     Replicas |-> {{0}, {4}},
     MattermostEnv |-> {UserEnv},
     LicenseSecret |-> {"licence"},
     Scheduling |-> {[Resources |-> NoResources, Placement |-> "zone"]},
     UseServiceLoadBalancer |-> BOOLEAN,
     IngressAnnotations |-> {BodySize(2, "g")},
     ResourceLabels |-> {{Label("team", "a")}, {Label("app", "b")}},
     Ingress |-> {{[IngressOn("chat.example.com", <<"alt", "chat.example.com">>) EXCEPT !.Enabled = FALSE]},
                  {IngressOn("chat.example.com", <<"alt", "chat.example.com">>)},
                  {IngressOn(Unset, <<"alt">>)}},
     AWSLoadBalancerController |-> {{}, {ALB(<<"chat.example.com">>, Unset)}, {ALB(<<>>, "own")},
                                    {ALB(<<"chat.example.com">>, "own")}},
     Database |-> {[NoDatabase EXCEPT !.External = {[Secret |-> "postgres"]}],
                   [NoDatabase EXCEPT !.External = {[Secret |-> "s3"]}],
                   [NoDatabase EXCEPT !.OperatorManaged = {[EmptyDatabase EXCEPT !.Type = "postgres"]}]},
     FileStore |-> {External(TRUE), External(FALSE), Volume_("claim"), Volume_("lost"),
                    Local(<<>>, Unset), Local(<<"ReadWriteOnce">>, "100Gi"), Minio_},
     PodTemplate |-> {{[Command |-> {}, SecurityContexts |-> Unset, ExtraAnnotations |-> {},
                        ExtraLabels |-> Label("app", "c")]}},
     JobServer |-> {{}, {[DedicatedJobServer |-> TRUE]}},
     ResourcePatch |-> {{}, {Patched(<<"spec", "replicas">>, <<"metadata", "annotations", "tier">>)},
                        {Patched(Pod \o <<"volumes", "0">>, Malformed)}}]

App(name, version) ==
    [Name |-> Unset, IngressName |-> Unset, Image |-> "image", Version |-> version,
     ResourceLabels |-> Label("team", name)]

MCBaseInstallation ==
    [Name |-> "mm",
     Spec |->
        [Image |-> Unset, Version |-> Unset, Size |-> Unset, Replicas |-> 0,
         Resources |-> NoResources, IngressName |-> "chat.example.com",
         MattermostLicenseSecret |-> Unset, Placement |-> "zone",
         Minio |-> [StorageSize |-> Unset, Replicas |-> 0, Resources |-> NoResources,
                    ExternalURL |-> Unset, ExternalBucket |-> Unset, Secret |-> Unset],
         Database |-> [Type |-> Unset, Secret |-> Unset, StorageSize |-> Unset, Replicas |-> 0,
                       Resources |-> NoResources, InitBucketURL |-> Unset, Backup |-> Unset,
                       BackupRestoreSecretName |-> Unset, Version |-> Unset],
         BlueGreen |-> [ProductionDeployment |-> Unset, Enable |-> FALSE,
                        Blue |-> App("blue", "1"), Green |-> App("green", "10.8.1@sha256:d")],
         Canary |-> [Enable |-> FALSE, Deployment |-> App("canary", Unset)],
         ElasticSearch |-> NoElasticSearch, UseServiceLoadBalancer |-> FALSE,
         ServiceAnnotations |-> EmptyMap, UseIngressTLS |-> TRUE, ResourceLabels |-> {},
         IngressAnnotations |-> EmptyMap, MattermostEnv |-> <<>>, LivenessProbe |-> NoProbe,
         ReadinessProbe |-> NoProbe, ImagePullPolicy |-> Unset]]

IBase == MCBaseInstallation.Spec

MCInstallationChoices ==
    [Size |-> {"100users", "unknown"},
     Replicas |-> {-1, 3},
     MattermostEnv |-> {UserEnv},
     MattermostLicenseSecret |-> {"licence"},
     UseServiceLoadBalancer |-> BOOLEAN,
     IngressAnnotations |-> {Snippet, BodySize(20, "k")},
     ResourceLabels |-> {{Label("team", "a")}},
     Minio |-> {[IBase.Minio EXCEPT !.ExternalURL = "s3.example.com", !.ExternalBucket = "files",
                                    !.Secret = "s3"],
                [IBase.Minio EXCEPT !.ExternalURL = "s3.example.com", !.ExternalBucket = "files"],
                [IBase.Minio EXCEPT !.Secret = "s3"]},
     Database |-> {[IBase.Database EXCEPT !.Secret = "postgres"],
                   [IBase.Database EXCEPT !.Secret = "mysql"],
                   [IBase.Database EXCEPT !.Secret = "s3"],
                   [IBase.Database EXCEPT !.InitBucketURL = "bucket", !.BackupRestoreSecretName = "s3"]},
     BlueGreen |-> {IBase.BlueGreen,
                    [IBase.BlueGreen EXCEPT !.Enable = TRUE, !.ProductionDeployment = "Blue"],
                    [IBase.BlueGreen EXCEPT !.Enable = TRUE, !.ProductionDeployment = "green"],
                    [IBase.BlueGreen EXCEPT !.Enable = TRUE]},
     Canary |-> {IBase.Canary,
                 [Enable |-> TRUE, Deployment |-> App("canary", "2")],
                 [Enable |-> TRUE, Deployment |-> App("canary", Unset)]}]

Mine(name, data) ==
    [Kind |-> "Secret", Name |-> name, Owner |-> <<"user">>, Labels |-> EmptyMap,
     Data |-> data, Drawn |-> 0]

MCUserObjects ==
    {Mine("s3", [k \in {"accesskey", "secretkey"} |-> "key"]),
     Mine("licence", [k \in {"license"} |-> "text"]),
     Mine("postgres", [k \in {"DB_CONNECTION_STRING", "DB_CONNECTION_CHECK_URL",
                              "MM_SQLSETTINGS_DATASOURCEREPLICAS"} |-> "postgres"]),
     Mine("mysql", [k \in {"ROOT_PASSWORD", "USER", "PASSWORD", "DATABASE"} |-> "mine"]),
     [Kind |-> "PersistentVolumeClaim", Name |-> "claim", Owner |-> <<"user">>,
      Labels |-> EmptyMap, AccessModes |-> <<"ReadWriteMany">>, Storage |-> "1Gi",
      Phase |-> "Bound"],
     [Kind |-> "PersistentVolumeClaim", Name |-> "lost", Owner |-> <<"user">>,
      Labels |-> EmptyMap, AccessModes |-> <<"ReadWriteMany">>, Storage |-> "1Gi",
      Phase |-> "Lost"],
     [Kind |-> "ServiceAccount", Name |-> "mm", Owner |-> <<"user">>, RoleArn |-> "arn"]}

=============================================================================
