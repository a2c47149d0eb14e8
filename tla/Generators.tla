------------------------------ MODULE Generators ------------------------------
(***************************************************************************)
(* The Kubernetes objects that a Mattermost (v1beta1) is turned into.      *)
(*                                                                         *)
(* The operator's label functions write into the map of                    *)
(* spec.resourceLabels itself when the user set it, so an object that has  *)
(* that map for its labels shows what is written to it until the object    *)
(* is sent: see SharedLabels.                                              *)
(***************************************************************************)
EXTENDS MattermostSpec, PodParts

(* Objects are compared by what the operator puts into them.  The secrets, *)
(* accounts and roles carry nothing of the spec but the name.              *)
OwnedBy(mm) == <<"Mattermost", mm.Name>>

Bare(mm, kind, name) ==
    [Kind |-> kind, Name |-> name, Owner |-> OwnedBy(mm)]

GenerateServiceAccountV1Beta(mm, saName) == Bare(mm, "ServiceAccount", saName)

GenerateRoleV1Beta(mm, roleName) == Bare(mm, "Role", roleName)

GenerateRoleBindingV1Beta(mm, roleName, saName) ==
    [Kind |-> "RoleBinding", Name |-> roleName, Owner |-> OwnedBy(mm),
     Subject |-> saName, RoleRef |-> roleName]

-----------------------------------------------------------------------------
(* Service and ingress. *)

newServiceV1Beta(mm, annotations) ==
    [Kind |-> "Service", Name |-> mm.Name, Owner |-> OwnedBy(mm),
     Labels |-> MattermostLabels(mm, mm.Name), Annotations |-> annotations,
     Selector |-> MattermostSelectorLabels(mm.Name),
     Type |-> "ClusterIP", Ports |-> {}]

(* Fault: a service behind an ALB is made a load balancer as well. *)
GenerateServiceBalancedTwice(mm) ==
    LET service == newServiceV1Beta(mm, mm.Spec.ServiceAnnotations)
    IN CASE AWSLoadBalancerEnabled(mm) \/ mm.Spec.UseServiceLoadBalancer ->
                configureMattermostLoadBalancerService(service)
         [] OTHER -> configureMattermostService(service)

GenerateServiceV1Beta(mm) ==
    LET service == newServiceV1Beta(mm, mergeStringMaps(EmptyMap, mm.Spec.ServiceAnnotations))
    IN CASE AWSLoadBalancerEnabled(mm) ->
                configureMattermostServiceNodePort(service)
         [] ~AWSLoadBalancerEnabled(mm) /\ mm.Spec.UseServiceLoadBalancer ->
                configureMattermostLoadBalancerService(service)
         [] OTHER -> configureMattermostService(service)

(* Keys with "snippet" in them, and values of more than one line, are      *)
(* dropped.                                                                *)
SnippetKeys == {"nginx.ingress.kubernetes.io/server-snippet"}

sanitizeIngressAnnotations(annotations) ==
    Restrict(annotations,
             {k \in DOMAIN annotations : k \notin SnippetKeys /\ ~annotations[k].multiline})

Plain(unit) == [number |-> 0, unit |-> unit, multiline |-> FALSE]

makeIngressRules(hosts, mm) ==
    [i \in DOMAIN hosts |-> [Host |-> hosts[i], Backend |-> Backend(mm.Name)]]

ingressClassAnnotation == "kubernetes.io/ingress.class"

GenerateIngressV1Beta(mm) ==
    LET body == [k \in {BodySizeAnnotation} |->
                    [number |-> 1000, unit |-> "M", multiline |-> FALSE]]
        class == [k \in {ingressClassAnnotation} |-> Plain("nginx")]
        own == IF GetIngressClass(mm) = {} THEN mergeStringMaps(body, class) ELSE body
        hosts == GetIngressHostNames(mm)
    IN [Kind |-> "Ingress", Name |-> mm.Name, Owner |-> OwnedBy(mm),
        Labels |-> MattermostLabels(mm, mm.Name),
        Annotations |-> mergeStringMaps(own, sanitizeIngressAnnotations(GetIngresAnnotations(mm))),
        IngressClassName |-> GetIngressClass(mm),
        Rules |-> makeIngressRules(hosts, mm),
        TLS |-> IF GetIngressTLSSecret(mm) = Unset THEN {}
                ELSE {[Hosts |-> hosts, SecretName |-> GetIngressTLSSecret(mm)]}]

GenerateALBIngressClassV1Beta(mm) ==
    [Kind |-> "IngressClass", Name |-> mm.Name, Owner |-> OwnedBy(mm),
     Labels |-> MattermostLabels(mm, mm.Name), Controller |-> "ingress.k8s.aws/alb"]

GenerateALBIngressV1Beta(mm) ==
    LET alb == Deref(mm.Spec.AWSLoadBalancerController, Unset)
        key(k) == "alb.ingress.kubernetes.io/" \o k
        scheme == [k \in {key("scheme")} |->
                    Plain(IF alb.InternetFacing THEN "internet-facing" ELSE "internal")]
        listen == IF alb.CertificateARN = Unset
                  THEN [k \in {key("listen-ports")} |-> Plain("http 8065")]
                  ELSE [k \in {key("certificate-arn"), key("ssl-redirect"), key("listen-ports")} |->
                        CASE k = key("certificate-arn") -> Plain(alb.CertificateARN)
                          [] k = key("ssl-redirect") -> Plain("443")
                          [] k = key("listen-ports") -> Plain("http 80, https 443")]
    IN [Kind |-> "Ingress", Name |-> mm.Name, Owner |-> OwnedBy(mm),
        Labels |-> MattermostLabels(mm, mm.Name),
        Annotations |-> mergeStringMaps(mergeStringMaps(scheme, listen),
                                        sanitizeIngressAnnotations(alb.Annotations)),
        IngressClassName |-> {OrDefault(alb.IngressClassName, mm.Name)},
        Rules |-> makeIngressRules(GetAWSLoadBalancerHostNames(mm), mm),
        TLS |-> {}]

-----------------------------------------------------------------------------
(* Database settings: what the secret allows, or an error. *)

allowedDBCheckSchemesByType(dbType) ==
    CASE dbType = "mysql"    -> {"http", "https"}
      [] dbType = "postgres" -> {"http", "https", "postgres"}
      [] OTHER               -> {"http", "https", "mysql", "postgres"}

(* A check URL is its scheme; "" , a URL that does not parse and one       *)
(* without a host have none of these.                                      *)
validateDBCheckURL(rawURL, dbType) == rawURL \in allowedDBCheckSchemesByType(dbType)

(* The settings are a set of at most one record: {} is an error. *)
NewExternalDBConfig(mm, secret) ==
    LET dbType == GetTypeFromConnectionString(secret.Data["DB_CONNECTION_STRING"])
    IN IF /\ DatabaseIsExternal(mm.Spec.Database)
          /\ NotEmpty(secret, "DB_CONNECTION_STRING")
          /\ Holds(secret, "DB_CONNECTION_CHECK_URL") =>
                validateDBCheckURL(secret.Data["DB_CONNECTION_CHECK_URL"], dbType)
       THEN {[kind |-> "external", secretName |-> secret.Name, dbType |-> dbType,
              hasReaderEndpoints |-> Holds(secret, "MM_SQLSETTINGS_DATASOURCEREPLICAS"),
              hasDBCheckURL |-> Holds(secret, "DB_CONNECTION_CHECK_URL"),
              hasSeparateDatasourceKey |-> Holds(secret, "MM_SQLSETTINGS_DATASOURCE")]}
       ELSE {}

DatasourceKey(db) ==
    IF db.hasSeparateDatasourceKey THEN "MM_SQLSETTINGS_DATASOURCE"
    ELSE "DB_CONNECTION_STRING"

ExternalDBEnvVars(db) ==
    <<Var("MM_CONFIG", EnvSourceFromSecret(db.secretName, "DB_CONNECTION_STRING")),
      Var("MM_SQLSETTINGS_DATASOURCE", EnvSourceFromSecret(db.secretName, DatasourceKey(db)))>>
    \o IF db.hasReaderEndpoints
       THEN <<Var("MM_SQLSETTINGS_DATASOURCEREPLICAS",
                  EnvSourceFromSecret(db.secretName, "MM_SQLSETTINGS_DATASOURCEREPLICAS"))>>
       ELSE <<>>

builtinDBCheckInitContainer(mm, db) ==
    [Name |-> "init-check-database", Image |-> GetImageName(mm),
     Env |-> <<Var("MM_CONFIG", EnvSourceFromSecret(db.secretName, "DB_CONNECTION_STRING")),
               Var("MM_SQLSETTINGS_DATASOURCE",
                   EnvSourceFromSecret(db.secretName, DatasourceKey(db)))>>]

ReadinessMode(mm) ==
    IF mm.Spec.Database.ReadinessCheck = {} THEN "external"
    ELSE OrDefault(Deref(mm.Spec.Database.ReadinessCheck, Unset).Mode, "external")

getDBCheckInitContainer(mm, db) ==
    IF ReadinessMode(mm) = "builtin" THEN <<builtinDBCheckInitContainer(mm, db)>>
    ELSE externalDBCheckInitContainer(db.secretName, db.dbType)

ExternalDBInitContainers(mm, db) ==
    IF mm.Spec.Database.DisableReadinessCheck
       \/ (ReadinessMode(mm) = "external" /\ ~db.hasDBCheckURL)
    THEN <<>>
    ELSE getDBCheckInitContainer(mm, db)

NewMySQLDBConfig(secret) ==
    IF \A key \in {"ROOT_PASSWORD", "USER", "PASSWORD", "DATABASE"} : NotEmpty(secret, key)
    THEN {[kind |-> "mysql", secretName |-> secret.Name]}
    ELSE {}

MySQLEnvVars(db) ==
    <<Var("MYSQL_USERNAME", EnvSourceFromSecret(db.secretName, "USER")),
      Var("MYSQL_PASSWORD", EnvSourceFromSecret(db.secretName, "PASSWORD")),
      Var("MM_SQLSETTINGS_DATASOURCEREPLICAS", MySQLDataSource("mysql")),
      Var("MM_CONFIG", MySQLDataSource("mysql-master"))>>

MySQLInitContainers(mm) ==
    IF mm.Spec.Database.DisableReadinessCheck THEN <<>>
    ELSE <<InitContainer("init-check-operator-mysql", "appropriate/curl:latest", <<>>)>>

-----------------------------------------------------------------------------
(* File store settings. *)

DefaultLocalFilePath == "/mattermost/data"
FileStoreDefaultVolumeName == "mattermost-data"

S3Store(kind, secretName, bucketName, url, useS3SSL) ==
    [kind |-> kind, volume |-> Unset,
     fsInfo |-> [secretName |-> secretName, bucketName |-> bucketName,
                 url |-> url, useS3SSL |-> useS3SSL]]

ClaimStore(claim) == [kind |-> "volume", volume |-> claim, fsInfo |-> {}]

(* secret is {} when the pods use the service account's role. *)
NewExternalFileStoreInfo(mm, secret) ==
    {S3Store("external", Deref({s.Name : s \in secret}, Unset), e.Bucket, e.URL, TRUE) :
        e \in {x \in mm.Spec.FileStore.External :
                  /\ x.Bucket # Unset
                  /\ x.URL # Unset
                  /\ \A s \in secret : Holds(s, "accesskey") /\ Holds(s, "secretkey")}}

NewExternalVolumeFileStoreInfo(mm) ==
    {ClaimStore(v.VolumeClaimName) :
        v \in {x \in mm.Spec.FileStore.ExternalVolume : x.VolumeClaimName # Unset}}

NewLocalFileStoreInfo(mm) == ClaimStore(mm.Name)

NewOperatorManagedFileStoreInfo(mm, secret, minioURL) ==
    S3Store("minio", secret, mm.Name, minioURL, FALSE)

FileStoreEnvVars(fileStore) ==
    IF fileStore.kind = "volume" THEN localFileEnvVars(DefaultLocalFilePath)
    ELSE s3EnvVars(fileStore.fsInfo)

FileStoreInitContainers(fileStore) ==
    IF fileStore.kind = "minio" THEN MinioInitContainers(fileStore.fsInfo.secretName)
    ELSE <<>>

FileStoreVolumes(fileStore) ==
    IF fileStore.kind # "volume" THEN <<>>
    ELSE <<[Name |-> FileStoreDefaultVolumeName, Source |-> "PersistentVolumeClaim",
            Of |-> fileStore.volume]>>

FileStoreVolumeMounts(fileStore) ==
    IF fileStore.kind # "volume" THEN <<>>
    ELSE <<[Name |-> FileStoreDefaultVolumeName, MountPath |-> DefaultLocalFilePath]>>

-----------------------------------------------------------------------------
(* Deployments. *)

(* Labels the user gave are one map that every label function writes to:   *)
(* an object that is not sent yet shows the labels written last.           *)
SharedLabels(mm, own, last) == IF mm.Spec.ResourceLabels = {} THEN own ELSE last

DedicatedJobServer(mm) == \E j \in mm.Spec.JobServer : j.DedicatedJobServer

DeploymentEnvVars(mm, db, fileStore, ingressHost) ==
    LET database == IF db.kind = "external" THEN ExternalDBEnvVars(db) ELSE MySQLEnvVars(db)
        jobs == IF DedicatedJobServer(mm) THEN <<Text("MM_JOBSETTINGS_RUNJOBS", "false")>>
                ELSE <<>>
    IN mergeEnvVars(
        database
        \o FileStoreEnvVars(fileStore)
        \o elasticSearchEnvVars(mm.Spec.ElasticSearch)
        \o generalMattermostEnvVars(siteURLFromHost(ingressHost))
        \o <<MaxFileSize(mm.Spec.UseServiceLoadBalancer, GetIngresAnnotations(mm))>>
        \o jobs
        \o mattermostLicenceConfig(mm.Spec.LicenseSecret).Env,
        mm.Spec.MattermostEnv)

DeploymentInitContainers(mm, db, fileStore) ==
    (IF db.kind = "external" THEN ExternalDBInitContainers(mm, db) ELSE MySQLInitContainers(mm))
    \o FileStoreInitContainers(fileStore)
    \o mm.Spec.PodExtensions.InitContainers

(* The annotations of the licence go over those of the user. *)
PodAnnotations(mm) ==
    LET user == UNION {t.ExtraAnnotations : t \in mm.Spec.PodTemplate}
    IN mergeStringMaps(Deref(user, EmptyMap),
                       mattermostLicenceConfig(mm.Spec.LicenseSecret).Annotations)

(* Only Recreate replaces the rolling update. *)
Strategy(mm) ==
    IF \E t \in mm.Spec.DeploymentTemplate : t.DeploymentStrategyType = "Recreate"
    THEN "Recreate" ELSE "RollingUpdate"

RevisionHistoryLimit(mm) ==
    Deref(UNION {t.RevisionHistoryLimit : t \in mm.Spec.DeploymentTemplate}, 5)

AppContainer(mm, db, fileStore, ingressHost, containerImage) ==
    [Name |-> MattermostAppContainerName, Image |-> containerImage,
     Command |-> Deref(UNION {t.Command : t \in mm.Spec.PodTemplate}, "mattermost"),
     Env |-> DeploymentEnvVars(mm, db, fileStore, ingressHost),
     Ports |-> AppPorts \o mm.Spec.PodExtensions.ContainerPorts,
     Probes |-> {setProbes(mm.Spec.Probes.LivenessProbe, mm.Spec.Probes.ReadinessProbe)},
     VolumeMounts |-> mm.Spec.VolumeMounts \o FileStoreVolumeMounts(fileStore)
                      \o mattermostLicenceConfig(mm.Spec.LicenseSecret).Mounts,
     Resources |-> mm.Spec.Scheduling.Resources]

GenerateDeploymentV1Beta(mm, db, fileStore, deploymentName, ingressHost, serviceAccountName, containerImage) ==
    [Kind |-> "Deployment", Name |-> deploymentName, Owner |-> OwnedBy(mm),
     Labels |-> SharedLabels(mm, MattermostLabels(mm, deploymentName),
                                 MattermostPodLabels(mm, deploymentName)),
     Strategy |-> Strategy(mm), RevisionHistoryLimit |-> RevisionHistoryLimit(mm),
     Replicas |-> mm.Spec.Replicas,
     Selector |-> MattermostSelectorLabels(deploymentName),
     PodLabels |-> MattermostPodLabels(mm, deploymentName),
     PodAnnotations |-> PodAnnotations(mm),
     ServiceAccountName |-> serviceAccountName,
     InitContainers |-> DeploymentInitContainers(mm, db, fileStore),
     App |-> AppContainer(mm, db, fileStore, ingressHost, containerImage),
     Sidecars |-> mm.Spec.PodExtensions.SidecarContainers,
     Volumes |-> mm.Spec.Volumes \o FileStoreVolumes(fileStore)
                 \o mattermostLicenceConfig(mm.Spec.LicenseSecret).Volumes,
     Copied |-> <<mm.Spec.ImagePullPolicy, mm.Spec.ImagePullSecrets, mm.Spec.DNS,
                  mm.Spec.Scheduling.Placement,
                  Deref({t.SecurityContexts : t \in mm.Spec.PodTemplate}, Unset)>>]

(* Fault: the job server keeps the selector of the app's deployment. *)
GenerateJobServerKeepsSelector(mm, db, fileStore, deploymentName, ingressHost, serviceAccountName, containerImage) ==
    [GenerateDeploymentV1Beta(mm, db, fileStore, mm.Name, GetIngressHost(mm), mm.Name,
                              GetImageName(mm)) EXCEPT
        !.Name = deploymentName \o "-jobserver", !.Replicas = {1}]

(* One pod of the app's deployment, under labels of its own, that serves   *)
(* nobody: no ports, no probes and no sidecars.  The arguments after the   *)
(* name are not used.                                                      *)
GenerateJobServerDeploymentV1Beta(mm, db, fileStore, deploymentName, ingressHost, serviceAccountName, containerImage) ==
    LET labels == MattermostJobServerPodLabels(mm, deploymentName)
        app == GenerateDeploymentV1Beta(mm, db, fileStore, mm.Name, GetIngressHost(mm),
                                        mm.Name, GetImageName(mm))
    IN [app EXCEPT !.Name = deploymentName \o "-jobserver",
                   !.Labels = SharedLabels(mm, @, labels),
                   !.Replicas = {1},
                   !.PodLabels = labels,
                   !.Selector = labels,
                   !.App = [app.App EXCEPT !.Name = MattermostJobServerContainerName,
                                           !.Command = "mattermost jobserver",
                                           !.Ports = <<>>,
                                           !.Probes = {}],
                   !.Sidecars = <<>>]

-----------------------------------------------------------------------------
(* MySQL cluster and MinIO instance. *)

ClusterV1Beta(mm) ==
    LET omd == ManagedDatabase(mm.Spec.Database)
        restores == omd.InitBucketURL # Unset /\ omd.BackupRestoreSecretName # Unset
    IN [Kind |-> "MysqlCluster", Name |-> "db-" \o mm.Name, Owner |-> OwnedBy(mm),
        Labels |-> MattermostResourceLabels(mm.Name),
        MysqlVersion |-> omd.Version, Replicas |-> omd.Replicas,
        SecretName |-> mm.Name \o "-mysql-root-password",
        Storage |-> omd.StorageSize, Backup |-> <<omd.Backup, omd.BackupRestoreSecretName>>,
        InitBucket |-> IF restores THEN <<omd.InitBucketURL, omd.BackupRestoreSecretName>>
                       ELSE <<>>]

InstanceV1Beta(mm) ==
    LET omm == ManagedMinio(mm.Spec.FileStore)
    IN newMinioInstance(OwnedBy(mm), mm.Name \o "-minio", MattermostResourceLabels(mm.Name),
                        Deref(omm.Replicas, 0), omm.StorageSize)

(* Its labels are those of a ClusterInstallation of that name. *)
SecretV1Beta(mm) ==
    [Kind |-> "Secret", Name |-> DefaultMinioSecretName(mm.Name), Owner |-> OwnedBy(mm),
     Labels |-> [k \in {"v1alpha1.mattermost.com/resource"} |-> mm.Name]]

=============================================================================
