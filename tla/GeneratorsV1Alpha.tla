--------------------------- MODULE GeneratorsV1Alpha ---------------------------
(***************************************************************************)
(* The Kubernetes objects that a ClusterInstallation (v1alpha1) is turned  *)
(* into.  The records have the fields of those in Generators, so that the  *)
(* objects before and after a migration can be compared.                   *)
(***************************************************************************)
EXTENDS ClusterInstallationSpec, PodParts

ClusterInstallationOwnerReference(ci) == <<"ClusterInstallation", ci.Name>>

GenerateSecret(ci, secretName, labels) ==
    [Kind |-> "Secret", Name |-> secretName,
     Owner |-> ClusterInstallationOwnerReference(ci), Labels |-> labels]

GenerateServiceAccount(ci, saName) ==
    [Kind |-> "ServiceAccount", Name |-> saName,
     Owner |-> ClusterInstallationOwnerReference(ci)]

GenerateRole(ci, roleName) ==
    [Kind |-> "Role", Name |-> roleName,
     Owner |-> ClusterInstallationOwnerReference(ci)]

GenerateRoleBinding(ci, roleName, saName) ==
    [Kind |-> "RoleBinding", Name |-> roleName,
     Owner |-> ClusterInstallationOwnerReference(ci),
     Subject |-> saName, RoleRef |-> roleName]

newService(ci, serviceName, selectorName, annotations) ==
    [Kind |-> "Service", Name |-> serviceName,
     Owner |-> ClusterInstallationOwnerReference(ci),
     Labels |-> ClusterInstallationLabels(ci, serviceName), Annotations |-> annotations,
     Selector |-> ClusterInstallationSelectorLabels(selectorName),
     Type |-> "ClusterIP", Ports |-> {}]

(* Only a load balancer gets the annotations of the user. *)
GenerateService(ci, serviceName, selectorName) ==
    IF ci.Spec.UseServiceLoadBalancer
    THEN configureMattermostLoadBalancerService(
            newService(ci, serviceName, selectorName,
                       mergeStringMaps(EmptyMap, ci.Spec.ServiceAnnotations)))
    ELSE configureMattermostService(newService(ci, serviceName, selectorName, EmptyMap))

(* Whatever the name of the ingress, it leads to the service that has the  *)
(* name of the installation.                                               *)
GenerateIngress(ci, name, ingressName, ingressAnnotations) ==
    [Kind |-> "Ingress", Name |-> name,
     Owner |-> ClusterInstallationOwnerReference(ci),
     Labels |-> ClusterInstallationLabels(ci, name), Annotations |-> ingressAnnotations,
     IngressClassName |-> {},
     Rules |-> <<[Host |-> ingressName, Backend |-> Backend(ci.Name)]>>,
     TLS |-> IF ~ci.Spec.UseIngressTLS THEN {}
             ELSE {[Hosts |-> <<ingressName>>,
                    SecretName |-> Dashed(ingressName) \o "-tls-cert"]}]

-----------------------------------------------------------------------------
(* The deployment. *)

DatabaseEnvVars(ci, dbInfo) ==
    IF dbInfo.External
    THEN (IF ~dbInfo.ReaderEndpoints THEN <<>>
          ELSE <<Var("MM_SQLSETTINGS_DATASOURCEREPLICAS",
                     EnvSourceFromSecret(ci.Spec.Database.Secret,
                                         "MM_SQLSETTINGS_DATASOURCEREPLICAS"))>>)
         \o <<Var("MM_CONFIG",
                  EnvSourceFromSecret(ci.Spec.Database.Secret, "DB_CONNECTION_STRING"))>>
    ELSE <<Var("MYSQL_USERNAME", EnvSourceFromSecret(dbInfo.SecretName, "USER")),
           Var("MYSQL_PASSWORD", EnvSourceFromSecret(dbInfo.SecretName, "PASSWORD")),
           Var("MM_SQLSETTINGS_DATASOURCEREPLICAS", MySQLDataSource("mysql")),
           Var("MM_CONFIG", MySQLDataSource("mysql-master"))>>

DatabaseInitContainers(dbInfo) ==
    CASE dbInfo.External /\ dbInfo.DatabaseCheckURL ->
            externalDBCheckInitContainer(dbInfo.SecretName, dbInfo.ExternalDBType)
      [] dbInfo.External /\ ~dbInfo.DatabaseCheckURL -> <<>>
      [] ~dbInfo.External ->
            <<InitContainer("init-check-operator-mysql", "appropriate/curl:latest", <<>>)>>

(* The secret with the keys of the file store, external or not. *)
MinioName(ci) == OrDefault(ci.Spec.Minio.Secret, DefaultMinioSecretName(ci.Name))

MinioEnvVars(ci, minioURL) ==
    <<Text("MM_FILESETTINGS_DRIVERNAME", "amazons3"),
      Var("MM_FILESETTINGS_AMAZONS3ACCESSKEYID", EnvSourceFromSecret(MinioName(ci), "accesskey")),
      Var("MM_FILESETTINGS_AMAZONS3SECRETACCESSKEY", EnvSourceFromSecret(MinioName(ci), "secretkey")),
      Text("MM_FILESETTINGS_AMAZONS3BUCKET", OrDefault(ci.Spec.Minio.ExternalBucket, ci.Name)),
      Text("MM_FILESETTINGS_AMAZONS3ENDPOINT", minioURL),
      Text("MM_FILESETTINGS_AMAZONS3SSL", "false")>>

DeploymentEnv(ci, dbInfo, ingressName, minioURL) ==
    mergeEnvVars(
        DatabaseEnvVars(ci, dbInfo)
        \o MinioEnvVars(ci, minioURL)
        \o elasticSearchEnvVars(ci.Spec.ElasticSearch)
        \o generalMattermostEnvVars(siteURLFromHost(ingressName))
        \o <<MaxFileSize(ci.Spec.UseServiceLoadBalancer, ci.Spec.IngressAnnotations)>>
        \o mattermostLicenceConfig(ci.Spec.MattermostLicenseSecret).Env,
        ci.Spec.MattermostEnv)

GenerateDeployment(ci, dbInfo, deploymentName, ingressName, serviceAccountName, containerImage, minioURL) ==
    LET licence == mattermostLicenceConfig(ci.Spec.MattermostLicenseSecret)
    IN [Kind |-> "Deployment", Name |-> deploymentName,
        Owner |-> ClusterInstallationOwnerReference(ci),
        Labels |-> ClusterInstallationLabels(ci, deploymentName),
        Strategy |-> "RollingUpdate", RevisionHistoryLimit |-> 5,
        Replicas |-> {IF ci.Spec.Replicas < 0 THEN 0 ELSE ci.Spec.Replicas},
        Selector |-> ClusterInstallationSelectorLabels(deploymentName),
        PodLabels |-> ClusterInstallationLabels(ci, deploymentName),
        PodAnnotations |-> licence.Annotations,
        ServiceAccountName |-> serviceAccountName,
        InitContainers |->
            DatabaseInitContainers(dbInfo)
            \o IF MinioIsExternal(ci.Spec.Minio) THEN <<>> ELSE MinioInitContainers(MinioName(ci)),
        App |-> [Name |-> MattermostAppContainerName, Image |-> containerImage,
                 Command |-> "mattermost",
                 Env |-> DeploymentEnv(ci, dbInfo, ingressName, minioURL),
                 Ports |-> AppPorts,
                 Probes |-> {setProbes(ci.Spec.LivenessProbe, ci.Spec.ReadinessProbe)},
                 VolumeMounts |-> licence.Mounts,
                 Resources |-> ci.Spec.Resources],
        Sidecars |-> <<>>,
        Volumes |-> licence.Volumes,
        Copied |-> <<ci.Spec.ImagePullPolicy, Unset, Unset, ci.Spec.Placement, Unset>>]

-----------------------------------------------------------------------------
(* MySQL cluster and MinIO instance. *)

DefaultDatabaseSecretName(installationName) == installationName \o "-mysql-root-password"

Cluster(ci) ==
    LET db == ci.Spec.Database
        restores == db.InitBucketURL # Unset /\ db.BackupRestoreSecretName # Unset
    IN [Kind |-> "MysqlCluster", Name |-> "db-" \o ci.Name,
        Owner |-> ClusterInstallationOwnerReference(ci),
        Labels |-> ClusterInstallationResourceLabels(ci.Name),
        MysqlVersion |-> db.Version, Replicas |-> {db.Replicas},
        SecretName |-> OrDefault(db.Secret, DefaultDatabaseSecretName(ci.Name)),
        Storage |-> db.StorageSize, Backup |-> <<db.Backup, db.BackupRestoreSecretName>>,
        InitBucket |-> IF restores THEN <<db.InitBucketURL, db.BackupRestoreSecretName>>
                       ELSE <<>>]

Instance(ci) ==
    newMinioInstance(ClusterInstallationOwnerReference(ci), MinioName(ci),
                     ClusterInstallationResourceLabels(ci.Name),
                     ci.Spec.Minio.Replicas, ci.Spec.Minio.StorageSize)

Secret(ci) ==
    GenerateSecret(ci, DefaultMinioSecretName(ci.Name), ClusterInstallationResourceLabels(ci.Name))

=============================================================================
