------------------------------- MODULE PodParts -------------------------------
(***************************************************************************)
(* The parts of a Mattermost pod and of its service that both kinds of     *)
(* installation are built from: environment variables, probes, the         *)
(* licence, the file size limit and the service ports.                     *)
(***************************************************************************)
EXTENDS ApiTypes, SequencesExt

Var(name, value) == [Name |-> name, Value |-> value]
Text(name, text) == Var(name, <<"text", text>>)

EnvSourceFromSecret(secretName, key) == <<"secret", secretName, key>>

(* A data source of the operator's MySQL: Kubernetes puts the values of    *)
(* the two variables it names in its place.                                *)
MySQLDataSource(host) == <<"dsn", host, "MYSQL_USERNAME", "MYSQL_PASSWORD">>

(* The variables that a value names, which Kubernetes resolves only when   *)
(* they are defined earlier in the list.                                   *)
References(value) ==
    IF value[1] = "dsn" THEN {"MYSQL_USERNAME", "MYSQL_PASSWORD"} ELSE {}

-----------------------------------------------------------------------------
generalMattermostEnvVars(siteURL) ==
    <<Text("MM_PLUGINSETTINGS_ENABLEUPLOADS", "true"),
      Text("MM_METRICSSETTINGS_ENABLE", "true"),
      Text("MM_METRICSSETTINGS_LISTENADDRESS", ":8067"),
      Text("MM_CLUSTERSETTINGS_ENABLE", "true"),
      Text("MM_CLUSTERSETTINGS_CLUSTERNAME", "production"),
      Text("MM_INSTALL_TYPE", "kubernetes-operator")>>
    \o IF siteURL = Unset THEN <<>>
       ELSE <<Text("MM_SERVICESETTINGS_SITEURL", siteURL)>>

siteURLFromHost(ingressHost) ==
    IF ingressHost = Unset THEN Unset ELSE "https://" \o ingressHost

localFileEnvVars(filePath) ==
    <<Text("MM_FILESETTINGS_DRIVERNAME", "local"),
      Text("MM_FILESETTINGS_DIRECTORY", filePath)>>

s3EnvVars(fileStore) ==
    <<Text("MM_FILESETTINGS_DRIVERNAME", "amazons3"),
      Text("MM_FILESETTINGS_AMAZONS3BUCKET", fileStore.bucketName),
      Text("MM_FILESETTINGS_AMAZONS3ENDPOINT", fileStore.url),
      Text("MM_FILESETTINGS_AMAZONS3SSL", IF fileStore.useS3SSL THEN "true" ELSE "false")>>
    \o IF fileStore.secretName = Unset THEN <<>>
       ELSE <<Var("MM_FILESETTINGS_AMAZONS3ACCESSKEYID",
                  EnvSourceFromSecret(fileStore.secretName, "accesskey")),
              Var("MM_FILESETTINGS_AMAZONS3SECRETACCESSKEY",
                  EnvSourceFromSecret(fileStore.secretName, "secretkey"))>>

(* Nothing when no host is configured. *)
elasticSearchEnvVars(es) ==
    IF es.Host = Unset THEN <<>>
    ELSE <<Text("MM_ELASTICSEARCHSETTINGS_ENABLEINDEXING", "true"),
           Text("MM_ELASTICSEARCHSETTINGS_ENABLESEARCHING", "true"),
           Text("MM_ELASTICSEARCHSETTINGS_CONNECTIONURL", es.Host),
           Text("MM_ELASTICSEARCHSETTINGS_USERNAME", es.UserName),
           Text("MM_ELASTICSEARCHSETTINGS_PASSWORD", es.Password)>>

(* Fault: the user's variables are appended and replace nothing. *)
mergeEnvVarsAppends(original, new) == original \o new

(* Each new variable takes the place of those with its name, or comes      *)
(* last; the new variables are taken in their order.                       *)
mergeEnvVars(original, new) ==
    LET Merge(vars, var) ==
            IF \E i \in DOMAIN vars : vars[i].Name = var.Name
            THEN [i \in DOMAIN vars |->
                    IF vars[i].Name = var.Name THEN var ELSE vars[i]]
            ELSE Append(vars, var)
    IN FoldLeft(Merge, original, new)

-----------------------------------------------------------------------------
(* The nginx limit on uploads, in MB; a value in any other unit is left to *)
(* the default.  A gigabyte is 1000 MB here (sizeGB).                      *)
BodySizeAnnotation == "nginx.ingress.kubernetes.io/proxy-body-size"
defaultMaxFileSize == 1000

determineMaxBodySize(ingressAnnotations, defaultSize) ==
    IF BodySizeAnnotation \notin DOMAIN ingressAnnotations THEN defaultSize
    ELSE LET size == ingressAnnotations[BodySizeAnnotation]
         IN CASE size.unit \in {"M", "m"} -> size.number
              [] size.unit \in {"G", "g"} -> 1000 * size.number
              [] OTHER -> defaultSize

(* The variable for it: a load balancer service has no such limit. *)
MaxFileSize(useServiceLoadBalancer, ingressAnnotations) ==
    Var("MM_FILESETTINGS_MAXFILESIZE",
        <<"MB", IF useServiceLoadBalancer THEN defaultMaxFileSize
                ELSE determineMaxBodySize(ingressAnnotations, defaultMaxFileSize)>>)

-----------------------------------------------------------------------------
(* A probe of the user with the operator's values in its empty fields. *)
OverProbe(default, custom) ==
    [f \in DOMAIN default |->
        IF f = "Handler" THEN OrDefault(custom[f], default[f])
        ELSE IF custom[f] = 0 THEN default[f] ELSE custom[f]]

PingProbe(period, failures) ==
    [Handler |-> "ping", InitialDelaySeconds |-> 10, PeriodSeconds |-> period,
     TimeoutSeconds |-> 0, FailureThreshold |-> failures, SuccessThreshold |-> 0]

setProbes(customLiveness, customReadiness) ==
    [Liveness |-> OverProbe(PingProbe(10, 3), customLiveness),
     Readiness |-> OverProbe(PingProbe(5, 6), customReadiness)]

-----------------------------------------------------------------------------
(* What a licence adds to the pod: nothing when there is no secret. *)
mattermostLicenceConfig(secret) ==
    IF secret = Unset
    THEN [Env |-> <<>>, Mounts |-> <<>>, Volumes |-> <<>>, Annotations |-> EmptyMap]
    ELSE [Env |-> <<Text("MM_SERVICESETTINGS_LICENSEFILELOCATION",
                         "/mattermost-license/license")>>,
          Mounts |-> <<[Name |-> "mattermost-license", MountPath |-> "/mattermost-license"]>>,
          Volumes |-> <<[Name |-> "mattermost-license", Source |-> "Secret", Of |-> secret]>>,
          Annotations |-> [k \in {"prometheus.io/scrape", "prometheus.io/path",
                                  "prometheus.io/port"} |->
                            CASE k = "prometheus.io/scrape" -> "true"
                              [] k = "prometheus.io/path"   -> "/metrics"
                              [] k = "prometheus.io/port"   -> "8067"]]

InitContainer(name, image, env) == [Name |-> name, Image |-> <<image>>, Env |-> env]

(* The probe of the database by a third-party image; none for a type the   *)
(* operator does not know.                                                 *)
externalDBCheckInitContainer(secretName, dbType) ==
    LET env == <<Var("DB_CONNECTION_CHECK_URL",
                     EnvSourceFromSecret(secretName, "DB_CONNECTION_CHECK_URL"))>>
    IN CASE dbType = "mysql" ->
                <<InitContainer("init-check-database", "appropriate/curl:latest", env)>>
         [] dbType = "postgres" ->
                <<InitContainer("init-check-database", "postgres:13", env)>>
         [] OTHER -> <<>>

(* The containers that make the bucket and wait for MinIO. *)
MinioInitContainers(secretName) ==
    <<InitContainer("create-minio-bucket", "minio/mc:RELEASE.2025-04-16T18-13-26Z",
        <<Var("MINIO_ACCESS_KEY", EnvSourceFromSecret(secretName, "accesskey")),
          Var("MINIO_SECRET_KEY", EnvSourceFromSecret(secretName, "secretkey"))>>),
      InitContainer("init-check-minio", "appropriate/curl:latest", <<>>)>>

-----------------------------------------------------------------------------
(* A MinIO instance takes its credentials from the secret of its own name. *)
newMinioInstance(owner, name, labels, replicas, storageSize) ==
    [Kind |-> "MinIOInstance", Name |-> name, Owner |-> owner, Labels |-> labels,
     Replicas |-> replicas, CredsSecret |-> name, Storage |-> storageSize]

DefaultMinioSecretName(installationName) == installationName \o "-minio"

-----------------------------------------------------------------------------
(* Services, by their ports: a load balancer is reached from outside, the  *)
(* others through an ingress.                                              *)
configureMattermostLoadBalancerService(service) ==
    [service EXCEPT !.Type = "LoadBalancer", !.Ports = {80, 443}]

configureMattermostService(service) ==
    [service EXCEPT !.Type = "ClusterIP", !.Ports = {8065, 8067}]

configureMattermostServiceNodePort(service) ==
    [service EXCEPT !.Type = "NodePort", !.Ports = {8065, 8067}]

(* The ports of the Mattermost container. *)
AppPorts == <<"app", "metrics">>

(* What the rule of an ingress sends each of its hosts to. *)
Backend(serviceName) == [Name |-> serviceName, Port |-> 8065]

-----------------------------------------------------------------------------
(* The database settings that the secret of a ClusterInstallation gives. *)

(* A connection string is its scheme; Unset is an empty one. *)
GetTypeFromConnectionString(connectionString) ==
    IF connectionString \in {"mysql", "postgres"} THEN connectionString ELSE "unknown"

Holds(secret, key) == key \in DOMAIN secret.Data
NotEmpty(secret, key) == Holds(secret, key) /\ secret.Data[key] # Unset

GenerateDatabaseInfoFromSecret(secret) ==
    IF Holds(secret, "DB_CONNECTION_STRING")
    THEN [SecretName |-> secret.Name, External |-> TRUE,
          ExternalDBType |-> GetTypeFromConnectionString(secret.Data["DB_CONNECTION_STRING"]),
          ReaderEndpoints |-> Holds(secret, "MM_SQLSETTINGS_DATASOURCEREPLICAS"),
          DatabaseCheckURL |-> Holds(secret, "DB_CONNECTION_CHECK_URL"),
          Complete |-> TRUE]
    ELSE [SecretName |-> secret.Name, External |-> FALSE, ExternalDBType |-> Unset,
          ReaderEndpoints |-> TRUE, DatabaseCheckURL |-> TRUE,
          Complete |-> \A key \in {"ROOT_PASSWORD", "USER", "PASSWORD", "DATABASE"} :
                            NotEmpty(secret, key)]

DatabaseInfoIsValid(info) == info.SecretName # Unset /\ (info.External \/ info.Complete)

=============================================================================
