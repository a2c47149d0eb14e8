------------------------------ MODULE Conversion ------------------------------
(***************************************************************************)
(* A ClusterInstallation as a Mattermost: what tryToMigrate creates.       *)
(***************************************************************************)
EXTENDS Generators

CI == INSTANCE GeneratorsV1Alpha

IsConvertible(ci) == ~ci.Spec.BlueGreen.Enable /\ ~ci.Spec.Canary.Enable

(* Fault: the number is taken as it is. *)
convertReplicasAsIs(old) == {old}

(* Negative replicas are none; 0 is left to the defaults. *)
convertReplicas(old) ==
    CASE old < 0 -> {0}
      [] old = 0 -> {}
      [] old > 0 -> {old}

convertToOperatorManagedMinio(ci) ==
    [External |-> {}, ExternalVolume |-> {}, Local |-> {},
     OperatorManaged |->
        {[StorageSize |-> ci.Spec.Minio.StorageSize,
          Replicas |-> convertReplicas(ci.Spec.Minio.Replicas),
          Resources |-> ci.Spec.Minio.Resources]}]

(* Fault: the bucket is named as if the operator ran MinIO. *)
convertFileStoreOwnBucket(ci) ==
    IF ~CI!MinioIsExternal(ci.Spec.Minio) THEN convertToOperatorManagedMinio(ci)
    ELSE [External |->
            {[URL |-> ci.Spec.Minio.ExternalURL, Bucket |-> ci.Name,
              Secret |-> ci.Spec.Minio.Secret, UseServiceAccount |-> FALSE]},
          ExternalVolume |-> {}, Local |-> {}, OperatorManaged |-> {}]

(* The secret of an operator-managed MinIO is not kept. *)
convertFileStore(ci) ==
    IF ~CI!MinioIsExternal(ci.Spec.Minio) THEN convertToOperatorManagedMinio(ci)
    ELSE [External |->
            {[URL |-> ci.Spec.Minio.ExternalURL, Bucket |-> ci.Spec.Minio.ExternalBucket,
              Secret |-> ci.Spec.Minio.Secret, UseServiceAccount |-> FALSE]},
          ExternalVolume |-> {}, Local |-> {}, OperatorManaged |-> {}]

NoDatabase ==
    [External |-> {}, OperatorManaged |-> {}, DisableReadinessCheck |-> FALSE,
     ReadinessCheck |-> {}]

(* Fault: the replicas are left to the defaults. *)
convertToDefaultSizedDB(ci) ==
    LET db == ci.Spec.Database
    IN [NoDatabase EXCEPT !.OperatorManaged =
            {[Type |-> db.Type, StorageSize |-> db.StorageSize, Replicas |-> {},
              Resources |-> db.Resources, InitBucketURL |-> db.InitBucketURL,
              Backup |-> db.Backup, BackupRestoreSecretName |-> db.BackupRestoreSecretName,
              Version |-> db.Version]}]

convertToOperatorManagedDB(ci) ==
    LET db == ci.Spec.Database
    IN [NoDatabase EXCEPT !.OperatorManaged =
            {[Type |-> db.Type, StorageSize |-> db.StorageSize,
              Replicas |-> convertReplicas(db.Replicas), Resources |-> db.Resources,
              InitBucketURL |-> db.InitBucketURL, Backup |-> db.Backup,
              BackupRestoreSecretName |-> db.BackupRestoreSecretName,
              Version |-> db.Version]}]

(* secret is what the name in the spec leads to: {} when it leads nowhere. *)
(* The databases are a set of at most one: {} is an error.                 *)
convertDatabase(ci, secret) ==
    LET info == GenerateDatabaseInfoFromSecret(Deref(secret, Unset))
    IN CASE ci.Spec.Database.Secret = Unset -> {convertToOperatorManagedDB(ci)}
         [] ci.Spec.Database.Secret # Unset /\ (secret = {} \/ ~DatabaseInfoIsValid(info)) -> {}
         [] OTHER ->
                {IF ~info.External THEN convertToOperatorManagedDB(ci)
                 ELSE [NoDatabase EXCEPT !.External = {[Secret |-> ci.Spec.Database.Secret]}]}

convertElasticSearch(es) ==
    [Host |-> es.Host, UserName |-> es.UserName, Password |-> es.Password]

(* Fault: where the pods may run is forgotten. *)
convertSchedulingAnywhere(spec) ==
    [Resources |-> spec.Resources, Placement |-> Unset]

convertScheduling(spec) ==
    [Resources |-> spec.Resources, Placement |-> spec.Placement]

convertProbes(spec) ==
    [LivenessProbe |-> spec.LivenessProbe, ReadinessProbe |-> spec.ReadinessProbe]

(* Fields that a ClusterInstallation does not have are empty. *)
ConvertToMM(ci, secret) ==
    {[Name |-> ci.Name,
      Spec |->
        [Size |-> ci.Spec.Size, Image |-> ci.Spec.Image, Version |-> ci.Spec.Version,
         Replicas |-> convertReplicas(ci.Spec.Replicas),
         MattermostEnv |-> ci.Spec.MattermostEnv,
         LicenseSecret |-> ci.Spec.MattermostLicenseSecret,
         IngressName |-> ci.Spec.IngressName,
         IngressAnnotations |-> ci.Spec.IngressAnnotations,
         UseIngressTLS |-> ci.Spec.UseIngressTLS,
         UseServiceLoadBalancer |-> ci.Spec.UseServiceLoadBalancer,
         ServiceAnnotations |-> ci.Spec.ServiceAnnotations,
         ResourceLabels |-> ci.Spec.ResourceLabels,
         ImagePullPolicy |-> ci.Spec.ImagePullPolicy,
         FileStore |-> convertFileStore(ci),
         ElasticSearch |-> convertElasticSearch(ci.Spec.ElasticSearch),
         Scheduling |-> convertScheduling(ci.Spec),
         Probes |-> convertProbes(ci.Spec),
         Database |-> database,
         Ingress |-> {}, AWSLoadBalancerController |-> {}, Volumes |-> <<>>,
         VolumeMounts |-> <<>>, ImagePullSecrets |-> Unset, DNS |-> Unset,
         PodTemplate |-> {}, DeploymentTemplate |-> {}, UpdateJob |-> {},
         JobServer |-> {}, ResourcePatch |-> {},
         PodExtensions |-> [InitContainers |-> <<>>, SidecarContainers |-> <<>>,
                            ContainerPorts |-> <<>>]]] :
        database \in convertDatabase(ci, secret)}

=============================================================================
