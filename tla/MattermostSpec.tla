---------------------------- MODULE MattermostSpec ----------------------------
(***************************************************************************)
(* The Mattermost custom resource (v1beta1): the shape of its spec, the    *)
(* defaults and sizes a pass fills in before anything else, and what the   *)
(* rest of the operator reads from it.  An object mm is [Name, Spec].      *)
(*                                                                         *)
(* Fields that are only copied into the pods (DNS, affinity, tolerations,  *)
(* security contexts) are one opaque value for each group.                 *)
(***************************************************************************)
EXTENDS Sizes, SequencesExt, Functions

-----------------------------------------------------------------------------
(* The types of the spec. *)

Patch == [Disable : BOOLEAN, Patch : Seq(STRING)]

ResourcePatch == [Service : Optional(Patch), Deployment : Optional(Patch)]

Ingress ==
    [Enabled : BOOLEAN, Host : STRING, Hosts : Seq(STRING),
     Annotations : Annotations, TLSSecret : STRING,
     IngressClass : Optional(STRING)]

AWSLoadBalancerController ==
    [Enabled : BOOLEAN, CertificateARN : STRING, InternetFacing : BOOLEAN,
     Hosts : Seq(STRING), IngressClassName : STRING, Annotations : Annotations]

Scheduling == [Resources : ResourceRequirements, Placement : STRING]

Probes == [LivenessProbe : Probe, ReadinessProbe : Probe]

PodTemplate ==
    [Command : Optional(STRING), SecurityContexts : STRING,
     ExtraAnnotations : Optional(StringMap(AnnotationKeys, STRING)),
     ExtraLabels : Labels]

DeploymentTemplate ==
    [DeploymentStrategyType : STRING, RevisionHistoryLimit : Optional(Nat)]

UpdateJob == [Disabled : BOOLEAN, ExtraLabels : Labels]

JobServer == [DedicatedJobServer : BOOLEAN]

PodExtensions ==
    [InitContainers : Seq(Container), SidecarContainers : Seq(Container),
     ContainerPorts : Seq(STRING)]

DatabaseReadinessCheck == [Mode : STRING, Timeout : Optional(Nat)]

ExternalDatabase == [Secret : STRING]

OperatorManagedDatabase ==
    [Type : STRING, StorageSize : STRING, Replicas : Optional(Nat),
     Resources : ResourceRequirements, InitBucketURL : STRING,
     Backup : STRING, BackupRestoreSecretName : STRING, Version : STRING]

Database ==
    [External : Optional(ExternalDatabase),
     OperatorManaged : Optional(OperatorManagedDatabase),
     DisableReadinessCheck : BOOLEAN,
     ReadinessCheck : Optional(DatabaseReadinessCheck)]

ExternalFileStore ==
    [URL : STRING, Bucket : STRING, Secret : STRING, UseServiceAccount : BOOLEAN]

ExternalVolumeFileStore == [VolumeClaimName : STRING]

OperatorManagedMinio ==
    [StorageSize : STRING, Replicas : Optional(Nat),
     Resources : ResourceRequirements]

LocalFileStore ==
    [Enabled : BOOLEAN, StorageSize : STRING, AccessModes : Seq(STRING)]

FileStore ==
    [External : Optional(ExternalFileStore),
     ExternalVolume : Optional(ExternalVolumeFileStore),
     OperatorManaged : Optional(OperatorManagedMinio),
     Local : Optional(LocalFileStore)]

ElasticSearch == [Host : STRING, UserName : STRING, Password : STRING]

MattermostSpecType ==
    [Size : STRING, Image : STRING, Version : STRING, Replicas : Optional(Nat),
     MattermostEnv : Seq(EnvVar), LicenseSecret : STRING,
     IngressName : STRING, IngressAnnotations : Annotations,
     UseIngressTLS : BOOLEAN, UseServiceLoadBalancer : BOOLEAN,
     ServiceAnnotations : StringMap(AnnotationKeys, STRING),
     ResourceLabels : Optional(Labels), Ingress : Optional(Ingress),
     AWSLoadBalancerController : Optional(AWSLoadBalancerController),
     Volumes : Seq(Volume), VolumeMounts : Seq(VolumeMount),
     ImagePullPolicy : STRING, ImagePullSecrets : STRING, DNS : STRING,
     Database : Database, FileStore : FileStore, ElasticSearch : ElasticSearch,
     Scheduling : Scheduling, Probes : Probes,
     PodTemplate : Optional(PodTemplate),
     DeploymentTemplate : Optional(DeploymentTemplate),
     UpdateJob : Optional(UpdateJob), JobServer : Optional(JobServer),
     PodExtensions : PodExtensions, ResourcePatch : Optional(ResourcePatch)]

Mattermost == [Name : STRING, Spec : MattermostSpecType]

-----------------------------------------------------------------------------
(* Database and file store: which kind is configured, and the defaults. *)

DefaultMattermostImage == "mattermost/mattermost-enterprise-edition"
DefaultMattermostVersion == "10.8.1"
DefaultPullPolicy == "IfNotPresent"
DefaultStorageSize == "50Gi"

OrSize(pointer, size) == IF pointer = {} THEN {size} ELSE pointer

DatabaseIsExternal(db) == \E e \in db.External : e.Secret # Unset

EmptyDatabase ==
    [Type |-> Unset, StorageSize |-> Unset, Replicas |-> {},
     Resources |-> NoResources, InitBucketURL |-> Unset, Backup |-> Unset,
     BackupRestoreSecretName |-> Unset, Version |-> Unset]

(* ensureDefault: the operator-managed database, created when it is nil. *)
ManagedDatabase(db) == Deref(db.OperatorManaged, EmptyDatabase)

DatabaseSetDefaults(db) ==
    IF DatabaseIsExternal(db) THEN db
    ELSE LET omd == ManagedDatabase(db)
         IN [db EXCEPT !.OperatorManaged =
                {[omd EXCEPT !.Type = OrDefault(@, "mysql"),
                             !.StorageSize = OrDefault(@, DefaultStorageSize),
                             !.Version = OrDefault(@, "8.0")]}]

DatabaseSetDefaultReplicasAndResources(db) ==
    IF DatabaseIsExternal(db) THEN db
    ELSE LET omd == ManagedDatabase(db)
             size == DefaultSize.Database
         IN [db EXCEPT !.OperatorManaged =
                {[omd EXCEPT !.Replicas = OrSize(@, size.Replicas),
                             !.Resources = OrResources(@, size.Resources)]}]

DatabaseOverrideReplicasAndResources(db, size) ==
    IF DatabaseIsExternal(db) THEN db
    ELSE [db EXCEPT !.OperatorManaged =
            {[ManagedDatabase(db) EXCEPT !.Replicas = {size.Database.Replicas},
                                         !.Resources = size.Database.Resources]}]

FileStoreIsExternal(fs) == \E e \in fs.External : e.URL # Unset

IsExternalVolume(fs) == \E v \in fs.ExternalVolume : v.VolumeClaimName # Unset

IsLocal(fs) == \E l \in fs.Local : l.Enabled

isAnyExceptOperatorManaged(fs) ==
    FileStoreIsExternal(fs) \/ IsExternalVolume(fs) \/ IsLocal(fs)

EmptyMinio == [StorageSize |-> Unset, Replicas |-> {}, Resources |-> NoResources]

(* ensureDefault: the operator-managed MinIO, created when it is nil. *)
ManagedMinio(fs) == Deref(fs.OperatorManaged, EmptyMinio)

FileStoreSetDefaults(fs) ==
    IF isAnyExceptOperatorManaged(fs) THEN fs
    ELSE [fs EXCEPT !.OperatorManaged =
            {[ManagedMinio(fs) EXCEPT !.StorageSize =
                OrDefault(@, DefaultStorageSize)]}]

FileStoreSetDefaultReplicasAndResources(fs) ==
    IF isAnyExceptOperatorManaged(fs) THEN fs
    ELSE LET size == DefaultSize.Minio
         IN [fs EXCEPT !.OperatorManaged =
                {[ManagedMinio(fs) EXCEPT
                    !.Replicas = OrSize(@, size.Replicas),
                    !.Resources = OrResources(@, size.Resources)]}]

FileStoreOverrideReplicasAndResources(fs, size) ==
    IF isAnyExceptOperatorManaged(fs) THEN fs
    ELSE [fs EXCEPT !.OperatorManaged =
            {[ManagedMinio(fs) EXCEPT !.Replicas = {size.Minio.Replicas},
                                      !.Resources = size.Minio.Resources]}]

-----------------------------------------------------------------------------
(* Ingress. *)

IngressEnabled(mm) ==
    mm.Spec.Ingress = {} \/ \E i \in mm.Spec.Ingress : i.Enabled

AWSLoadBalancerEnabled(mm) ==
    \E alb \in mm.Spec.AWSLoadBalancerController : alb.Enabled

GetIngressHost(mm) ==
    IF mm.Spec.Ingress = {} THEN mm.Spec.IngressName
    ELSE Deref(mm.Spec.Ingress, Unset).Host

(* The hosts in the order of the spec, each once. *)
GetIngressHostNames(mm) ==
    LET Keep(hosts, host) ==
            IF Contains(hosts, host) THEN hosts ELSE Append(hosts, host)
        host == GetIngressHost(mm)
    IN CASE host = Unset -> <<>>
         [] host # Unset /\ mm.Spec.Ingress = {} -> <<host>>
         [] OTHER -> FoldLeft(Keep, <<host>>, Deref(mm.Spec.Ingress, Unset).Hosts)

GetAWSLoadBalancerHostNames(mm) ==
    IF mm.Spec.AWSLoadBalancerController = {} THEN <<>>
    ELSE Deref(mm.Spec.AWSLoadBalancerController, Unset).Hosts

GetIngresAnnotations(mm) ==
    IF mm.Spec.Ingress = {} THEN mm.Spec.IngressAnnotations
    ELSE Deref(mm.Spec.Ingress, Unset).Annotations

(* Fault: the old field for TLS is not looked at. *)
GetIngressTLSSecretOfIngress(mm) ==
    IF mm.Spec.Ingress = {} THEN Unset ELSE Deref(mm.Spec.Ingress, Unset).TLSSecret

(* The old field asks for a secret that is named after the host. *)
GetIngressTLSSecret(mm) ==
    CASE mm.Spec.Ingress # {}   -> Deref(mm.Spec.Ingress, Unset).TLSSecret
      [] mm.Spec.Ingress = {} /\ mm.Spec.UseIngressTLS ->
            Dashed(GetIngressHost(mm)) \o "-tls-cert"
      [] mm.Spec.Ingress = {} /\ ~mm.Spec.UseIngressTLS -> Unset

GetIngressClass(mm) ==
    UNION {i.IngressClass : i \in mm.Spec.Ingress}

-----------------------------------------------------------------------------
(* Defaults and sizes of the whole spec. *)

AllowedVolumes ==
    {"ConfigMap", "Secret", "EmptyDir", "PersistentVolumeClaim", "Projected",
     "DownwardAPI", "CSI"}

validateVolumes(volumes) ==
    \A vol \in Range(volumes) : vol.Source \in AllowedVolumes

(* SetDefaults returns an error, and the pass ends: nothing is stored. *)
SetDefaultsFails(mm) ==
    \/ AWSLoadBalancerEnabled(mm) /\ GetAWSLoadBalancerHostNames(mm) = <<>>
    \/ ~AWSLoadBalancerEnabled(mm) /\ IngressEnabled(mm)
       /\ GetIngressHost(mm) = Unset
    \/ ~validateVolumes(mm.Spec.Volumes)

SetDefaults(mm) ==
    [mm EXCEPT !.Spec =
        [mm.Spec EXCEPT !.Image = OrDefault(@, DefaultMattermostImage),
                        !.Version = OrDefault(@, DefaultMattermostVersion),
                        !.ImagePullPolicy = OrDefault(@, DefaultPullPolicy),
                        !.FileStore = FileStoreSetDefaults(@),
                        !.Database = DatabaseSetDefaults(@)]]

setDefaultReplicasAndResources(mm) ==
    [mm EXCEPT !.Spec =
        [mm.Spec EXCEPT !.Size = Unset,
                        !.Replicas = OrSize(@, DefaultSize.App.Replicas),
                        !.Scheduling = [mm.Spec.Scheduling EXCEPT !.Resources =
                                            OrResources(@, DefaultSize.App.Resources)],
                        !.FileStore = FileStoreSetDefaultReplicasAndResources(@),
                        !.Database = DatabaseSetDefaultReplicasAndResources(@)]]

(* Fault: the size stays in the spec, and is applied by every pass. *)
overrideKeepsSize(mm, size) ==
    [mm EXCEPT !.Spec =
        [mm.Spec EXCEPT !.Replicas = {size.App.Replicas},
                        !.Scheduling = [mm.Spec.Scheduling EXCEPT !.Resources = size.App.Resources],
                        !.FileStore = FileStoreOverrideReplicasAndResources(@, size),
                        !.Database = DatabaseOverrideReplicasAndResources(@, size)]]

overrideReplicasAndResourcesFromSize(mm, size) ==
    [mm EXCEPT !.Spec =
        [mm.Spec EXCEPT !.Size = Unset,
                        !.Replicas = {size.App.Replicas},
                        !.Scheduling = [mm.Spec.Scheduling EXCEPT !.Resources = size.App.Resources],
                        !.FileStore = FileStoreOverrideReplicasAndResources(@, size),
                        !.Database = DatabaseOverrideReplicasAndResources(@, size)]]

(* An unknown size is reported and erased, and the defaults are used. *)
SetReplicasAndResourcesFromSize(mm) ==
    LET found == GetClusterSize(mm.Spec.Size)
    IN IF mm.Spec.Size = Unset \/ found = {}
       THEN setDefaultReplicasAndResources(mm)
       ELSE overrideReplicasAndResourcesFromSize(mm, Deref(found, DefaultSize))

-----------------------------------------------------------------------------
(* Names and labels. *)

ClusterLabel == "installation.mattermost.com/installation"
ClusterResourceLabel == "installation.mattermost.com/resource"
MattermostAppContainerName == "mattermost"
MattermostJobServerContainerName == "mattermost-jobserver"

GetImageName(mm) ==
    IF mm.Spec.Version \in DigestVersions
    THEN ImageAtDigest(mm.Spec.Image, mm.Spec.Version)
    ELSE ImageAndTag(mm.Spec.Image, mm.Spec.Version)

DedicatedJobServerName(mm) == mm.Name \o "-jobserver"

MattermostResourceLabels(name) == [k \in {ClusterResourceLabel} |-> name]

(* The labels that the operator writes last, over anything the user gave. *)
OwnLabels(name, app) ==
    [k \in {ClusterResourceLabel, ClusterLabel, "app"} |->
        IF k = "app" THEN app ELSE name]

MattermostSelectorLabels(name) == OwnLabels(name, MattermostAppContainerName)

UserLabels(mm) == Deref(mm.Spec.ResourceLabels, EmptyMap)

ExtraLabels(mm) ==
    IF mm.Spec.PodTemplate = {} THEN EmptyMap
    ELSE Deref(mm.Spec.PodTemplate, Unset).ExtraLabels

(* Fault: the labels of the user go over those of the operator. *)
MattermostLabelsUserLast(mm, name) ==
    mergeStringMaps(OwnLabels(name, MattermostAppContainerName), UserLabels(mm))

MattermostLabels(mm, name) ==
    mergeStringMaps(UserLabels(mm), OwnLabels(name, MattermostAppContainerName))

MattermostPodLabels(mm, name) ==
    mergeStringMaps(mergeStringMaps(UserLabels(mm), ExtraLabels(mm)),
              OwnLabels(name, MattermostAppContainerName))

MattermostJobServerPodLabels(mm, name) ==
    mergeStringMaps(mergeStringMaps(UserLabels(mm), ExtraLabels(mm)),
              OwnLabels(name, MattermostJobServerContainerName))

=============================================================================
