----------------------- MODULE ClusterInstallationSpec -----------------------
(***************************************************************************)
(* The ClusterInstallation custom resource (v1alpha1): the shape of its    *)
(* spec, the defaults and sizes a pass fills in, and its names and labels. *)
(* An object ci is [Name, Spec].                                           *)
(***************************************************************************)
EXTENDS Sizes

AppDeployment ==
    [Name : STRING, IngressName : STRING, Image : STRING, Version : STRING,
     ResourceLabels : Labels]

Canary == [Enable : BOOLEAN, Deployment : AppDeployment]

BlueGreen ==
    [ProductionDeployment : STRING, Enable : BOOLEAN,
     Blue : AppDeployment, Green : AppDeployment]

Minio ==
    [StorageSize : STRING, Replicas : Int, Resources : ResourceRequirements,
     ExternalURL : STRING, ExternalBucket : STRING, Secret : STRING]

Database ==
    [Type : STRING, Secret : STRING, StorageSize : STRING, Replicas : Int,
     Resources : ResourceRequirements, InitBucketURL : STRING,
     Backup : STRING, BackupRestoreSecretName : STRING, Version : STRING]

ElasticSearch == [Host : STRING, UserName : STRING, Password : STRING]

ClusterInstallationSpecType ==
    [Image : STRING, Version : STRING, Size : STRING, Replicas : Int,
     Resources : ResourceRequirements, IngressName : STRING,
     MattermostLicenseSecret : STRING, Placement : STRING, Minio : Minio,
     Database : Database, BlueGreen : BlueGreen, Canary : Canary,
     ElasticSearch : ElasticSearch, UseServiceLoadBalancer : BOOLEAN,
     ServiceAnnotations : StringMap(AnnotationKeys, STRING),
     UseIngressTLS : BOOLEAN, ResourceLabels : Optional(Labels),
     IngressAnnotations : Annotations, MattermostEnv : Seq(EnvVar),
     LivenessProbe : Probe, ReadinessProbe : Probe, ImagePullPolicy : STRING]

ClusterInstallation == [Name : STRING, Spec : ClusterInstallationSpecType]

-----------------------------------------------------------------------------
DefaultMattermostImage == "mattermost/mattermost-enterprise-edition"
DefaultMattermostVersion == "10.8.1"
DefaultPullPolicy == "IfNotPresent"
DefaultMattermostDatabaseType == "mysql"
DefaultMinioStorageSize == "50Gi"
DefaultStorageSize == "50Gi"
DefaultMysqlDatabaseVersion == "8.0"
ClusterLabel == "v1alpha1.mattermost.com/installation"
ClusterResourceLabel == "v1alpha1.mattermost.com/resource"
BlueName == "blue"
GreenName == "green"
MattermostAppContainerName == "mattermost"

(* strings.ToLower on the spellings of the production deployment. *)
ToLower(name) ==
    CASE name \in {"blue", "Blue", "BLUE"}    -> BlueName
      [] name \in {"green", "Green", "GREEN"} -> GreenName
      [] OTHER -> name

CanarySetDefaultsFails(canary) ==
    canary.Enable /\ Unset \in {canary.Deployment.Version, canary.Deployment.Image}

CanarySetDefaults(canary, ci) ==
    IF canary.Enable
    THEN [canary EXCEPT !.Deployment =
            [canary.Deployment EXCEPT !.Name = OrDefault(@, ci.Name \o "-canary")]]
    ELSE canary

BlueGreenSetDefaultsFails(bg) ==
    /\ bg.Enable
    /\ \/ ToLower(bg.ProductionDeployment) \notin {BlueName, GreenName}
       \/ Unset \in {bg.Green.Version, bg.Blue.Version, bg.Blue.Image, bg.Green.Image}

BlueGreenSetDefaults(bg, ci) ==
    IF bg.Enable
    THEN [bg EXCEPT
            !.ProductionDeployment = ToLower(@),
            !.Green = [bg.Green EXCEPT
                !.Name = OrDefault(@, ci.Name \o "-green"),
                !.IngressName = OrDefault(@, "green." \o ci.Spec.IngressName)],
            !.Blue = [bg.Blue EXCEPT
                !.Name = OrDefault(@, ci.Name \o "-blue"),
                !.IngressName = OrDefault(@, "blue." \o ci.Spec.IngressName)]]
    ELSE bg

MinioSetDefaults(mi) ==
    [mi EXCEPT !.StorageSize = OrDefault(@, DefaultMinioStorageSize)]

MinioIsExternal(mi) == mi.ExternalURL # Unset

(* Fault: the version is looked at before the type has its default. *)
DatabaseSetDefaultsVersionFirst(db) ==
    [db EXCEPT !.Type = OrDefault(@, DefaultMattermostDatabaseType),
               !.StorageSize = OrDefault(@, DefaultStorageSize),
               !.Version = IF db.Type = DefaultMattermostDatabaseType
                           THEN OrDefault(@, DefaultMysqlDatabaseVersion)
                           ELSE @]

DatabaseSetDefaults(db) ==
    LET type == OrDefault(db.Type, DefaultMattermostDatabaseType)
    IN [db EXCEPT !.Type = type,
                  !.StorageSize = OrDefault(@, DefaultStorageSize),
                  !.Version = IF type = DefaultMattermostDatabaseType
                              THEN OrDefault(@, DefaultMysqlDatabaseVersion)
                              ELSE @]

(* SetDefaults returns an error, and the pass ends: nothing is stored. *)
SetDefaultsFails(ci) ==
    \/ ci.Spec.IngressName = Unset
    \/ BlueGreenSetDefaultsFails(ci.Spec.BlueGreen)
    \/ CanarySetDefaultsFails(ci.Spec.Canary)

SetDefaults(ci) ==
    [ci EXCEPT !.Spec =
        [ci.Spec EXCEPT !.Image = OrDefault(@, DefaultMattermostImage),
                        !.Version = OrDefault(@, DefaultMattermostVersion),
                        !.ImagePullPolicy = OrDefault(@, DefaultPullPolicy),
                        !.Minio = MinioSetDefaults(@),
                        !.Database = DatabaseSetDefaults(@),
                        !.BlueGreen = BlueGreenSetDefaults(@, ci),
                        !.Canary = CanarySetDefaults(@, ci)]]

-----------------------------------------------------------------------------
(* 0 replicas stand for a number that is not set. *)
OrReplicas(replicas, size) == IF replicas = 0 THEN size ELSE replicas

(* A database that starts from a backup keeps its 0 replicas: the restore  *)
(* controller starts it.                                                   *)
setDefaultReplicasAndResources(ci) ==
    [ci EXCEPT !.Spec =
        [ci.Spec EXCEPT
            !.Size = Unset,
            !.Replicas = OrReplicas(@, DefaultSize.App.Replicas),
            !.Resources = OrResources(@, DefaultSize.App.Resources),
            !.Minio = [ci.Spec.Minio EXCEPT
                !.Replicas = OrReplicas(@, DefaultSize.Minio.Replicas),
                !.Resources = OrResources(@, DefaultSize.Minio.Resources)],
            !.Database = [ci.Spec.Database EXCEPT
                !.Replicas = IF ci.Spec.Database.InitBucketURL = Unset
                             THEN OrReplicas(@, DefaultSize.Database.Replicas)
                             ELSE @,
                !.Resources = OrResources(@, DefaultSize.Database.Resources)]]]

overrideReplicasAndResourcesFromSize(ci, size) ==
    [ci EXCEPT !.Spec =
        [ci.Spec EXCEPT
            !.Size = Unset,
            !.Replicas = size.App.Replicas,
            !.Resources = size.App.Resources,
            !.Minio = [ci.Spec.Minio EXCEPT !.Replicas = size.Minio.Replicas,
                                            !.Resources = size.Minio.Resources],
            !.Database = [ci.Spec.Database EXCEPT !.Replicas = size.Database.Replicas,
                                                  !.Resources = size.Database.Resources]]]

(* An unknown size is reported and erased, and the defaults are used. *)
SetReplicasAndResourcesFromSize(ci) ==
    LET found == GetClusterSize(ci.Spec.Size)
    IN IF ci.Spec.Size = Unset \/ found = {}
       THEN setDefaultReplicasAndResources(ci)
       ELSE overrideReplicasAndResourcesFromSize(ci, Deref(found, DefaultSize))

-----------------------------------------------------------------------------
GetImageName(ci) ==
    IF ci.Spec.Version \in DigestVersions
    THEN ImageAtDigest(ci.Spec.Image, ci.Spec.Version)
    ELSE ImageAndTag(ci.Spec.Image, ci.Spec.Version)

GetProductionDeploymentName(ci) ==
    LET bg == ci.Spec.BlueGreen
    IN CASE bg.Enable /\ bg.ProductionDeployment = BlueName  -> bg.Blue.Name
         [] bg.Enable /\ bg.ProductionDeployment = GreenName -> bg.Green.Name
         [] OTHER -> ci.Name

(* Unlike GetImageName, a digest anywhere in the version counts. *)
GetDeploymentImageName(d) ==
    IF d.Version \in DigestVersions \cup TagAndDigestVersions
    THEN ImageAtDigest(d.Image, d.Version)
    ELSE ImageAndTag(d.Image, d.Version)

ClusterInstallationResourceLabels(name) == [k \in {ClusterResourceLabel} |-> name]

ClusterInstallationSelectorLabels(name) ==
    [k \in {ClusterResourceLabel, ClusterLabel, "app"} |->
        IF k = "app" THEN MattermostAppContainerName ELSE name]

(* In blue/green mode the labels of the production deployment are used for *)
(* every object, whichever deployment it belongs to.                       *)
ClusterInstallationLabels(ci, name) ==
    LET bg == ci.Spec.BlueGreen
        user == CASE ~bg.Enable -> Deref(ci.Spec.ResourceLabels, EmptyMap)
                  [] bg.Enable /\ bg.ProductionDeployment = BlueName  -> bg.Blue.ResourceLabels
                  [] bg.Enable /\ bg.ProductionDeployment = GreenName -> bg.Green.ResourceLabels
                  [] OTHER -> EmptyMap
    IN mergeStringMaps(ClusterInstallationSelectorLabels(name), user)

=============================================================================
