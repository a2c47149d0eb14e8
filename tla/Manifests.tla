------------------------------ MODULE Manifests ------------------------------
(***************************************************************************)
(* What the passes of both controllers make of an installation's spec:     *)
(* the defaults they store in it, the objects they leave in the cluster,   *)
(* and what a migration from ClusterInstallation to Mattermost keeps.      *)
(*                                                                         *)
(* A pass is one step here and its API calls succeed unless the            *)
(* configuration makes them fail; it ends at the first error.  What        *)
(* happens between the calls of a pass is OwnedObjects' subject, the wait  *)
(* for the job that tries a new image UpdateJob's (a pass here is the one  *)
(* that finds it done), and the hand-over of the pods Migration's.         *)
(***************************************************************************)
EXTENDS Patches, Conversion

CONSTANTS
    BaseMattermost,       \* the Mattermost a user starts with
    BaseInstallation,     \* the ClusterInstallation a user starts with
    MattermostChoices,    \* the values users give to each field of the one
    InstallationChoices,  \* and of the other: records of sets
    UserObjects,          \* secrets, claims and accounts that users made
    MaxEdits              \* how many times users change the spec

(* The resources that users write pass the schemas of their definitions.   *)
ASSUME SpecsTyped ==
    /\ BaseMattermost \in Mattermost
    /\ \A f \in DOMAIN MattermostChoices : \A v \in MattermostChoices[f] :
        f \in DOMAIN BaseMattermost.Spec /\ [BaseMattermost EXCEPT !.Spec[f] = v] \in Mattermost
    /\ BaseInstallation \in CI!ClusterInstallation
    /\ \A f \in DOMAIN InstallationChoices : \A v \in InstallationChoices[f] :
        /\ f \in DOMAIN BaseInstallation.Spec
        /\ [BaseInstallation EXCEPT !.Spec[f] = v] \in CI!ClusterInstallation

(* Users make no deployments, their services and ingresses do not pass for *)
(* the operator's, nor do their databases and file stores, and objects     *)
(* have a kind and a name.                                                 *)
ASSUME UserObjectsNamed ==
    \A o \in UserObjects :
        /\ {"Kind", "Name"} \subseteq DOMAIN o /\ o.Kind # "Deployment"
        /\ o.Kind \in {"Service", "Ingress"} =>
            DOMAIN o.Labels \cap {ClusterLabel, CI!ClusterLabel} = {}
        /\ o.Kind \in {"MysqlCluster", "MinIOInstance"} => o.Owner[1] # "Mattermost"

(* A name is never one that was made from it for a job server. *)
ASSUME JobServerNamesApart ==
    \A name \in {BaseMattermost.Name, BaseInstallation.Name} : name # name \o "-jobserver"

(* The names that users give to blue and green and to the canary, with     *)
(* those that stand for the ones they leave out, are neither that of the   *)
(* installation nor each other's: nothing in the code checks it, and a     *)
(* blue deployment with the installation's name deletes itself.            *)
InstallationWrites(f) ==
    {BaseInstallation.Spec[f]}
    \cup UNION {InstallationChoices[g] : g \in DOMAIN InstallationChoices \cap {f}}

Colours ==
    {OrDefault(bg.Blue.Name, BaseInstallation.Name \o "-blue") :
        bg \in InstallationWrites("BlueGreen")}
    \cup {OrDefault(bg.Green.Name, BaseInstallation.Name \o "-green") :
            bg \in InstallationWrites("BlueGreen")}

Canaries ==
    {OrDefault(canary.Deployment.Name, BaseInstallation.Name \o "-canary") :
        canary \in InstallationWrites("Canary")}

ASSUME InstallationNamesApart ==
    BaseInstallation.Name \notin Colours \cup Canaries /\ Colours \cap Canaries = {}

(* The name of a certificate that is made from a host is not empty. *)
ASSUME CertificatesNamed ==
    \A host \in InstallationWrites("IngressName") : Dashed(host) \o "-tls-cert" # Unset

(* The two secrets that the operator makes up for an installation have     *)
(* different names, and users who make the one for MinIO themselves put    *)
(* both keys into it: one without them is overridden.                      *)
ASSUME SecretNamesApart ==
    \A name \in {BaseMattermost.Name, BaseInstallation.Name} :
        name \o "-mysql-root-password" # DefaultMinioSecretName(name)

ASSUME MinioSecretsComplete ==
    \A name \in {BaseMattermost.Name, BaseInstallation.Name} : \A o \in UserObjects :
        o.Kind = "Secret" /\ o.Name = DefaultMinioSecretName(name) =>
            {"accesskey", "secretkey"} \subseteq DOMAIN o.Data

(* The keys of the labels that tell the installations of each kind apart,  *)
(* and the specs whose labels leave those of the other kind alone.  The    *)
(* labels of a ClusterInstallation are written over the operator's own.    *)
V1Alpha1Keys == {CI!ClusterLabel, CI!ClusterResourceLabel}
V1Beta1Keys == {ClusterLabel, ClusterResourceLabel}

MattermostLeaves(spec) ==
    \A labels \in spec.ResourceLabels \cup {t.ExtraLabels : t \in spec.PodTemplate} :
        DOMAIN labels \cap V1Alpha1Keys = {}

InstallationLeaves(spec) ==
    \A labels \in spec.ResourceLabels
                  \cup {spec.BlueGreen.Blue.ResourceLabels, spec.BlueGreen.Green.ResourceLabels} :
        DOMAIN labels \cap (V1Alpha1Keys \cup V1Beta1Keys \cup {"app"}) = {}

ASSUME LabelsLeftAlone ==
    /\ MattermostLeaves(BaseMattermost.Spec)
    /\ \A f \in DOMAIN MattermostChoices : \A v \in MattermostChoices[f] :
        MattermostLeaves([BaseMattermost.Spec EXCEPT ![f] = v])
    /\ InstallationLeaves(BaseInstallation.Spec)
    /\ \A f \in DOMAIN InstallationChoices : \A v \in InstallationChoices[f] :
        InstallationLeaves([BaseInstallation.Spec EXCEPT ![f] = v])

(* The patches that users write are the two that are modelled, or refused, *)
(* and the annotation that one of them sets is not given otherwise.        *)
Untiered(spec) == "tier" \notin DOMAIN spec.ServiceAnnotations

Patchable(m) ==
    /\ \/ DeploymentPatch(m) = {<<"spec", "replicas">>}
       \/ ~\E p \in DeploymentPatch(m) : validateDeploymentPatch(p)
    /\ \/ ServicePatch(m) = {<<"metadata", "annotations", "tier">>}
       \/ ~\E p \in ServicePatch(m) : validateServicePatch(p)
    /\ Untiered(m.Spec)

ASSUME PatchesModelled ==
    /\ Patchable(BaseMattermost)
    /\ \A f \in DOMAIN MattermostChoices : \A v \in MattermostChoices[f] :
        Patchable([BaseMattermost EXCEPT !.Spec[f] = v])
    /\ Untiered(BaseInstallation.Spec)
    /\ \A f \in DOMAIN InstallationChoices : \A v \in InstallationChoices[f] :
        Untiered([BaseInstallation.Spec EXCEPT ![f] = v])

VARIABLES
    mm,         \* the Mattermost: a set of at most one
    ci,         \* the ClusterInstallation: a set of at most one
    recorded,   \* the blue and green names in the status of the latter
    objects,    \* the objects in the namespace, by kind and name
    patches,    \* status.resourcePatch
    drawn,      \* how many secrets have been made up
    pass,       \* how the last pass ended; "due" after an edit
    last,       \* the last edit: field, value, and whether a pass was over
    edits,      \* number of edits so far
    origin,     \* the ClusterInstallation that was migrated, as it was then
    handover    \* how far the migration is: "none", "waiting" or "over"

vars == <<mm, ci, recorded, objects, patches, drawn, pass, last, edits, origin, handover>>

Key(o) == <<o.Kind, o.Name>>

Store(os) == [k \in {Key(o) : o \in os} |-> CHOOSE o \in os : Key(o) = k]

Found(kind, name) == {objects[k] : k \in DOMAIN objects \cap {<<kind, name>>}}

Nobody == <<"nobody">>

NoEdit == [field |-> Unset, value |-> {}, settled |-> FALSE]

-----------------------------------------------------------------------------
(* Secrets that the operator makes up are told apart by Drawn. *)
NewSecret(secret, keys) ==
    [Kind |-> "Secret", Name |-> secret.Name, Owner |-> secret.Owner,
     Labels |-> secret.Labels, Data |-> [k \in keys |-> "random"], Drawn |-> drawn + 1]

createMySQLSecret(owner, secretName) ==
    NewSecret([Name |-> secretName, Owner |-> owner, Labels |-> EmptyMap],
              {"ROOT_PASSWORD", "USER", "PASSWORD", "DATABASE"})

(* Fault: the secret is made anew by each pass. *)
CreateMySQLSecrets(owner, name) == createMySQLSecret(owner, name)

GetOrCreateMySQLSecrets(owner, name) ==
    Deref(Found("Secret", name), createMySQLSecret(owner, name))

(* The keys that are there are kept; a secret without them is overridden. *)
CreateOrUpdateMinioSecret(desired) ==
    LET made == NewSecret(desired, {"accesskey", "secretkey"})
        current == {s \in Found("Secret", desired.Name) :
                        {"accesskey", "secretkey"} \subseteq DOMAIN s.Data}
    IN IF current = {} THEN made
       ELSE [made EXCEPT !.Data = Deref(current, made).Data,
                         !.Drawn = Deref(current, made).Drawn]

(* Ready as soon as the MinIO operator has made the service. *)
GetMinioService(name) ==
    {s.Name : s \in Found("Service", name \o "-minio-hl-svc")}

SecretContains(name, key) == \E s \in Found("Secret", name) : key \in DOMAIN s.Data

-----------------------------------------------------------------------------
(* A stage of a pass: the objects it leaves, and its result; {} is an      *)
(* error, which ends the pass.                                             *)
Stage(ensured, result) == [ensured |-> ensured, result |-> result]

checkOperatorManagedMySQL(m) ==
    LET secret == GetOrCreateMySQLSecrets(OwnedBy(m), m.Name \o "-mysql-root-password")
    IN Stage({ClusterV1Beta(m), secret}, NewMySQLDBConfig(secret))

checkDatabase(m) ==
    IF DatabaseIsExternal(m.Spec.Database)
    THEN LET name == Deref(m.Spec.Database.External, Unset).Secret
         IN Stage({}, UNION {NewExternalDBConfig(m, s) : s \in Found("Secret", name)})
    ELSE IF ManagedDatabase(m.Spec.Database).Type = "mysql"
         THEN checkOperatorManagedMySQL(m)
         ELSE Stage({}, {})

checkExternalFileStore(m) ==
    LET external == Deref(m.Spec.FileStore.External, Unset)
        account == {a \in Found("ServiceAccount", m.Name) : "RoleArn" \in DOMAIN a}
    IN IF external.UseServiceAccount
       THEN Stage({}, IF account = {} THEN {} ELSE NewExternalFileStoreInfo(m, {}))
       ELSE Stage({}, UNION {NewExternalFileStoreInfo(m, {s}) :
                                s \in Found("Secret", external.Secret)})

checkExternalVolumeFileStore(m) ==
    LET volume == Deref(m.Spec.FileStore.ExternalVolume, Unset)
        usable == {c \in Found("PersistentVolumeClaim", volume.VolumeClaimName) :
                        c.Phase \in {"Bound", "Pending"}}
    IN Stage({}, IF usable = {} THEN {} ELSE NewExternalVolumeFileStoreInfo(m))

determineAccessModes(local, current) ==
    CASE local.AccessModes # <<>> -> local.AccessModes
      [] local.AccessModes = <<>> /\ current # {} -> Deref(current, Unset).AccessModes
      [] OTHER -> <<"ReadWriteMany">>

accessModesEqual(a, b) == Len(a) = Len(b) /\ Range(a) \subseteq Range(b)

(* The claim that a pass asks for has no owner; a new one gets it when it  *)
(* is created, and an update of the size leaves it without.                *)
checkLocalFileStore(m) ==
    LET local == Deref(m.Spec.FileStore.Local, Unset)
        current == Found("PersistentVolumeClaim", m.Name)
        modes == determineAccessModes(local, current)
        size == OrDefault(local.StorageSize, DefaultStorageSize)
        claim == [Kind |-> "PersistentVolumeClaim", Name |-> m.Name, Owner |-> OwnedBy(m),
                  Labels |-> MattermostLabels(m, m.Name), AccessModes |-> modes,
                  Storage |-> size, Phase |-> "Pending"]
        refused == \E c \in current :
                        \/ local.AccessModes # <<>> /\ ~accessModesEqual(c.AccessModes, modes)
                        \/ c.AccessModes # modes  \* the API server: immutable
        updated == {[claim EXCEPT !.Phase = c.Phase,
                                  !.Owner = IF c.Storage = size THEN c.Owner ELSE Nobody] :
                        c \in current}
    IN IF refused THEN Stage({}, {})
       ELSE Stage({Deref(updated, claim)}, {NewLocalFileStoreInfo(m)})

checkOperatorManagedMinio(m) ==
    LET secret == CreateOrUpdateMinioSecret(SecretV1Beta(m))
    IN Stage({secret, InstanceV1Beta(m)},
             {NewOperatorManagedFileStoreInfo(m, secret.Name, url) :
                url \in GetMinioService(m.Name)})

checkFileStore(m) ==
    CASE FileStoreIsExternal(m.Spec.FileStore) -> checkExternalFileStore(m)
      [] ~FileStoreIsExternal(m.Spec.FileStore) /\ IsExternalVolume(m.Spec.FileStore) ->
            checkExternalVolumeFileStore(m)
      [] ~FileStoreIsExternal(m.Spec.FileStore) /\ ~IsExternalVolume(m.Spec.FileStore)
         /\ IsLocal(m.Spec.FileStore) -> checkLocalFileStore(m)
      [] OTHER -> checkOperatorManagedMinio(m)

-----------------------------------------------------------------------------
(* The rest of a pass over a Mattermost. *)

checkLicence(m) ==
    m.Spec.LicenseSecret = Unset \/ SecretContains(m.Spec.LicenseSecret, "license")

checkMattermostService(m) == {ApplyToService(m, GenerateServiceV1Beta(m))}

(* The account is the user's when the pods use its role. *)
checkMattermostSA(m) ==
    IF \E e \in m.Spec.FileStore.External : e.UseServiceAccount THEN {}
    ELSE {GenerateServiceAccountV1Beta(m, m.Name)}

checkMattermostRBAC(m) ==
    checkMattermostSA(m)
    \cup {GenerateRoleV1Beta(m, m.Name), GenerateRoleBindingV1Beta(m, m.Name, m.Name)}

(* The ingress and the ingress class a spec asks for, if any. *)
checkMattermostIngress(m) ==
    CASE AWSLoadBalancerEnabled(m) -> {GenerateALBIngressV1Beta(m)}
      [] ~AWSLoadBalancerEnabled(m) /\ IngressEnabled(m) -> {GenerateIngressV1Beta(m)}
      [] OTHER -> {}

checkMattermostIngressClass(m) ==
    IF \E a \in m.Spec.AWSLoadBalancerController : a.Enabled /\ a.IngressClassName = Unset
    THEN {GenerateALBIngressClassV1Beta(m)}
    ELSE {}

checkMattermostDeployment(m, db, fileStore) ==
    {ApplyToDeployment(m, GenerateDeploymentV1Beta(m, db, fileStore, m.Name,
                            GetIngressHost(m), m.Name, GetImageName(m)))}

checkMattermostJobServer(m, db, fileStore) ==
    IF ~DedicatedJobServer(m) THEN {}
    ELSE {ApplyToDeployment(m, GenerateJobServerDeploymentV1Beta(m, db, fileStore, m.Name,
                                 GetIngressHost(m), m.Name, GetImageName(m)))}

(* With a load balancer service the ingress is not looked at: one that is  *)
(* there stays.                                                            *)
Unwanted(m) ==
    (IF m.Spec.UseServiceLoadBalancer THEN {}
     ELSE ({<<"Ingress", m.Name>>} \ {Key(o) : o \in checkMattermostIngress(m)})
          \cup ({<<"IngressClass", m.Name>>}
                    \ {Key(o) : o \in checkMattermostIngressClass(m)}))
    \cup (IF DedicatedJobServer(m) THEN {}
          ELSE {<<"Deployment", DedicatedJobServerName(m)>>})

checkMattermost(m, db, fileStore) ==
    checkMattermostService(m)
    \cup checkMattermostRBAC(m)
    \cup (IF m.Spec.UseServiceLoadBalancer THEN {}
          ELSE checkMattermostIngressClass(m) \cup checkMattermostIngress(m))
    \cup checkMattermostDeployment(m, db, fileStore)
    \cup checkMattermostJobServer(m, db, fileStore)

(* The API server does not change the selector of a deployment. *)
Refused(o) ==
    o.Kind = "Deployment" /\ \E d \in Found(o.Kind, o.Name) : d.Selector # o.Selector

(* The objects after a pass that leaves some of them and removes others. *)
Left(ensured, removed) ==
    LET written == {o \in ensured : ~Refused(o)}
    IN Restrict(mergeStringMaps(objects, Store(written)),
                (DOMAIN objects \cup {Key(o) : o \in written}) \ removed)

(* The number of secrets that were made up for these objects. *)
Draws(ensured) ==
    IF \E o \in ensured : o.Kind = "Secret" /\ o.Drawn = drawn + 1 THEN drawn + 1 ELSE drawn

Outcome(ok, ensured) == pass' = IF ok /\ ~\E o \in ensured : Refused(o) THEN "done" ELSE "failed"

Normalised(m) == SetReplicasAndResourcesFromSize(SetDefaults(m))

(* One pass of the Mattermost controller. *)
ReconcileMattermost ==
    \E old \in mm :
        /\ ~SetDefaultsFails(old)
        /\ LET m == Normalised(old)
               database == checkDatabase(m)
               store == checkFileStore(m)
               prepared == database.ensured
                           \cup IF database.result = {} THEN {} ELSE store.ensured
               ok == database.result # {} /\ store.result # {} /\ checkLicence(m)
               app == IF ok THEN checkMattermost(m, Deref(database.result, Unset),
                                                 Deref(store.result, Unset))
                      ELSE {}
           IN /\ mm' = {m}
              /\ objects' = Left(prepared \cup app, IF ok THEN Unwanted(m) ELSE {})
              /\ drawn' = Draws(prepared)
              /\ patches' = IF ok THEN [Service |-> ServicePatchStatus(m),
                                        Deployment |-> DeploymentPatchStatus(m)]
                            ELSE patches
              /\ Outcome(ok, app)
        /\ UNCHANGED <<ci, recorded, last, edits, origin, handover>>

(* SetDefaults rejects the spec. *)
RejectMattermost ==
    /\ \E old \in mm : SetDefaultsFails(old)
    /\ pass' = "failed"
    /\ UNCHANGED <<mm, ci, recorded, objects, patches, drawn, last, edits, origin, handover>>

-----------------------------------------------------------------------------
(* A pass over a ClusterInstallation. *)

checkCIDatabase(c) ==
    LET info == {GenerateDatabaseInfoFromSecret(s) : s \in Found("Secret", c.Spec.Database.Secret)}
        named == c.Spec.Database.Secret # Unset
    IN CASE named /\ ~\E i \in info : DatabaseInfoIsValid(i) -> Stage({}, {})
         [] named /\ \E i \in info : DatabaseInfoIsValid(i) /\ i.External -> Stage({}, {"external"})
         [] OTHER -> IF c.Spec.Database.Type = "mysql" THEN Stage({CI!Cluster(c)}, {"mysql"})
                     ELSE Stage({}, {})

checkMinioSecret(c) ==
    IF c.Spec.Minio.Secret = Unset
    THEN Stage({CreateOrUpdateMinioSecret(CI!Secret(c))}, {"ok"})
    ELSE Stage({}, IF \A key \in {"accesskey", "secretkey"} :
                        SecretContains(c.Spec.Minio.Secret, key)
                   THEN {"ok"} ELSE {})

checkMinio(c) ==
    LET secret == checkMinioSecret(c)
    IN IF secret.result = {} \/ CI!MinioIsExternal(c.Spec.Minio) THEN secret
       ELSE Stage(secret.ensured \cup {CI!Instance(c)}, {"ok"})

MinioURL(c) ==
    IF CI!MinioIsExternal(c.Spec.Minio) THEN {c.Spec.Minio.ExternalURL}
    ELSE GetMinioService(c.Name)

(* A deployment: its secret, and then itself unless something is missing. *)
checkCIDeployment(c, name, ingressName, image) ==
    LET own == GetOrCreateMySQLSecrets(CI!ClusterInstallationOwnerReference(c),
                                       CI!DefaultDatabaseSecretName(c.Name))
        secret == IF c.Spec.Database.Secret = Unset THEN {own}
                  ELSE Found("Secret", c.Spec.Database.Secret)
        info == {i \in {GenerateDatabaseInfoFromSecret(s) : s \in secret} : DatabaseInfoIsValid(i)}
        licensed == \/ c.Spec.MattermostLicenseSecret = Unset
                    \/ SecretContains(c.Spec.MattermostLicenseSecret, "license")
        made == {CI!GenerateDeployment(c, i, name, ingressName, c.Name, image, url) :
                    i \in info, url \in IF licensed THEN MinioURL(c) ELSE {}}
    IN Stage((IF c.Spec.Database.Secret = Unset THEN {own} ELSE {}) \cup made, made)

(* The service and the ingress in front of a deployment. *)
FrontOf(c, name, ingressName, annotations, withIngress) ==
    {CI!GenerateService(c, name, name)}
    \cup IF withIngress THEN {CI!GenerateIngress(c, name, ingressName, annotations)} ELSE {}

MainIngressAnnotations(c) ==
    mergeStringMaps([k \in {ingressClassAnnotation, BodySizeAnnotation} |->
                        IF k = BodySizeAnnotation
                        THEN [number |-> 1000, unit |-> "M", multiline |-> FALSE]
                        ELSE Plain("nginx")],
                    c.Spec.IngressAnnotations)

(* Everything but the deployments that belong to blue/green and canary. *)
checkCIMattermost(c) ==
    LET common == {CI!GenerateService(c, c.Name, CI!GetProductionDeploymentName(c)),
                   CI!GenerateServiceAccount(c, c.Name), CI!GenerateRole(c, c.Name),
                   CI!GenerateRoleBinding(c, c.Name, c.Name)}
                  \cup IF c.Spec.UseServiceLoadBalancer THEN {}
                       ELSE {CI!GenerateIngress(c, c.Name, c.Spec.IngressName,
                                                MainIngressAnnotations(c))}
        main == checkCIDeployment(c, c.Name, c.Spec.IngressName, CI!GetImageName(c))
    IN IF c.Spec.BlueGreen.Enable THEN Stage(common, {"ok"})
       ELSE Stage(common \cup main.ensured, main.result)

(* Blue comes first; when its deployment fails green is not reached. *)
checkBlueGreen(c) ==
    LET One(d) == LET one == checkCIDeployment(c, d.Name, d.IngressName,
                                               CI!GetDeploymentImageName(d))
                  IN Stage(FrontOf(c, d.Name, d.IngressName, c.Spec.IngressAnnotations,
                                 ~c.Spec.UseServiceLoadBalancer) \cup one.ensured, one.result)
        blue == One(c.Spec.BlueGreen.Blue)
        green == One(c.Spec.BlueGreen.Green)
    IN CASE ~c.Spec.BlueGreen.Enable -> Stage({}, {"ok"})
         [] c.Spec.BlueGreen.Enable /\ blue.result = {} -> blue
         [] OTHER -> Stage(blue.ensured \cup green.ensured, green.result)

Components(name) == {"Deployment", "Service", "Ingress"} \X {name}

(* Fault: only the deployments of the two are deleted. *)
BlueGreenRemovesDeployments(c) ==
    IF c.Spec.BlueGreen.Enable THEN {<<"Deployment", c.Name>>}
    ELSE {<<"Deployment", n>> : n \in recorded}

(* What checkBlueGreen deletes: the one deployment when there are two, and *)
(* else what is recorded of the two.                                       *)
BlueGreenRemoves(c) ==
    IF c.Spec.BlueGreen.Enable THEN {<<"Deployment", c.Name>>}
    ELSE UNION {Components(n) : n \in recorded}

(* The canary has an ingress whatever the kind of the service. *)
checkCanary(c) ==
    LET d == c.Spec.Canary.Deployment
        cookie == [k \in {ingressClassAnnotation, "nginx.ingress.kubernetes.io/canary",
                          "nginx.ingress.kubernetes.io/canary-by-cookie"} |-> Plain("canary")]
        one == checkCIDeployment(c, d.Name, c.Spec.IngressName, CI!GetDeploymentImageName(d))
    IN IF ~c.Spec.Canary.Enable THEN Stage({}, {"ok"})
       ELSE Stage(FrontOf(c, d.Name, c.Spec.IngressName, cookie, TRUE) \cup one.ensured, one.result)

CINormalised(c) == CI!SetReplicasAndResourcesFromSize(CI!SetDefaults(c))

(* One pass of the ClusterInstallation controller. *)
ReconcileClusterInstallation ==
    \E old \in ci :
        /\ ~CI!SetDefaultsFails(old)
        /\ LET c == CINormalised(old)
               stages == <<checkCIDatabase(c), checkMinio(c), checkCIMattermost(c),
                           checkBlueGreen(c), checkCanary(c)>>
               reached(i) == \A j \in 1 .. i - 1 : stages[j].result # {}
               ensured == UNION {stages[i].ensured : i \in {j \in 1 .. 5 : reached(j)}}
           IN /\ ci' = {c}
              /\ objects' = Left(ensured, IF reached(5) THEN BlueGreenRemoves(c) ELSE {})
              /\ drawn' = Draws(ensured)
              /\ recorded' = CASE ~reached(6) -> recorded
                               [] reached(6) /\ ~c.Spec.BlueGreen.Enable -> {}
                               [] OTHER -> {c.Spec.BlueGreen.Blue.Name, c.Spec.BlueGreen.Green.Name}
              /\ Outcome(reached(6), ensured)
        /\ UNCHANGED <<mm, patches, last, edits, origin, handover>>

RejectClusterInstallation ==
    /\ \E old \in ci : CI!SetDefaultsFails(old)
    /\ pass' = "failed"
    /\ UNCHANGED <<mm, ci, recorded, objects, patches, drawn, last, edits, origin, handover>>

-----------------------------------------------------------------------------
(* Migration, users and the rest of the cluster. *)

(* tryToMigrate: the deployment is made again under the new labels, and    *)
(* the Mattermost is created.  The labels that were written into the map   *)
(* of the user on the way are stored with it.                              *)
Migrate ==
    \E c \in ci :
        \E m \in ConvertToMM(c, Found("Secret", c.Spec.Database.Secret)),
           d \in Found("Deployment", c.Name) :
            /\ IsConvertible(c)
            /\ LET labels == MattermostLabels(m, m.Name)
               IN /\ mm' = {[m EXCEPT !.Spec.ResourceLabels = {labels : l \in @}]}
                  /\ objects' = [objects EXCEPT ![Key(d)] =
                        [d EXCEPT !.Owner = Nobody, !.Labels = labels, !.PodLabels = labels,
                                  !.Selector = MattermostSelectorLabels(m.Name)]]
            /\ ci' = {}
            /\ origin' = IF pass = "done" THEN {c} ELSE {}
            /\ pass' = "due"
            /\ last' = NoEdit
            /\ handover' = "waiting"
            /\ UNCHANGED <<recorded, patches, drawn, edits>>

(* The Mattermost is stable: the ClusterInstallation is deleted, and the   *)
(* garbage collector takes the objects that it still owns.                 *)
RemoveInstallation ==
    /\ handover = "waiting"
    /\ pass = "done"
    /\ handover' = "over"
    /\ objects' = Restrict(objects, {k \in DOMAIN objects :
                                        objects[k].Owner[1] # "ClusterInstallation"})
    /\ UNCHANGED <<mm, ci, recorded, patches, drawn, pass, last, edits, origin>>

(* Users change one field at a time, and no longer than the bound says. *)
Wrote(f, v) ==
    /\ edits < MaxEdits
    /\ edits' = edits + 1
    /\ last' = [field |-> f, value |-> v, settled |-> pass = "done"]
    /\ pass' = "due"
    /\ origin' = {}
    /\ UNCHANGED <<recorded, objects, patches, drawn, handover>>

EditMattermost ==
    \E m \in mm : \E f \in DOMAIN MattermostChoices : \E v \in MattermostChoices[f] \ {m.Spec[f]} :
        /\ mm' = {[m EXCEPT !.Spec[f] = v]}
        /\ Wrote(f, v)
        /\ UNCHANGED ci

EditInstallation ==
    \E c \in ci : \E f \in DOMAIN InstallationChoices : \E v \in InstallationChoices[f] \ {c.Spec[f]} :
        /\ ci' = {[c EXCEPT !.Spec[f] = v]}
        /\ Wrote(f, v)
        /\ UNCHANGED mm

(* The MinIO operator makes a headless service for each instance. *)
HeadlessService(instance) ==
    [Kind |-> "Service", Name |-> instance.Name \o "-hl-svc",
     Owner |-> <<"MinIOInstance", instance.Name>>, Labels |-> EmptyMap,
     Annotations |-> EmptyMap, Type |-> "ClusterIP", Ports |-> {9000},
     Selector |-> [k \in {"v1beta1.min.io/instance"} |-> instance.Name]]

MinioOperator ==
    \E o \in Range(objects) :
        /\ o.Kind = "MinIOInstance"
        /\ Found("Service", HeadlessService(o).Name) = {}
        /\ objects' = mergeStringMaps(objects, Store({HeadlessService(o)}))
        /\ UNCHANGED <<mm, ci, recorded, patches, drawn, pass, last, edits, origin, handover>>

Init ==
    /\ \/ mm = {BaseMattermost} /\ ci = {}
       \/ mm = {} /\ ci = {BaseInstallation}
    /\ recorded = {}
    /\ objects = Store(UserObjects)
    /\ patches = [Service |-> "none", Deployment |-> "none"]
    /\ drawn = 0
    /\ pass = "due"
    /\ last = NoEdit
    /\ edits = 0
    /\ origin = {}
    /\ handover = "none"

Next ==
    \/ ReconcileMattermost
    \/ RejectMattermost
    \/ ReconcileClusterInstallation
    \/ RejectClusterInstallation
    \/ Migrate
    \/ RemoveInstallation
    \/ EditMattermost
    \/ EditInstallation
    \/ MinioOperator

Spec == Init /\ [][Next]_vars

-----------------------------------------------------------------------------
(* Properties. *)

(* The spec, the objects and the records of the passes have their types. *)
TypeOK ==
    /\ mm \in Optional(Mattermost)
    /\ ci \in Optional(CI!ClusterInstallation)
    /\ Cardinality(mm) + Cardinality(ci) = 1
    /\ recorded \subseteq STRING
    /\ \A k \in DOMAIN objects : k = Key(objects[k])
    /\ patches \in [Service : {"none", "applied", "error"}, Deployment : {"none", "applied", "error"}]
    /\ drawn \in Nat
    /\ pass \in {"due", "done", "failed"}
    /\ edits \in 0 .. MaxEdits
    /\ origin \in Optional(CI!ClusterInstallation)
    /\ handover \in {"none", "waiting", "over"}

Complete == pass = "done"
Stored(kind) == {o \in Range(objects) : o.Kind = kind}

Matches(selector, labels) ==
    \A k \in DOMAIN selector : k \in DOMAIN labels /\ labels[k] = selector[k]

(* Defaults settle: a spec that a pass has filled in is not changed again  *)
(* by the next one, which would write it and wake itself up for ever       *)
(* (Reconcile of both controllers: reflect.DeepEqual after SetDefaults).   *)
SpecSettles ==
    Complete => /\ \A m \in mm : ~SetDefaultsFails(m) /\ Normalised(m) = m
                /\ \A c \in ci : ~CI!SetDefaultsFails(c) /\ CINormalised(c) = c

(* The parts of a managed database or file store that are set in one       *)
(* version of the spec are the same in another.                            *)
KeepsSet(old, new) ==
    \A o \in old : \E n \in new :
        /\ o.StorageSize # Unset => n.StorageSize = o.StorageSize
        /\ o.Replicas # {} => n.Replicas = o.Replicas
        /\ o.Resources # NoResources => n.Resources = o.Resources

(* The fields that a pass may fill in: the others are the user's alone. *)
FilledIn ==
    {"Image", "Version", "ImagePullPolicy", "Size", "Replicas", "Scheduling", "FileStore",
     "Database"}
CIFilledIn ==
    {"Image", "Version", "ImagePullPolicy", "Size", "Replicas", "Resources", "Minio", "Database",
     "BlueGreen", "Canary"}

(* A spec has what an edit wrote, but for the gaps that the edit left. *)
HasEdit(edit, spec) ==
    LET v == edit.value
    IN /\ edit.field = "Size" =>
            \A size \in GetClusterSize(v) : spec.Replicas = {size.App.Replicas}
       /\ \A f \in {"Image", "Version", "ImagePullPolicy"} :
            edit.field = f /\ v # Unset => spec[f] = v
       /\ edit.field = "Replicas" /\ v # {} => spec.Replicas = v
       /\ edit.field = "Scheduling" =>
            /\ spec.Scheduling.Placement = v.Placement
            /\ v.Resources # NoResources => spec.Scheduling.Resources = v.Resources
       /\ edit.field = "Database" =>
            /\ spec.Database.External = v.External
            /\ KeepsSet(v.OperatorManaged, spec.Database.OperatorManaged)
       /\ edit.field = "FileStore" =>
            /\ \A f \in {"External", "ExternalVolume", "Local"} : spec.FileStore[f] = v[f]
            /\ KeepsSet(v.OperatorManaged, spec.FileStore.OperatorManaged)
       /\ edit.field \notin FilledIn => spec[edit.field] = v

HasCIEdit(edit, spec) ==
    LET v == edit.value
    IN /\ edit.field = "Size" =>
            \A size \in GetClusterSize(v) : spec.Replicas = size.App.Replicas
       /\ \A f \in {"Image", "Version", "ImagePullPolicy"} :
            edit.field = f /\ v # Unset => spec[f] = v
       /\ edit.field = "Replicas" /\ v # 0 => spec.Replicas = v
       /\ edit.field = "Resources" /\ v # NoResources => spec.Resources = v
       /\ edit.field = "Minio" =>
            /\ \A f \in {"ExternalURL", "ExternalBucket", "Secret"} : spec.Minio[f] = v[f]
            /\ v.Replicas # 0 => spec.Minio.Replicas = v.Replicas
       /\ edit.field = "Database" =>
            /\ \A f \in {"Secret", "InitBucketURL", "Backup", "BackupRestoreSecretName"} :
                spec.Database[f] = v[f]
            /\ v.Replicas # 0 => spec.Database.Replicas = v.Replicas
       /\ \A f \in {"BlueGreen", "Canary"} : edit.field = f => spec[f].Enable = v.Enable
       /\ edit.field \notin CIFilledIn => spec[edit.field] = v

(* What a user writes after a pass is over is still there when the next    *)
(* one is: a size that was applied earlier does not take the number of     *)
(* replicas back, and a size that is written now decides it                *)
(* (SetReplicasAndResourcesFromSize erases the size it has applied).       *)
EditSticks ==
    Complete /\ last.settled =>
        /\ \A m \in mm : HasEdit(last, m.Spec)
        /\ \A c \in ci : HasCIEdit(last, c.Spec)

(* A deployment selects its own pods and those of no other deployment,     *)
(* whatever labels the user gives, the operator's own keys included: the   *)
(* job server, blue, green and the canary run beside the app with labels   *)
(* that the same functions make.  The labels of a ClusterInstallation are  *)
(* written over the operator's: users must leave those keys alone.         *)
PodsSelected ==
    \A d, e \in Stored("Deployment") : Matches(d.Selector, e.PodLabels) <=> d = e

(* The deployments that the spec asks for.  A canary that is turned off    *)
(* stays as it was: nothing deletes it.                                    *)
Running ==
    {o \in Stored("Deployment") :
        \/ \E m \in mm : o.Name \in {m.Name, DedicatedJobServerName(m)}
        \/ \E c \in ci :
            \/ ~c.Spec.BlueGreen.Enable /\ o.Name = c.Name
            \/ c.Spec.BlueGreen.Enable
               /\ o.Name \in {c.Spec.BlueGreen.Blue.Name, c.Spec.BlueGreen.Green.Name}
            \/ c.Spec.Canary.Enable /\ o.Name = c.Spec.Canary.Deployment.Name}

(* The environment of a container: each variable once, those that others   *)
(* name before them, and the user's value for a variable of the user       *)
(* (mergeEnvVars).                                                         *)
EnvWellFormed ==
    /\ \A d \in Stored("Deployment") :
        LET env == d.App.Env
        IN /\ \A i, j \in DOMAIN env : env[i].Name = env[j].Name => i = j
           /\ \A i \in DOMAIN env : \A name \in References(env[i].Value) :
                \E j \in 1 .. i - 1 : env[j].Name = name
    /\ Complete => \A d \in Running :
        \A user \in {m.Spec.MattermostEnv : m \in mm} \cup {c.Spec.MattermostEnv : c \in ci} :
            \A i \in DOMAIN user :
                (\A j \in i + 1 .. Len(user) : user[j].Name # user[i].Name)
                    => Contains(d.App.Env, user[i])

(* The hosts that the spec has an ingress for. *)
Hosts ==
    (UNION {IF m.Spec.UseServiceLoadBalancer THEN {}
            ELSE IF AWSLoadBalancerEnabled(m) THEN Range(GetAWSLoadBalancerHostNames(m))
            ELSE IF IngressEnabled(m) THEN Range(GetIngressHostNames(m)) ELSE {} : m \in mm})
    \cup {c.Spec.IngressName : c \in {x \in ci : ~x.Spec.UseServiceLoadBalancer}}

(* Each host leads through an ingress and an open port of its service to   *)
(* the pods of the app, and to those of the app only.                      *)
HostsReachPods ==
    Complete => \A host \in Hosts :
        \E i \in Stored("Ingress"), s \in Stored("Service") :
            /\ \E r \in Range(i.Rules) :
                r.Host = host /\ r.Backend.Name = s.Name /\ r.Backend.Port \in s.Ports
            /\ \E d \in Stored("Deployment") : Matches(s.Selector, d.PodLabels)
            /\ \A d \in Stored("Deployment") :
                Matches(s.Selector, d.PodLabels) => d.App.Name = MattermostAppContainerName

Labelled(kind, labels) == {o \in Stored(kind) : Matches(labels, o.Labels)}

(* The health check finds the one service or ingress it takes the address  *)
(* from by the labels of the pods.  The labels of spec.podTemplate are on  *)
(* the pods only: with them nothing is found, and the installation is      *)
(* never stable.                                                           *)
HealthCheckFindsEndpoint ==
    Complete =>
        /\ \A m \in mm : DOMAIN ExtraLabels(m) = {} =>
            LET labels == MattermostPodLabels(m, m.Name)
            IN CASE m.Spec.UseServiceLoadBalancer -> Cardinality(Labelled("Service", labels)) = 1
                 [] ~m.Spec.UseServiceLoadBalancer /\ IngressEnabled(m) ->
                        Cardinality(Labelled("Ingress", labels)) = 1
                 [] OTHER -> TRUE
        /\ \A c \in ci :
            \A name \in IF c.Spec.BlueGreen.Enable
                        THEN {c.Spec.BlueGreen.Blue.Name, c.Spec.BlueGreen.Green.Name}
                        ELSE {c.Name} :
                LET kind == IF c.Spec.UseServiceLoadBalancer THEN "Service" ELSE "Ingress"
                IN Cardinality(Labelled(kind, CI!ClusterInstallationLabels(c, name))) = 1

(* Blue and green take the place of the one deployment and, turned off     *)
(* again, leave nothing behind: a pass that gets through with the two has  *)
(* recorded their names in the status, and the next one that gets through  *)
(* without them has taken away everything under the names recorded by then *)
(* (checkBlueGreen, checkClusterInstallation).  What failed passes made    *)
(* under names that no pass recorded is never cleaned up.                  *)
BlueGreenLeavesNothing ==
    [][pass' = "done" => \A c \in ci' :
        IF c.Spec.BlueGreen.Enable
        THEN /\ <<"Deployment", c.Name>> \notin DOMAIN objects'
             /\ {c.Spec.BlueGreen.Blue.Name, c.Spec.BlueGreen.Green.Name} \subseteq recorded'
        ELSE \A o \in Range(objects') :
                o.Kind \in {"Deployment", "Service", "Ingress"} => o.Name \notin recorded]_vars

(* The status of the patches describes the objects that are there: also    *)
(* when a patch was refused, disabled or taken out of the spec.            *)
PatchReported ==
    Complete => \A m \in mm :
        /\ \A d \in Found("Deployment", m.Name) :
            d.Replicas = IF patches.Deployment = "applied" THEN {PatchedReplicas}
                         ELSE m.Spec.Replicas
        /\ \A s \in Found("Service", m.Name) :
            patches.Service = "applied" <=> "tier" \in DOMAIN s.Annotations

(* Credentials that were made up for the database or for MinIO are never   *)
(* replaced while the installation that they belong to is there: their     *)
(* owners would no longer let the app in (GetOrCreateMySQLSecrets,         *)
(* CreateOrUpdateMinioSecret).                                             *)
CredentialsKept ==
    [][handover' = handover =>
        \A k \in DOMAIN objects : objects[k].Kind = "Secret" =>
            k \in DOMAIN objects' /\ objects'[k].Data = objects[k].Data
            /\ objects'[k].Drawn = objects[k].Drawn]_vars

(* An object without what tells the two kinds of installation apart. *)
Anonymous(o) == [o EXCEPT !.Owner = Nobody, !.Labels = EmptyMap]

(* The variables that the two kinds of installation set differently for    *)
(* external services: v1alpha1 never uses TLS for the file store, and only *)
(* v1beta1 sets the data source of an external database.                   *)
Rewritten(m) ==
    (IF DatabaseIsExternal(m.Spec.Database) THEN {"MM_SQLSETTINGS_DATASOURCE"} ELSE {})
    \cup (IF FileStoreIsExternal(m.Spec.FileStore) THEN {"MM_FILESETTINGS_AMAZONS3SSL"} ELSE {})

SameSettings(old, new, m) ==
    LET Env(d) == {v \in Range(d.App.Env) : v.Name \notin Rewritten(m)}
    IN /\ Env(old) = Env(new)
       /\ old.InitContainers = new.InitContainers
       /\ old.Volumes = new.Volumes /\ old.App.VolumeMounts = new.App.VolumeMounts

(* A secret of the user's for a database or a MinIO that the operator runs *)
(* is not kept.                                                            *)
SecretDropped(c, m) ==
    \/ c.Spec.Database.Secret # Unset /\ ~DatabaseIsExternal(m.Spec.Database)
    \/ c.Spec.Minio.Secret # Unset /\ ~FileStoreIsExternal(m.Spec.FileStore)

(* The deployment that an installation had before it was migrated. *)
DeploymentBefore(c) ==
    checkCIDeployment(c, c.Name, c.Spec.IngressName, CI!GetImageName(c)).result

(* An installation that was reconciled before it was migrated has the same *)
(* settings once its Mattermost is reconciled: the app finds its database, *)
(* its files and its licence as before (ConvertToMM,                       *)
(* GenerateDeploymentV1Beta).                                              *)
SettingsKept ==
    Complete /\ handover = "waiting" =>
        \A c \in origin : \A m \in mm : \A d \in Found("Deployment", c.Name) :
            \A old \in DeploymentBefore(c) : SecretDropped(c, m) \/ SameSettings(old, d, m)

(* Its pods run as before, whatever the database and the file store are:   *)
(* as many of them, with the same image, resources and probes, and where   *)
(* they ran (ConvertToMM, convertReplicas, GenerateDeploymentV1Beta).      *)
PodsKept ==
    Complete /\ handover = "waiting" =>
        \A c \in origin : \A d \in Found("Deployment", c.Name) : \A old \in DeploymentBefore(c) :
            /\ \A f \in {"Replicas", "PodAnnotations", "Copied", "ServiceAccountName", "Sidecars",
                         "Strategy", "RevisionHistoryLimit"} : d[f] = old[f]
            /\ \A f \in {"Name", "Image", "Command", "Ports", "Probes", "Resources"} :
                    d.App[f] = old.App[f]

(* The database and the MinIO that the Mattermost takes over are not       *)
(* resized, moved or restarted with another version by the new controller  *)
(* (convertDatabase, convertFileStore, ClusterV1Beta, InstanceV1Beta).     *)
(* Replicas that are not positive are not kept: the conversion leaves 0 to *)
(* the defaults, a database that waits for its restore included.           *)
StoresKept ==
    handover = "waiting" => \A c \in origin : \A m \in mm : \A o \in Range(objects) :
        o.Owner = OwnedBy(m) /\ ~SecretDropped(c, m) =>
            /\ o.Kind = "MysqlCluster" /\ c.Spec.Database.Replicas > 0 =>
                    Anonymous(o) = Anonymous(CI!Cluster(c))
            /\ o.Kind = "MinIOInstance" /\ c.Spec.Minio.Replicas > 0 =>
                    Anonymous(o) = Anonymous(CI!Instance(c))

(* Users find the installation where it was: a service of the same type    *)
(* and ports, and behind it an ingress with the same hosts, certificates   *)
(* and annotations, but for those that the new controller refuses          *)
(* (ConvertToMM, GenerateIngressV1Beta, sanitizeIngressAnnotations).       *)
AddressKept ==
    Complete /\ handover = "waiting" => \A c \in origin :
        /\ \E s \in Found("Service", c.Name) :
            LET old == CI!GenerateService(c, c.Name, c.Name)
            IN s.Type = old.Type /\ s.Ports = old.Ports
        /\ ~c.Spec.UseServiceLoadBalancer => \E i \in Found("Ingress", c.Name) :
            LET old == CI!GenerateIngress(c, c.Name, c.Spec.IngressName, MainIngressAnnotations(c))
                kept == sanitizeIngressAnnotations(old.Annotations)
            IN /\ i.Rules = old.Rules /\ i.TLS = old.TLS
               /\ DOMAIN i.Annotations \subseteq DOMAIN old.Annotations
               /\ \A k \in DOMAIN kept :
                    k \in DOMAIN i.Annotations /\ i.Annotations[k] = kept[k]

(* docs/migration.md: "the Mattermost instance should not experience any   *)
(* downtime".  The database of an installation whose pass is over has the  *)
(* secret with its passwords, before a migration and after it.  It does    *)
(* not: GetOrCreateMySQLSecrets leaves the ClusterInstallation as the      *)
(* owner of the secret, so that it goes with the ClusterInstallation, and  *)
(* the next pass makes up passwords that the database does not know.       *)
DatabaseHasItsSecret ==
    Complete => \A cluster \in Stored("MysqlCluster") :
        Found("Secret", cluster.SecretName) # {}

=============================================================================
