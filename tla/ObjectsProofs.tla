---------------------------- MODULE ObjectsProofs ----------------------------
(***************************************************************************)
(* Proofs about the objects in Manifests, for any specs, edits and objects *)
(* of the users:                                                           *)
(*   SecretsKept       the contents of the secrets are kept;               *)
(*   PodsFound         a deployment selects its own pods and no others;    *)
(*   BlueGreenCleared  blue and green leave nothing behind;                *)
(*   EndpointFound     the health check finds its service or ingress;      *)
(*   HostsServed       the hosts lead to the app and to nothing else;      *)
(*   PatchesReported   the status of the patches tells what is there;      *)
(*   AddressStays      a migrated installation is reached as before;       *)
(*   StoresStay        its database and MinIO stay as they were;           *)
(*   PodsStay          and so do its pods.                                 *)
(*                                                                         *)
(* The first two rest on one invariant, ObjectsInv, about single objects:  *)
(* each is stored under its own kind and name, the labels of a             *)
(* deployment's pods tell which deployment it is, and the secret of MinIO  *)
(* has both keys.  That a pass keeps it follows stage by stage: every      *)
(* object a stage leaves is Safe (most of them because they are neither    *)
(* secrets nor deployments), so that Left, which puts them in the place of *)
(* the objects with their keys, keeps it as well.                          *)
(*                                                                         *)
(* The next four say what the cluster holds after a pass that got through, *)
(* which takes ClusterInv: of each object that goes by an installation's   *)
(* name, what it is labelled with and which names are in use, and that     *)
(* what the last pass asked for is in place.  The last three follow a      *)
(* migration: HandoverInv, StoresInv and PodsInv say what the Mattermost   *)
(* still has of the ClusterInstallation that it was made from.             *)
(***************************************************************************)
EXTENDS ManifestsProofs, FiniteSetTheorems, SequenceTheorems

(* The keys that MinIO needs. *)
MinioKeys == {"accesskey", "secretkey"}

(* A deployment of a ClusterInstallation and of a Mattermost: what its     *)
(* pods are labelled with tells its name, and its selector looks at it.    *)
V1Alpha1Pods(d) ==
    /\ V1Alpha1Keys \subseteq DOMAIN d.Selector
    /\ Matches(d.Selector, d.PodLabels)
    /\ DOMAIN d.PodLabels \cap V1Beta1Keys = {}
    /\ d.PodLabels[CI!ClusterLabel] = d.Name

(* The deployments of a Mattermost, the job server among them. *)
V1Beta1Pods(d) ==
    /\ V1Beta1Keys \cup {"app"} \subseteq DOMAIN d.Selector
    /\ Matches(d.Selector, d.PodLabels)
    /\ DOMAIN d.PodLabels \cap V1Alpha1Keys = {}
    /\ \/ /\ d.PodLabels["app"] = MattermostAppContainerName
          /\ d.Name = d.PodLabels[ClusterLabel]
       \/ /\ d.PodLabels["app"] = MattermostJobServerContainerName
          /\ d.Name = d.PodLabels[ClusterLabel] \o "-jobserver"

(* A deployment of either kind. *)
SelectsOwn(d) ==
    /\ {"Selector", "PodLabels"} \subseteq DOMAIN d
    /\ V1Alpha1Pods(d) \/ V1Beta1Pods(d)

(* An object has a kind and a name, and a deployment selects its own pods. *)
Proper(o) ==
    /\ {"Kind", "Name"} \subseteq DOMAIN o
    /\ o.Kind = "Deployment" => SelectsOwn(o)

(* The objects are stored under their own keys. *)
Keyed == \A k \in DOMAIN objects : Proper(objects[k]) /\ k = Key(objects[k])

(* The secret that MinIO has of an installation of that name is complete. *)
MinioComplete(name) ==
    \A s \in Found("Secret", DefaultMinioSecretName(name)) : MinioKeys \subseteq DOMAIN s.Data

(* The names of the installations. *)
Names == {BaseMattermost.Name, BaseInstallation.Name}

(* What every state has of the objects, and of the specs that they are     *)
(* made from.                                                              *)
ObjectsInv ==
    /\ Keyed
    /\ \A m \in mm : m.Name \in Names /\ MinioComplete(m.Name) /\ MattermostLeaves(m.Spec)
    /\ \A c \in ci : c.Name \in Names /\ MinioComplete(c.Name) /\ InstallationLeaves(c.Spec)

(* An object that a pass may leave: a secret has the data of the one that  *)
(* it replaces, and both keys when it is for MinIO.                        *)
Safe(o, name) ==
    /\ Proper(o)
    /\ o.Kind = "Secret" =>
        /\ \A s \in Found("Secret", o.Name) : o.Data = s.Data /\ o.Drawn = s.Drawn
        /\ o.Name = DefaultMinioSecretName(name) => MinioKeys \subseteq DOMAIN o.Data

(* Nothing but such objects. *)
AllSafe(os, name) == \A o \in os : Safe(o, name)

(* GetOrCreateMySQLSecrets leaves a secret that is there as it is. *)
LEMMA MySQLSecretSafe ==
    ASSUME Keyed, NEW owner, NEW name \in Names
    PROVE  Safe(GetOrCreateMySQLSecrets(owner, name \o "-mysql-root-password"), name)
<1> DEFINE sname == name \o "-mysql-root-password"
           o == GetOrCreateMySQLSecrets(owner, sname)
<1>1. sname # DefaultMinioSecretName(name)
  BY SecretNamesApart DEF Names
<1>2. CASE Found("Secret", sname) = {}
  <2>1. o = createMySQLSecret(owner, sname)
    BY <1>2 DEF GetOrCreateMySQLSecrets, Deref
  <2>2. o.Name = sname /\ Proper(o)
    BY <2>1 DEF createMySQLSecret, NewSecret, Proper
  <2> HIDE DEF o
  <2> QED BY <1>1, <1>2, <2>2 DEF Safe, o
<1>3. CASE Found("Secret", sname) # {}
  <2>1. PICK s : s \in Found("Secret", sname)
    BY <1>3
  <2>2. Found("Secret", sname) = {s} /\ s.Name = sname /\ Proper(s)
    BY <2>1 DEF Found, Keyed, Key
  <2>3. o = s
    BY <1>3, <2>2, DerefOne DEF GetOrCreateMySQLSecrets
  <2> HIDE DEF o
  <2> QED BY <1>1, <2>2, <2>3 DEF Safe, o
<1> QED
  BY <1>2, <1>3

(* CreateOrUpdateMinioSecret keeps the keys of a complete secret. *)
LEMMA MinioSecretSafe ==
    ASSUME Keyed, NEW name, MinioComplete(name),
           NEW desired, desired.Name = DefaultMinioSecretName(name)
    PROVE  Safe(CreateOrUpdateMinioSecret(desired), name)
<1> DEFINE made == NewSecret(desired, MinioKeys)
           current == {s \in Found("Secret", desired.Name) : MinioKeys \subseteq DOMAIN s.Data}
           o == CreateOrUpdateMinioSecret(desired)
<1>1. o = IF current = {} THEN made
          ELSE [made EXCEPT !.Data = Deref(current, made).Data,
                            !.Drawn = Deref(current, made).Drawn]
  BY DEF CreateOrUpdateMinioSecret, MinioKeys
<1>2. /\ made.Kind = "Secret" /\ made.Name = desired.Name /\ Proper(made)
      /\ DOMAIN made.Data = MinioKeys
      /\ IsRecord(made, {"Kind", "Name", "Owner", "Labels", "Data", "Drawn"})
  BY DEF NewSecret, IsRecord, Proper
<1> HIDE DEF made
<1>3. current = Found("Secret", desired.Name)
  BY DEF MinioComplete
<1>4. CASE current = {}
  <2> HIDE DEF o
  <2> QED BY <1>1, <1>2, <1>3, <1>4 DEF Safe, o
<1>5. CASE current # {}
  <2>1. PICK s : s \in current
    BY <1>5
  <2>2. current = {s} /\ MinioKeys \subseteq DOMAIN s.Data
    <3>1. s \in Found("Secret", desired.Name)
      BY <1>3, <2>1
    <3>2. Found("Secret", desired.Name) = {s}
      BY <3>1 DEF Found
    <3> QED BY <1>3, <2>1, <3>2
  <2>3. Deref(current, made) = s
    BY <2>2, DerefOne
  <2>4. o = [made EXCEPT !.Data = s.Data, !.Drawn = s.Drawn]
    BY <1>1, <1>5, <2>3
  <2> HIDE DEF o, current
  <2>5. /\ o.Kind = "Secret" /\ o.Name = desired.Name
        /\ o.Data = s.Data /\ o.Drawn = s.Drawn
        /\ {"Kind", "Name"} \subseteq DOMAIN o
    BY <1>2, <2>4 DEF IsRecord
  <2>6. Proper(o)
    BY <2>5 DEF Proper
  <2> QED BY <1>3, <2>2, <2>5, <2>6 DEF Safe, o
<1> QED
  BY <1>4, <1>5

-----------------------------------------------------------------------------
(* An object that is no secret. *)
NoSecret(o) == Proper(o) /\ o.Kind # "Secret"

(* One that is no deployment either. *)
Other(o) == {"Kind", "Name"} \subseteq DOMAIN o /\ o.Kind \notin {"Secret", "Deployment"}

(* It counts as neither. *)
LEMMA OtherNoSecret ==
    ASSUME NEW o, Other(o)
    PROVE  NoSecret(o)
  BY DEF Other, NoSecret, Proper

(* The service, patched or not, is another object. *)
LEMMA ServiceNoSecret ==
    ASSUME NEW m
    PROVE  \A s \in checkMattermostService(m) : NoSecret(s)
<1> DEFINE new == newServiceV1Beta(m, mergeStringMaps(EmptyMap, m.Spec.ServiceAnnotations))
           g == GenerateServiceV1Beta(m)
<1>1. Other(new)
  BY DEF newServiceV1Beta, Other
<1>2. \/ g = configureMattermostServiceNodePort(new)
      \/ g = configureMattermostLoadBalancerService(new)
      \/ g = configureMattermostService(new)
  BY DEF GenerateServiceV1Beta
<1> HIDE DEF new, g
<1>3. Other(g)
  <2>1. CASE g = configureMattermostServiceNodePort(new)
    BY <1>1, <2>1 DEF configureMattermostServiceNodePort, Other
  <2>2. CASE g = configureMattermostLoadBalancerService(new)
    BY <1>1, <2>2 DEF configureMattermostLoadBalancerService, Other
  <2>3. CASE g = configureMattermostService(new)
    BY <1>1, <2>3 DEF configureMattermostService, Other
  <2> QED BY <1>2, <2>1, <2>2, <2>3
<1>4. Other(ApplyToService(m, g))
  BY <1>3 DEF Other, ApplyToService, applyToService
<1> QED
  BY <1>4, OtherNoSecret DEF checkMattermostService, g

-----------------------------------------------------------------------------
(* The labels of the pods, and what the selectors find. *)

(* The keys of the labels are all different, and the app is not the job    *)
(* server.                                                                 *)
LEMMA KeysApart ==
    /\ V1Alpha1Keys \cap V1Beta1Keys = {}
    /\ "app" \notin V1Alpha1Keys \cup V1Beta1Keys
    /\ ClusterLabel # ClusterResourceLabel
    /\ CI!ClusterLabel # CI!ClusterResourceLabel
    /\ MattermostAppContainerName # MattermostJobServerContainerName
  BY DEF V1Alpha1Keys, V1Beta1Keys, ClusterLabel, ClusterResourceLabel, CI!ClusterLabel,
         CI!ClusterResourceLabel, MattermostAppContainerName, MattermostJobServerContainerName

(* The labels of a Mattermost: the operator writes its own last. *)
LEMMA OwnLabelsWritten ==
    ASSUME NEW user, DOMAIN user \cap V1Alpha1Keys = {}, NEW name, NEW app,
           NEW labels, labels = mergeStringMaps(user, OwnLabels(name, app))
    PROVE  /\ V1Beta1Keys \cup {"app"} \subseteq DOMAIN OwnLabels(name, app)
           /\ V1Beta1Keys \cup {"app"} \subseteq DOMAIN labels
           /\ DOMAIN labels \cap V1Alpha1Keys = {}
           /\ labels["app"] = app
           /\ labels[ClusterLabel] = name
           /\ Matches(OwnLabels(name, app), labels)
           /\ Matches(labels, labels)
<1> DEFINE own == OwnLabels(name, app)
<1>1. DOMAIN own = V1Beta1Keys \cup {"app"}
  BY DEF OwnLabels, V1Beta1Keys
<1>2. own["app"] = app /\ own[ClusterLabel] = name
  BY KeysApart DEF OwnLabels, V1Beta1Keys
<1> HIDE DEF own
<1>3. /\ DOMAIN labels = DOMAIN user \cup DOMAIN own
      /\ \A k \in DOMAIN own : labels[k] = own[k]
  BY DEF mergeStringMaps, own
<1>4. DOMAIN labels \cap V1Alpha1Keys = {}
  BY <1>1, <1>3, KeysApart
<1>5. labels["app"] = app /\ labels[ClusterLabel] = name
  BY <1>1, <1>2, <1>3 DEF V1Beta1Keys
<1>6. Matches(own, labels) /\ Matches(labels, labels)
  BY <1>3 DEF Matches
<1> QED
  BY <1>1, <1>3, <1>4, <1>5, <1>6 DEF own

(* The labels of users have no keys of a ClusterInstallation. *)
LEMMA UserLabelsLeave ==
    ASSUME NEW m, MattermostLeaves(m.Spec)
    PROVE  /\ DOMAIN UserLabels(m) \cap V1Alpha1Keys = {}
           /\ DOMAIN mergeStringMaps(UserLabels(m), ExtraLabels(m)) \cap V1Alpha1Keys = {}
<1>1. DOMAIN EmptyMap = {}
  BY DEF EmptyMap
<1>2. DOMAIN UserLabels(m) \cap V1Alpha1Keys = {}
  <2>1. UserLabels(m) \in m.Spec.ResourceLabels \cup {EmptyMap}
    BY DEF UserLabels, Deref
  <2> QED BY <1>1, <2>1 DEF MattermostLeaves
<1>3. DOMAIN ExtraLabels(m) \cap V1Alpha1Keys = {}
  <2>1. ExtraLabels(m) \in {t.ExtraLabels : t \in m.Spec.PodTemplate} \cup {EmptyMap}
    BY DEF ExtraLabels, Deref
  <2> QED BY <1>1, <2>1 DEF MattermostLeaves
<1>4. DOMAIN mergeStringMaps(UserLabels(m), ExtraLabels(m))
        = DOMAIN UserLabels(m) \cup DOMAIN ExtraLabels(m)
  BY DEF mergeStringMaps
<1> QED
  BY <1>2, <1>3, <1>4

(* A deployment that selects its own pods; a patch does not change that. *)
OwnDeployment(d) ==
    /\ {"Kind", "Name"} \subseteq DOMAIN d
    /\ d.Kind = "Deployment"
    /\ SelectsOwn(d)

(* Selection depends on name, selector and labels only: *)
LEMMA SameSelection ==
    ASSUME NEW d, NEW e, SelectsOwn(d), DOMAIN e = DOMAIN d,
           e.Name = d.Name, e.Selector = d.Selector, e.PodLabels = d.PodLabels
    PROVE  SelectsOwn(e)
  BY DEF SelectsOwn, V1Alpha1Pods, V1Beta1Pods

(* a patch, which is checked for that, leaves them alone. *)
LEMMA PatchedSelection ==
    ASSUME NEW m, NEW d, OwnDeployment(d)
    PROVE  NoSecret(ApplyToDeployment(m, d))
<1> DEFINE e == ApplyToDeployment(m, d)
<1>1. e = d \/ e = [d EXCEPT !.Replicas = {PatchedReplicas}]
  BY DEF ApplyToDeployment, applyToDeployment
<1> HIDE DEF e
<1>2. /\ DOMAIN e = DOMAIN d /\ e.Kind = d.Kind
      /\ e.Name = d.Name /\ e.Selector = d.Selector /\ e.PodLabels = d.PodLabels
  BY <1>1 DEF OwnDeployment, SelectsOwn
<1>3. SelectsOwn(e)
  BY <1>2, SameSelection DEF OwnDeployment
<1> QED
  BY <1>2, <1>3 DEF OwnDeployment, NoSecret, Proper, e

(* The deployment of the app selects its own pods, *)
LEMMA AppSelection ==
    ASSUME NEW m, MattermostLeaves(m.Spec), NEW db, NEW store, NEW host, NEW account, NEW image,
           NEW d, d = GenerateDeploymentV1Beta(m, db, store, m.Name, host, account, image)
    PROVE  OwnDeployment(d)
<1> DEFINE app == MattermostAppContainerName
           user == mergeStringMaps(UserLabels(m), ExtraLabels(m))
<1>1. /\ {"Kind", "Name", "Selector", "PodLabels"} \subseteq DOMAIN d
      /\ d.Kind = "Deployment" /\ d.Name = m.Name
      /\ d.Selector = OwnLabels(m.Name, app)
      /\ d.PodLabels = mergeStringMaps(user, OwnLabels(m.Name, app))
  BY DEF GenerateDeploymentV1Beta, MattermostSelectorLabels, MattermostPodLabels
<1>2. DOMAIN user \cap V1Alpha1Keys = {}
  BY UserLabelsLeave
<1> HIDE DEF app, user
<1>3. /\ V1Beta1Keys \cup {"app"} \subseteq DOMAIN OwnLabels(m.Name, app)
      /\ V1Beta1Keys \cup {"app"} \subseteq DOMAIN d.PodLabels
      /\ DOMAIN d.PodLabels \cap V1Alpha1Keys = {}
      /\ d.PodLabels["app"] = app
      /\ d.PodLabels[ClusterLabel] = m.Name
      /\ Matches(OwnLabels(m.Name, app), d.PodLabels)
      /\ Matches(d.PodLabels, d.PodLabels)
  BY <1>1, <1>2, OwnLabelsWritten
<1>4. V1Beta1Pods(d)
  BY <1>1, <1>3 DEF V1Beta1Pods, app
<1> QED
  BY <1>1, <1>4 DEF OwnDeployment, SelectsOwn

(* the job server by all the labels it gives its pods, *)
LEMMA JobServerSelection ==
    ASSUME NEW m, MattermostLeaves(m.Spec), NEW db, NEW store, NEW host, NEW account, NEW image,
           NEW d, d = GenerateJobServerDeploymentV1Beta(m, db, store, m.Name, host, account, image)
    PROVE  OwnDeployment(d)
<1> DEFINE app == MattermostJobServerContainerName
           user == mergeStringMaps(UserLabels(m), ExtraLabels(m))
           labels == mergeStringMaps(user, OwnLabels(m.Name, app))
           main == GenerateDeploymentV1Beta(m, db, store, m.Name, GetIngressHost(m), m.Name,
                                            GetImageName(m))
<1>1. /\ {"Kind", "Name", "Selector", "PodLabels", "Labels", "Replicas", "App", "Sidecars"}
            \subseteq DOMAIN main
      /\ main.Kind = "Deployment"
  BY DEF GenerateDeploymentV1Beta
<1>2. MattermostJobServerPodLabels(m, m.Name) = labels
  BY DEF MattermostJobServerPodLabels
<1>3. \E b, c, g, h :
        d = [main EXCEPT !.Name = m.Name \o "-jobserver", !.Labels = b, !.Replicas = c,
                         !.PodLabels = labels, !.Selector = labels, !.App = g, !.Sidecars = h]
  BY <1>2 DEF GenerateJobServerDeploymentV1Beta
<1> HIDE DEF app, user, labels, main
<1>4. /\ {"Kind", "Name", "Selector", "PodLabels"} \subseteq DOMAIN d
      /\ d.Kind = "Deployment" /\ d.Name = m.Name \o "-jobserver"
      /\ d.Selector = labels /\ d.PodLabels = labels
  BY <1>1, <1>3
<1>5. DOMAIN user \cap V1Alpha1Keys = {}
  BY UserLabelsLeave DEF user
<1>6. labels = mergeStringMaps(user, OwnLabels(m.Name, app))
  BY DEF labels
<1>7. /\ V1Beta1Keys \cup {"app"} \subseteq DOMAIN OwnLabels(m.Name, app)
      /\ V1Beta1Keys \cup {"app"} \subseteq DOMAIN labels
      /\ DOMAIN labels \cap V1Alpha1Keys = {}
      /\ labels["app"] = app
      /\ labels[ClusterLabel] = m.Name
      /\ Matches(OwnLabels(m.Name, app), labels)
      /\ Matches(labels, labels)
  BY <1>5, <1>6, OwnLabelsWritten
<1>8. V1Beta1Pods(d)
  BY <1>4, <1>7 DEF V1Beta1Pods, app
<1> QED
  BY <1>4, <1>8 DEF OwnDeployment, SelectsOwn

(* The labels of a ClusterInstallation: the operator's, and those of users *)
(* that leave them alone.                                                  *)
LEMMA CILabelsWritten ==
    ASSUME NEW c, InstallationLeaves(c.Spec), NEW name,
           NEW labels, labels = CI!ClusterInstallationLabels(c, name)
    PROVE  /\ Matches(CI!ClusterInstallationSelectorLabels(name), labels)
           /\ DOMAIN labels \cap V1Beta1Keys = {}
           /\ CI!ClusterLabel \in DOMAIN labels
           /\ labels[CI!ClusterLabel] = name
<1> DEFINE own == CI!ClusterInstallationSelectorLabels(name)
<1>2. DOMAIN own = V1Alpha1Keys \cup {"app"} /\ own[CI!ClusterLabel] = name
  BY KeysApart DEF CI!ClusterInstallationSelectorLabels, V1Alpha1Keys
<1>3. PICK user :
        /\ labels = mergeStringMaps(own, user)
        /\ DOMAIN user \cap (V1Alpha1Keys \cup V1Beta1Keys \cup {"app"}) = {}
  <2> DEFINE bg == c.Spec.BlueGreen
             user == CASE ~bg.Enable -> CI!Deref(c.Spec.ResourceLabels, CI!EmptyMap)
                       [] bg.Enable /\ bg.ProductionDeployment = CI!BlueName ->
                            bg.Blue.ResourceLabels
                       [] bg.Enable /\ bg.ProductionDeployment = CI!GreenName ->
                            bg.Green.ResourceLabels
                       [] OTHER -> CI!EmptyMap
  <2>1. labels = CI!mergeStringMaps(own, user)
    BY DEF CI!ClusterInstallationLabels
  <2>2. CI!mergeStringMaps(own, user) = mergeStringMaps(own, user)
    BY DEF CI!mergeStringMaps, mergeStringMaps
  <2>3. CI!Deref(c.Spec.ResourceLabels, CI!EmptyMap) \in c.Spec.ResourceLabels \cup {CI!EmptyMap}
    BY DEF CI!Deref
  <2>4. user \in c.Spec.ResourceLabels
                \cup {CI!EmptyMap, bg.Blue.ResourceLabels, bg.Green.ResourceLabels}
    BY <2>3
  <2>5. DOMAIN CI!EmptyMap = {}
    BY DEF CI!EmptyMap
  <2> HIDE DEF user
  <2>6. DOMAIN user \cap (V1Alpha1Keys \cup V1Beta1Keys \cup {"app"}) = {}
    BY <2>4, <2>5 DEF InstallationLeaves
  <2> QED BY <2>1, <2>2, <2>6
<1> HIDE DEF own
<1>4. /\ DOMAIN labels = DOMAIN own \cup DOMAIN user
      /\ \A k \in DOMAIN own : labels[k] = own[k]
  BY <1>2, <1>3 DEF mergeStringMaps
<1>5. Matches(own, labels)
  BY <1>4 DEF Matches
<1>6. DOMAIN labels \cap V1Beta1Keys = {}
  BY <1>2, <1>3, <1>4, KeysApart
<1>7. CI!ClusterLabel \in DOMAIN labels /\ labels[CI!ClusterLabel] = name
  BY <1>2, <1>4 DEF V1Alpha1Keys
<1> QED
  BY <1>5, <1>6, <1>7 DEF own

(* and so does a deployment of a ClusterInstallation. *)
LEMMA CISelection ==
    ASSUME NEW c, InstallationLeaves(c.Spec), NEW info, NEW name, NEW host, NEW account,
           NEW image, NEW url,
           NEW d, d = CI!GenerateDeployment(c, info, name, host, account, image, url)
    PROVE  NoSecret(d)
<1>1. /\ {"Kind", "Name", "Selector", "PodLabels"} \subseteq DOMAIN d
      /\ d.Kind = "Deployment" /\ d.Name = name
      /\ d.Selector = CI!ClusterInstallationSelectorLabels(name)
      /\ d.PodLabels = CI!ClusterInstallationLabels(c, name)
  BY DEF CI!GenerateDeployment
<1>2. /\ Matches(CI!ClusterInstallationSelectorLabels(name), d.PodLabels)
      /\ DOMAIN d.PodLabels \cap V1Beta1Keys = {}
      /\ CI!ClusterLabel \in DOMAIN d.PodLabels
      /\ d.PodLabels[CI!ClusterLabel] = name
  BY <1>1, CILabelsWritten
<1>3. V1Alpha1Keys \subseteq DOMAIN d.Selector
  BY <1>1 DEF CI!ClusterInstallationSelectorLabels, V1Alpha1Keys
<1>4. V1Alpha1Pods(d)
  BY <1>1, <1>2, <1>3 DEF V1Alpha1Pods
<1> QED
  BY <1>1, <1>4 DEF NoSecret, Proper, SelectsOwn

-----------------------------------------------------------------------------
(* All that checkMattermost leaves is of another kind. *)
LEMMA AppNoSecret ==
    ASSUME NEW m, MattermostLeaves(m.Spec), NEW db, NEW store
    PROVE  \A o \in checkMattermost(m, db, store) : NoSecret(o)
<1>1. \A o \in checkMattermostRBAC(m) : NoSecret(o)
  BY DEF checkMattermostRBAC, checkMattermostSA, GenerateServiceAccountV1Beta, GenerateRoleV1Beta,
         GenerateRoleBindingV1Beta, Bare, NoSecret, Proper
<1>2. \A o \in checkMattermostIngressClass(m) : NoSecret(o)
  BY DEF checkMattermostIngressClass, GenerateALBIngressClassV1Beta, NoSecret, Proper
<1>3. \A o \in checkMattermostIngress(m) : NoSecret(o)
  <2>1. NoSecret(GenerateALBIngressV1Beta(m))
    BY DEF GenerateALBIngressV1Beta, NoSecret, Proper
  <2>2. NoSecret(GenerateIngressV1Beta(m))
    BY DEF GenerateIngressV1Beta, NoSecret, Proper
  <2> QED BY <2>1, <2>2 DEF checkMattermostIngress
<1>4. \A o \in checkMattermostDeployment(m, db, store) : NoSecret(o)
  <2>1. PICK d : d = GenerateDeploymentV1Beta(m, db, store, m.Name, GetIngressHost(m), m.Name,
                                              GetImageName(m))
    OBVIOUS
  <2>2. OwnDeployment(d)
    BY <2>1, AppSelection
  <2> QED BY <2>1, <2>2, PatchedSelection DEF checkMattermostDeployment
<1>5. \A o \in checkMattermostJobServer(m, db, store) : NoSecret(o)
  <2>1. PICK d : d = GenerateJobServerDeploymentV1Beta(m, db, store, m.Name, GetIngressHost(m),
                                                       m.Name, GetImageName(m))
    OBVIOUS
  <2>2. OwnDeployment(d)
    BY <2>1, JobServerSelection
  <2> QED BY <2>1, <2>2, PatchedSelection DEF checkMattermostJobServer
<1> QED
  BY <1>1, <1>2, <1>3, <1>4, <1>5, ServiceNoSecret DEF checkMattermost

(* Everything that a pass over a Mattermost leaves is safe. *)
LEMMA DatabaseSafe ==
    ASSUME Keyed, NEW m, m.Name \in Names
    PROVE  AllSafe(checkDatabase(m).ensured, m.Name)
<1> DEFINE secret == GetOrCreateMySQLSecrets(OwnedBy(m), m.Name \o "-mysql-root-password")
<1>1. Safe(secret, m.Name)
  BY MySQLSecretSafe
<1>2. Safe(ClusterV1Beta(m), m.Name)
  BY DEF Safe, Proper, ClusterV1Beta
<1>3. checkDatabase(m).ensured \in {{}, {ClusterV1Beta(m), secret}}
  BY DEF checkDatabase, checkOperatorManagedMySQL, Stage
<1> HIDE DEF secret
<1> QED
  BY <1>1, <1>2, <1>3 DEF AllSafe

(* The four kinds of file store. *)
LEMMA FileStoreSafe ==
    ASSUME Keyed, NEW m, MinioComplete(m.Name)
    PROVE  AllSafe(checkFileStore(m).ensured, m.Name)
<1>1. \A o \in checkLocalFileStore(m).ensured : NoSecret(o)
  <2> DEFINE local == Deref(m.Spec.FileStore.Local, Unset)
             current == Found("PersistentVolumeClaim", m.Name)
             modes == determineAccessModes(local, current)
             size == OrDefault(local.StorageSize, DefaultStorageSize)
             claim == [Kind |-> "PersistentVolumeClaim", Name |-> m.Name, Owner |-> OwnedBy(m),
                       Labels |-> MattermostLabels(m, m.Name), AccessModes |-> modes,
                       Storage |-> size, Phase |-> "Pending"]
             updated == {[claim EXCEPT !.Phase = c.Phase,
                                       !.Owner = IF c.Storage = size THEN c.Owner ELSE Nobody] :
                            c \in current}
  <2>1. checkLocalFileStore(m).ensured \in {{}, {Deref(updated, claim)}}
    BY DEF checkLocalFileStore, Stage
  <2>2. Other(claim)
    BY DEF Other
  <2> HIDE DEF claim
  <2>3. \A u \in updated : Other(u)
    BY <2>2 DEF Other
  <2> HIDE DEF updated
  <2>4. Deref(updated, claim) \in updated \cup {claim}
    BY DEF Deref
  <2> QED BY <2>1, <2>2, <2>3, <2>4, OtherNoSecret
<1>2. checkExternalFileStore(m).ensured = {} /\ checkExternalVolumeFileStore(m).ensured = {}
  BY DEF checkExternalFileStore, checkExternalVolumeFileStore, Stage
<1>3. AllSafe(checkOperatorManagedMinio(m).ensured, m.Name)
  <2> DEFINE secret == CreateOrUpdateMinioSecret(SecretV1Beta(m))
  <2>1. Safe(secret, m.Name)
    <3>1. SecretV1Beta(m).Name = DefaultMinioSecretName(m.Name)
      BY DEF SecretV1Beta
    <3> QED BY <3>1, MinioSecretSafe
  <2>2. Safe(InstanceV1Beta(m), m.Name)
    BY DEF Safe, Proper, InstanceV1Beta, newMinioInstance
  <2>3. checkOperatorManagedMinio(m).ensured = {secret, InstanceV1Beta(m)}
    BY DEF checkOperatorManagedMinio, Stage
  <2> HIDE DEF secret
  <2> QED BY <2>1, <2>2, <2>3 DEF AllSafe
<1>4. checkFileStore(m) \in {checkExternalFileStore(m), checkExternalVolumeFileStore(m),
                             checkLocalFileStore(m), checkOperatorManagedMinio(m)}
  BY DEF checkFileStore
<1> QED
  BY <1>1, <1>2, <1>3, <1>4 DEF AllSafe, Safe, NoSecret, Proper

-----------------------------------------------------------------------------
(* The same of a pass over a ClusterInstallation. *)
LEMMA CIServiceNoSecret ==
    ASSUME NEW c, NEW name, NEW selector
    PROVE  NoSecret(CI!GenerateService(c, name, selector))
<1>1. \A a : Other(CI!newService(c, name, selector, a))
  BY DEF CI!newService, Other
<1>2. \A s : Other(s) => Other(CI!configureMattermostLoadBalancerService(s))
  BY DEF CI!configureMattermostLoadBalancerService, Other
<1>3. \A s : Other(s) => Other(CI!configureMattermostService(s))
  BY DEF CI!configureMattermostService, Other
<1> QED
  BY <1>1, <1>2, <1>3, OtherNoSecret DEF CI!GenerateService

(* The ingress is another object, *)
LEMMA CIIngressNoSecret ==
    ASSUME NEW c, NEW name, NEW ingressName, NEW annotations
    PROVE  NoSecret(CI!GenerateIngress(c, name, ingressName, annotations))
  BY DEF CI!GenerateIngress, NoSecret, Proper

(* and so is all that is in front of a deployment. *)
LEMMA FrontNoSecret ==
    ASSUME NEW c, NEW name, NEW ingressName, NEW annotations, NEW withIngress
    PROVE  \A o \in FrontOf(c, name, ingressName, annotations, withIngress) : NoSecret(o)
  BY CIServiceNoSecret, CIIngressNoSecret DEF FrontOf

(* Objects of other kinds are safe beside those that are. *)
LEMMA SafeBeside ==
    ASSUME NEW others, \A o \in others : NoSecret(o), NEW os, NEW name, AllSafe(os, name)
    PROVE  AllSafe(others \cup os, name)
  BY DEF AllSafe, Safe, NoSecret, Proper

(* The secret that comes with a deployment is kept, and the deployment     *)
(* selects its own pods.                                                   *)
LEMMA CIDeploymentSafe ==
    ASSUME Keyed, NEW c, c.Name \in Names, InstallationLeaves(c.Spec), NEW name, NEW ingressName, NEW image
    PROVE  AllSafe(checkCIDeployment(c, name, ingressName, image).ensured, c.Name)
<1> DEFINE own == GetOrCreateMySQLSecrets(CI!ClusterInstallationOwnerReference(c),
                                          CI!DefaultDatabaseSecretName(c.Name))
           stage == checkCIDeployment(c, name, ingressName, image)
<1>1. Safe(own, c.Name)
  BY MySQLSecretSafe DEF CI!DefaultDatabaseSecretName
<1>2. \A i, url : NoSecret(CI!GenerateDeployment(c, i, name, ingressName, c.Name, image, url))
  BY CISelection
<1> HIDE DEF own
<1>3. \A o \in stage.ensured : o = own \/ \E i, url :
            o = CI!GenerateDeployment(c, i, name, ingressName, c.Name, image, url)
  BY DEF checkCIDeployment, Stage, own
<1> HIDE DEF stage
<1>4. \A o \in stage.ensured : Safe(o, c.Name)
  BY <1>1, <1>2, <1>3 DEF Safe, NoSecret, Proper
<1> QED
  BY <1>4 DEF AllSafe, stage

(* The database of a ClusterInstallation is another object. *)
LEMMA CIDatabaseSafe ==
    ASSUME NEW c
    PROVE  AllSafe(checkCIDatabase(c).ensured, c.Name)
<1>1. checkCIDatabase(c).ensured \in {{}, {CI!Cluster(c)}}
  BY DEF checkCIDatabase, Stage
<1>2. NoSecret(CI!Cluster(c))
  BY DEF CI!Cluster, NoSecret, Proper
<1> QED
  BY <1>1, <1>2 DEF AllSafe, Safe, NoSecret, Proper

(* Its secret for MinIO is kept. *)
LEMMA CIMinioSafe ==
    ASSUME Keyed, NEW c, MinioComplete(c.Name)
    PROVE  AllSafe(checkMinio(c).ensured, c.Name)
<1> DEFINE secret == CreateOrUpdateMinioSecret(CI!Secret(c))
<1>1. CI!Secret(c).Name = DefaultMinioSecretName(c.Name)
  BY DEF CI!Secret, CI!GenerateSecret, CI!DefaultMinioSecretName, DefaultMinioSecretName
<1>2. Safe(secret, c.Name)
  BY <1>1, MinioSecretSafe
<1>3. checkMinioSecret(c).ensured \in {{}, {secret}}
  BY DEF checkMinioSecret, Stage
<1> HIDE DEF secret
<1>4. NoSecret(CI!Instance(c))
  BY DEF CI!Instance, CI!newMinioInstance, NoSecret, Proper
<1>5. checkMinio(c).ensured \subseteq checkMinioSecret(c).ensured \cup {CI!Instance(c)}
  BY DEF checkMinio, Stage
<1> QED
  BY <1>2, <1>3, <1>4, <1>5 DEF AllSafe, Safe, NoSecret, Proper

(* The service, the ingress, the account and the one deployment. *)
LEMMA CIMattermostSafe ==
    ASSUME Keyed, NEW c, c.Name \in Names, InstallationLeaves(c.Spec)
    PROVE  AllSafe(checkCIMattermost(c).ensured, c.Name)
<1> DEFINE common == {CI!GenerateService(c, c.Name, CI!GetProductionDeploymentName(c)),
                      CI!GenerateServiceAccount(c, c.Name), CI!GenerateRole(c, c.Name),
                      CI!GenerateRoleBinding(c, c.Name, c.Name)}
                     \cup IF c.Spec.UseServiceLoadBalancer THEN {}
                          ELSE {CI!GenerateIngress(c, c.Name, c.Spec.IngressName,
                                                   MainIngressAnnotations(c))}
           main == checkCIDeployment(c, c.Name, c.Spec.IngressName, CI!GetImageName(c))
<1>1. \A o \in common : NoSecret(o)
  <2>1. NoSecret(CI!GenerateServiceAccount(c, c.Name))
    BY DEF CI!GenerateServiceAccount, NoSecret, Proper
  <2>2. NoSecret(CI!GenerateRole(c, c.Name))
    BY DEF CI!GenerateRole, NoSecret, Proper
  <2>3. NoSecret(CI!GenerateRoleBinding(c, c.Name, c.Name))
    BY DEF CI!GenerateRoleBinding, NoSecret, Proper
  <2> QED BY <2>1, <2>2, <2>3, CIServiceNoSecret, CIIngressNoSecret
<1>2. AllSafe(main.ensured, c.Name)
  BY CIDeploymentSafe
<1>3. checkCIMattermost(c).ensured \subseteq common \cup main.ensured
  BY DEF checkCIMattermost, Stage
<1> HIDE DEF common, main
<1> QED
  BY <1>1, <1>2, <1>3 DEF AllSafe, Safe, NoSecret, Proper

(* Blue and green, *)
LEMMA BlueGreenSafe ==
    ASSUME Keyed, NEW c, c.Name \in Names, InstallationLeaves(c.Spec)
    PROVE  AllSafe(checkBlueGreen(c).ensured, c.Name)
<1> DEFINE One(d) == LET one == checkCIDeployment(c, d.Name, d.IngressName,
                                                  CI!GetDeploymentImageName(d))
                     IN Stage(FrontOf(c, d.Name, d.IngressName, c.Spec.IngressAnnotations,
                                      ~c.Spec.UseServiceLoadBalancer) \cup one.ensured, one.result)
           blue == One(c.Spec.BlueGreen.Blue)
           green == One(c.Spec.BlueGreen.Green)
<1>1. ASSUME NEW d PROVE AllSafe(One(d).ensured, c.Name)
  <2> DEFINE one == checkCIDeployment(c, d.Name, d.IngressName, CI!GetDeploymentImageName(d))
             front == FrontOf(c, d.Name, d.IngressName, c.Spec.IngressAnnotations,
                              ~c.Spec.UseServiceLoadBalancer)
  <2>1. AllSafe(one.ensured, c.Name)
    BY CIDeploymentSafe
  <2>2. \A o \in front : NoSecret(o)
    BY FrontNoSecret
  <2>3. One(d).ensured = front \cup one.ensured
    BY DEF Stage
  <2> HIDE DEF one, front, One
  <2> QED BY <2>1, <2>2, <2>3, SafeBeside
<1>2. AllSafe(blue.ensured, c.Name) /\ AllSafe(green.ensured, c.Name)
  BY <1>1
<1>3. checkBlueGreen(c).ensured \in {{}, blue.ensured, blue.ensured \cup green.ensured}
  BY DEF checkBlueGreen, Stage
<1> HIDE DEF blue, green
<1> QED
  BY <1>2, <1>3 DEF AllSafe

(* and the canary. *)
LEMMA CanarySafe ==
    ASSUME Keyed, NEW c, c.Name \in Names, InstallationLeaves(c.Spec)
    PROVE  AllSafe(checkCanary(c).ensured, c.Name)
<1> DEFINE d == c.Spec.Canary.Deployment
           cookie == [k \in {ingressClassAnnotation, "nginx.ingress.kubernetes.io/canary",
                             "nginx.ingress.kubernetes.io/canary-by-cookie"} |-> Plain("canary")]
           one == checkCIDeployment(c, d.Name, c.Spec.IngressName, CI!GetDeploymentImageName(d))
           front == FrontOf(c, d.Name, c.Spec.IngressName, cookie, TRUE)
<1>1. AllSafe(one.ensured, c.Name)
  BY CIDeploymentSafe
<1>2. \A o \in front : NoSecret(o)
  BY FrontNoSecret
<1>3. checkCanary(c).ensured \in {{}, front \cup one.ensured}
  BY DEF checkCanary, Stage
<1> HIDE DEF one, front
<1> QED
  BY <1>1, <1>2, <1>3, SafeBeside DEF AllSafe

-----------------------------------------------------------------------------
(* The secrets that are there keep their contents. *)
Kept ==
    \A k \in DOMAIN objects : objects[k].Kind = "Secret" =>
        k \in DOMAIN objects' /\ objects'[k].Data = objects[k].Data
        /\ objects'[k].Drawn = objects[k].Drawn

(* A pass that leaves safe objects and deletes none of the secrets keeps   *)
(* them, and the secret of MinIO stays complete.                           *)
LEMMA LeftKeeps ==
    ASSUME Keyed, NEW name, MinioComplete(name), NEW ensured, AllSafe(ensured, name),
           NEW removed, \A k \in removed : k[1] # "Secret",
           objects' = Left(ensured, removed)
    PROVE  Kept /\ Keyed' /\ MinioComplete(name)'
<1> DEFINE written == {o \in ensured : ~Refused(o)}
           keys == {Key(o) : o \in written}
<1>1. /\ DOMAIN objects' = (DOMAIN objects \cup keys) \ removed
      /\ \A k \in DOMAIN objects' :
            objects'[k] = IF k \in keys THEN Store(written)[k] ELSE objects[k]
  BY DEF Left, Restrict, mergeStringMaps, Store
<1>2. \A k \in keys : Store(written)[k] \in written /\ Key(Store(written)[k]) = k
  BY DEF Store
<1>3. written \subseteq ensured
  OBVIOUS
<1> HIDE DEF written, keys
<1>4. Kept
  <2> SUFFICES ASSUME NEW k \in DOMAIN objects, objects[k].Kind = "Secret"
               PROVE  /\ k \in DOMAIN objects'
                      /\ objects'[k].Data = objects[k].Data
                      /\ objects'[k].Drawn = objects[k].Drawn
    BY DEF Kept
  <2>1. k = <<"Secret", objects[k].Name>>
    BY DEF Keyed, Key
  <2>2. k \in DOMAIN objects'
    BY <1>1, <2>1
  <2>3. CASE k \in keys
    <3> DEFINE o == Store(written)[k]
    <3>1. o \in ensured /\ Key(o) = k
      BY <1>2, <1>3, <2>3
    <3>2. o.Kind = "Secret" /\ o.Name = objects[k].Name
      BY <2>1, <3>1 DEF Key
    <3>3. objects[k] \in Found("Secret", o.Name)
      BY <2>1, <3>2 DEF Found
    <3>4. objects'[k] = o
      BY <1>1, <2>2, <2>3
    <3> HIDE DEF o
    <3> QED BY <2>2, <3>1, <3>2, <3>3, <3>4 DEF AllSafe, Safe, Proper
  <2>4. CASE k \notin keys
    BY <1>1, <2>2, <2>4
  <2> QED BY <2>3, <2>4
<1>5. Keyed'
  <2>1. \A k \in keys : Proper(Store(written)[k])
    BY <1>2, <1>3 DEF AllSafe, Safe
  <2> QED BY <1>1, <1>2, <2>1 DEF Keyed
<1>6. MinioComplete(name)'
  <2> SUFFICES ASSUME <<"Secret", DefaultMinioSecretName(name)>> \in DOMAIN objects'
               PROVE  MinioKeys \subseteq DOMAIN objects'[<<"Secret", DefaultMinioSecretName(name)>>].Data
    BY DEF MinioComplete, Found
  <2> DEFINE k == <<"Secret", DefaultMinioSecretName(name)>>
  <2>1. CASE k \in keys
    <3> DEFINE o == Store(written)[k]
    <3>1. o \in ensured /\ Key(o) = k
      BY <1>2, <1>3, <2>1
    <3>2. o.Kind = "Secret" /\ o.Name = DefaultMinioSecretName(name)
      BY <3>1 DEF Key
    <3>3. objects'[k] = o
      BY <1>1, <2>1
    <3> HIDE DEF o
    <3> QED BY <3>1, <3>2, <3>3 DEF AllSafe, Safe, Proper
  <2>2. CASE k \notin keys
    <3>1. k \in DOMAIN objects /\ objects'[k] = objects[k]
      BY <1>1, <2>2
    <3>2. objects[k] \in Found("Secret", DefaultMinioSecretName(name))
      BY <3>1 DEF Found
    <3> QED BY <3>1, <3>2 DEF MinioComplete
  <2> QED BY <2>1, <2>2
<1> QED
  BY <1>4, <1>5, <1>6

-----------------------------------------------------------------------------
(* The labels of users still leave those of the operator alone when a pass *)
(* has filled in the spec, when a migration has converted it, and when     *)
(* users have changed it.                                                  *)
LEMMA NormalisedLeaves ==
    ASSUME NEW m, Shaped(m), MattermostLeaves(m.Spec), NEW n, n = Normalised(m)
    PROVE  MattermostLeaves(n.Spec)
<1>1. /\ Shaped(n)
      /\ Settled(n)
      /\ n.Name = m.Name
      /\ \A f \in SpecFields \ FilledIn : n.Spec[f] = m.Spec[f]
  BY NormalisedSettled
<1>2. n.Spec.ResourceLabels = m.Spec.ResourceLabels /\ n.Spec.PodTemplate = m.Spec.PodTemplate
  BY <1>1 DEF SpecFields, FilledIn
<1> QED
  BY <1>2 DEF MattermostLeaves

(* The same of a ClusterInstallation: blue and green keep their labels. *)
LEMMA CINormalisedLeaves ==
    ASSUME NEW c, CIShaped(c), InstallationLeaves(c.Spec), NEW n, n = CINormalised(c)
    PROVE  InstallationLeaves(n.Spec)
<1>1. /\ CIShaped(n)
      /\ CISettled(n)
      /\ CI!SetDefaultsFails(n) = CI!SetDefaultsFails(c)
      /\ n.Name = c.Name
      /\ \A f \in CISpecFields \ CIFilledIn : n.Spec[f] = c.Spec[f]
      /\ n.Spec.BlueGreen = CI!BlueGreenSetDefaults(c.Spec.BlueGreen, c)
  BY CINormalisedSettled
<1>2. n.Spec.ResourceLabels = c.Spec.ResourceLabels
  BY <1>1 DEF CISpecFields, CIFilledIn
<1>3. PICK bg : bg = c.Spec.BlueGreen
  OBVIOUS
<1>4. ShapedBlueGreen(bg)
  BY <1>3 DEF CIShaped
<1>5. /\ CI!BlueGreenSetDefaults(bg, c).Blue.ResourceLabels = bg.Blue.ResourceLabels
      /\ CI!BlueGreenSetDefaults(bg, c).Green.ResourceLabels = bg.Green.ResourceLabels
  BY <1>4 DEF CI!BlueGreenSetDefaults, ShapedBlueGreen, IsRecord, AppFields
<1> QED
  BY <1>1, <1>2, <1>3, <1>5 DEF InstallationLeaves

(* A migration takes the labels over, *)
LEMMA ConvertedLeaves ==
    ASSUME NEW c, InstallationLeaves(c.Spec), NEW secret, NEW m \in ConvertToMM(c, secret)
    PROVE  MattermostLeaves(m.Spec)
<1>1. m.Spec.ResourceLabels = c.Spec.ResourceLabels /\ m.Spec.PodTemplate = {}
  BY DEF ConvertToMM
<1> QED
  BY <1>1 DEF InstallationLeaves, MattermostLeaves

(* and stores the new ones with them. *)
LEMMA LabelledLeaves ==
    ASSUME NEW m, Shaped(m), MattermostLeaves(m.Spec),
           NEW n, n = [m EXCEPT !.Spec.ResourceLabels = {MattermostLabels(m, m.Name) : l \in @}]
    PROVE  MattermostLeaves(n.Spec)
<1> DEFINE new == {MattermostLabels(m, m.Name) : l \in m.Spec.ResourceLabels}
<1>1. n = [m EXCEPT !.Spec.ResourceLabels = new]
  OBVIOUS
<1> HIDE DEF new
<1>2. /\ IsRecord(m, {"Name", "Spec"})
      /\ IsRecord(m.Spec, SpecFields)
  BY DEF Shaped
<1>3. n.Spec = [m.Spec EXCEPT !.ResourceLabels = new]
  BY <1>1, <1>2 DEF IsRecord
<1>4. n.Spec.ResourceLabels = new /\ n.Spec.PodTemplate = m.Spec.PodTemplate
  BY <1>2, <1>3 DEF IsRecord, SpecFields
<1>5. DOMAIN MattermostLabels(m, m.Name) \cap V1Alpha1Keys = {}
  <2>1. DOMAIN UserLabels(m) \cap V1Alpha1Keys = {}
    BY UserLabelsLeave
  <2>2. PICK labels : labels = MattermostLabels(m, m.Name)
    OBVIOUS
  <2>3. labels = mergeStringMaps(UserLabels(m), OwnLabels(m.Name, MattermostAppContainerName))
    BY <2>2 DEF MattermostLabels
  <2>4. DOMAIN labels \cap V1Alpha1Keys = {}
    BY <2>1, <2>3, OwnLabelsWritten
  <2> QED BY <2>2, <2>4
<1> QED
  BY <1>4, <1>5 DEF MattermostLeaves, new

(* Users write labels that leave those of the operator alone. *)
LEMMA EditLeaves ==
    ASSUME NEW m, Shaped(m), MattermostLeaves(m.Spec), NEW f \in DOMAIN MattermostChoices,
           NEW v \in MattermostChoices[f], NEW n, n = [m EXCEPT !.Spec[f] = v]
    PROVE  MattermostLeaves(n.Spec)
<1>1. PICK b : b = [BaseMattermost.Spec EXCEPT ![f] = v]
  OBVIOUS
<1>2. MattermostLeaves(b)
  BY <1>1, LabelsLeftAlone
<1>3. Shaped(BaseMattermost)
  BY SpecsTyped, TypedShaped
<1>4. f \in SpecFields
  BY ChoiceFields
<1>5. IsRecord(m, {"Name", "Spec"}) /\ IsRecord(m.Spec, SpecFields)
  BY DEF Shaped
<1>6. IsRecord(BaseMattermost.Spec, SpecFields)
  BY <1>3 DEF Shaped
<1>7. n.Spec = [m.Spec EXCEPT ![f] = v]
  BY <1>5 DEF IsRecord
<1>8. /\ n.Spec[f] = v /\ b[f] = v
      /\ \A g \in SpecFields \ {f} : n.Spec[g] = m.Spec[g]
  BY <1>1, <1>4, <1>5, <1>6, <1>7 DEF IsRecord
<1>9. /\ n.Spec.ResourceLabels \in {m.Spec.ResourceLabels, b.ResourceLabels}
      /\ n.Spec.PodTemplate \in {m.Spec.PodTemplate, b.PodTemplate}
  BY <1>4, <1>8 DEF SpecFields
<1> QED
  BY <1>2, <1>9 DEF MattermostLeaves

(* The same of a ClusterInstallation. *)
LEMMA EditCILeaves ==
    ASSUME NEW c, CIShaped(c), InstallationLeaves(c.Spec), NEW f \in DOMAIN InstallationChoices,
           NEW v \in InstallationChoices[f], NEW n, n = [c EXCEPT !.Spec[f] = v]
    PROVE  InstallationLeaves(n.Spec)
<1>1. PICK b : b = [BaseInstallation.Spec EXCEPT ![f] = v]
  OBVIOUS
<1>2. InstallationLeaves(b)
  BY <1>1, LabelsLeftAlone
<1>3. CIShaped(BaseInstallation)
  BY SpecsTyped, CITypedShaped
<1>4. f \in CISpecFields
  BY ChoiceFields
<1>5. IsRecord(c, {"Name", "Spec"}) /\ IsRecord(c.Spec, CISpecFields)
  BY DEF CIShaped
<1>6. IsRecord(BaseInstallation.Spec, CISpecFields)
  BY <1>3 DEF CIShaped
<1>7. n.Spec = [c.Spec EXCEPT ![f] = v]
  BY <1>5 DEF IsRecord
<1>8. /\ n.Spec[f] = v /\ b[f] = v
      /\ \A g \in CISpecFields \ {f} : n.Spec[g] = c.Spec[g]
  BY <1>1, <1>4, <1>5, <1>6, <1>7 DEF IsRecord
<1>9. /\ n.Spec.ResourceLabels \in {c.Spec.ResourceLabels, b.ResourceLabels}
      /\ n.Spec.BlueGreen \in {c.Spec.BlueGreen, b.BlueGreen}
  BY <1>4, <1>8 DEF CISpecFields
<1> QED
  BY <1>2, <1>9 DEF InstallationLeaves

-----------------------------------------------------------------------------
(* The objects of users are as the invariant says. *)
LEMMA ObjectsInvInit == Init => ObjectsInv
<1> SUFFICES ASSUME Init PROVE ObjectsInv
  OBVIOUS
<1>1. DOMAIN objects = {Key(o) : o \in UserObjects}
  BY DEF Init, Store
<1>2. \A k \in DOMAIN objects : objects[k] \in UserObjects /\ Key(objects[k]) = k
  BY <1>1 DEF Init, Store
<1>3. ASSUME NEW name \in Names PROVE MinioComplete(name)
  <2> SUFFICES ASSUME NEW s \in Found("Secret", DefaultMinioSecretName(name))
               PROVE  MinioKeys \subseteq DOMAIN s.Data
    BY DEF MinioComplete
  <2>1. /\ <<"Secret", DefaultMinioSecretName(name)>> \in DOMAIN objects
        /\ s = objects[<<"Secret", DefaultMinioSecretName(name)>>]
    BY DEF Found
  <2>2. s \in UserObjects /\ s.Kind = "Secret" /\ s.Name = DefaultMinioSecretName(name)
    BY <1>2, <2>1 DEF Key
  <2> QED BY <2>2, MinioSecretsComplete DEF MinioKeys, Names
<1>4. Keyed
  BY <1>2, UserObjectsNamed DEF Keyed, Proper
<1>5. (mm = {BaseMattermost} /\ ci = {}) \/ (mm = {} /\ ci = {BaseInstallation})
  BY DEF Init
<1> QED
  BY <1>3, <1>4, <1>5, LabelsLeftAlone DEF ObjectsInv, Names

(* A pass over a Mattermost leaves what its stages ask for, as far as it   *)
(* gets.                                                                   *)
LEMMA MattermostPass ==
    ASSUME ReconcileMattermost
    PROVE  \E old \in mm : \E m, prepared, app, removed :
            /\ m = Normalised(old)
            /\ mm' = {m} /\ ci' = ci
            /\ prepared \subseteq checkDatabase(m).ensured \cup checkFileStore(m).ensured
            /\ app = {} \/ \E db, store : app = checkMattermost(m, db, store)
            /\ removed \subseteq Unwanted(m)
            /\ objects' = Left(prepared \cup app, removed)
<1>1. PICK old \in mm :
        /\ mm' = {Normalised(old)}
        /\ ci' = ci
        /\ \E app, ok :
            /\ app = {} \/ \E db, store : app = checkMattermost(Normalised(old), db, store)
            /\ \/ objects' = Left(checkDatabase(Normalised(old)).ensured \cup {} \cup app,
                                  IF ok THEN Unwanted(Normalised(old)) ELSE {})
               \/ objects' = Left(checkDatabase(Normalised(old)).ensured
                                    \cup checkFileStore(Normalised(old)).ensured \cup app,
                                  IF ok THEN Unwanted(Normalised(old)) ELSE {})
  BY DEF ReconcileMattermost
<1>2. PICK m : m = Normalised(old)
  OBVIOUS
<1>3. PICK app, ok, prepared :
        /\ app = {} \/ \E db, store : app = checkMattermost(m, db, store)
        /\ prepared \subseteq checkDatabase(m).ensured \cup checkFileStore(m).ensured
        /\ objects' = Left(prepared \cup app, IF ok THEN Unwanted(m) ELSE {})
  BY <1>1, <1>2
<1>4. PICK removed : removed = IF ok THEN Unwanted(m) ELSE {}
  OBVIOUS
<1>5. removed \subseteq Unwanted(m) /\ objects' = Left(prepared \cup app, removed)
  BY <1>3, <1>4
<1> QED
  BY <1>1, <1>2, <1>3, <1>5

(* It keeps the secrets and the invariant. *)
LEMMA ObjectsOfPass ==
    ASSUME SpecInv, ObjectsInv, ReconcileMattermost
    PROVE  Kept /\ ObjectsInv'
<1>1. PICK old, m, prepared, app, removed :
        /\ old \in mm
        /\ m = Normalised(old)
        /\ mm' = {m} /\ ci' = ci
        /\ prepared \subseteq checkDatabase(m).ensured \cup checkFileStore(m).ensured
        /\ app = {} \/ \E db, store : app = checkMattermost(m, db, store)
        /\ removed \subseteq Unwanted(m)
        /\ objects' = Left(prepared \cup app, removed)
  BY MattermostPass
<1>2. Shaped(old) /\ ci = {}
  BY <1>1 DEF SpecInv
<1>3. m.Name = old.Name
  BY <1>1, <1>2, NormalisedSettled
<1>4. Keyed /\ m.Name \in Names /\ MinioComplete(m.Name) /\ MattermostLeaves(m.Spec)
  BY <1>1, <1>2, <1>3, NormalisedLeaves DEF ObjectsInv
<1>5. PICK ensured : ensured = prepared \cup app
  OBVIOUS
<1>6. AllSafe(ensured, m.Name)
  <2>1. AllSafe(prepared, m.Name)
    BY <1>1, <1>4, DatabaseSafe, FileStoreSafe DEF AllSafe
  <2>2. \A o \in app : NoSecret(o)
    <3>1. CASE app = {}
      BY <3>1
    <3>2. CASE app # {}
      <4>1. PICK db, store : app = checkMattermost(m, db, store)
        BY <1>1, <3>2
      <4> QED BY <1>4, <4>1, AppNoSecret
    <3> QED BY <3>1, <3>2
  <2> QED BY <1>5, <2>1, <2>2 DEF AllSafe, Safe, NoSecret, Proper
<1>7. \A k \in removed : k[1] # "Secret"
  BY <1>1 DEF Unwanted
<1>8. Kept /\ Keyed' /\ MinioComplete(m.Name)'
  <2>1. objects' = Left(ensured, removed)
    BY <1>1, <1>5
  <2> QED BY <1>4, <1>6, <1>7, <2>1, LeftKeeps
<1> QED
  BY <1>1, <1>2, <1>4, <1>8 DEF ObjectsInv

(* Everything that a pass over a ClusterInstallation asks for. *)
CIEnsured(c) ==
    checkCIDatabase(c).ensured \cup checkMinio(c).ensured \cup checkCIMattermost(c).ensured
    \cup checkBlueGreen(c).ensured \cup checkCanary(c).ensured

(* A pass leaves what the stages ask for that it reaches. *)
LEMMA CIPass ==
    ASSUME ReconcileClusterInstallation
    PROVE  \E old \in ci : \E c, ensured, removed :
            /\ c = CINormalised(old)
            /\ ci' = {c} /\ mm' = mm
            /\ ensured \subseteq CIEnsured(c) /\ removed \subseteq BlueGreenRemoves(c)
            /\ objects' = Left(ensured, removed)
<1> DEFINE Stages(c) == <<checkCIDatabase(c), checkMinio(c), checkCIMattermost(c),
                          checkBlueGreen(c), checkCanary(c)>>
<1>1. PICK old \in ci :
        LET c == CINormalised(old)
            reached(i) == \A j \in 1 .. i - 1 : Stages(c)[j].result # {}
            ensured == UNION {Stages(c)[i].ensured : i \in {j \in 1 .. 5 : reached(j)}}
        IN /\ ci' = {c}
           /\ mm' = mm
           /\ objects' = Left(ensured, IF reached(5) THEN BlueGreenRemoves(c) ELSE {})
  BY DEF ReconcileClusterInstallation
<1>2. PICK c : c = CINormalised(old)
  OBVIOUS
<1> DEFINE stages == Stages(c)
           at(i) == \A j \in 1 .. i - 1 : stages[j].result # {}
<1>3. PICK reached, removed :
        /\ reached \subseteq 1 .. 5
        /\ removed \subseteq BlueGreenRemoves(c)
        /\ objects' = Left(UNION {stages[i].ensured : i \in reached}, removed)
  <2>1. objects' = Left(UNION {stages[i].ensured : i \in {j \in 1 .. 5 : at(j)}},
                        IF at(5) THEN BlueGreenRemoves(c) ELSE {})
    BY <1>1, <1>2
  <2>2. PICK reached, removed : /\ reached = {j \in 1 .. 5 : at(j)}
                                /\ removed = IF at(5) THEN BlueGreenRemoves(c) ELSE {}
    OBVIOUS
  <2>3. reached \subseteq 1 .. 5 /\ removed \subseteq BlueGreenRemoves(c)
    BY <2>2
  <2> HIDE DEF at, stages
  <2> QED BY <2>1, <2>2, <2>3
<1>4. PICK ensured : ensured = UNION {stages[i].ensured : i \in reached}
  OBVIOUS
<1>5. \A i \in 1 .. 5 : stages[i].ensured \subseteq CIEnsured(c)
  <2>1. /\ stages[1] = checkCIDatabase(c) /\ stages[2] = checkMinio(c)
        /\ stages[3] = checkCIMattermost(c) /\ stages[4] = checkBlueGreen(c)
        /\ stages[5] = checkCanary(c)
    OBVIOUS
  <2> HIDE DEF stages
  <2> QED BY <2>1 DEF CIEnsured
<1> HIDE DEF stages
<1>6. ensured \subseteq CIEnsured(c)
  BY <1>3, <1>4, <1>5
<1>7. ci' = {c} /\ mm' = mm
  BY <1>1, <1>2
<1> QED
  BY <1>2, <1>3, <1>4, <1>6, <1>7

(* So does one over a ClusterInstallation. *)
LEMMA ObjectsOfCIPass ==
    ASSUME SpecInv, ObjectsInv, ReconcileClusterInstallation
    PROVE  Kept /\ ObjectsInv'
<1>1. PICK old, c, ensured, removed :
        /\ old \in ci
        /\ c = CINormalised(old)
        /\ ci' = {c} /\ mm' = mm
        /\ ensured \subseteq CIEnsured(c) /\ removed \subseteq BlueGreenRemoves(c)
        /\ objects' = Left(ensured, removed)
  BY CIPass
<1>2. CIShaped(old) /\ mm = {}
  BY <1>1 DEF SpecInv
<1>3. c.Name = old.Name
  BY <1>1, <1>2, CINormalisedSettled
<1>4. Keyed /\ c.Name \in Names /\ MinioComplete(c.Name) /\ InstallationLeaves(c.Spec)
  BY <1>1, <1>2, <1>3, CINormalisedLeaves DEF ObjectsInv
<1>5. /\ AllSafe(checkCIDatabase(c).ensured, c.Name)
      /\ AllSafe(checkMinio(c).ensured, c.Name)
      /\ AllSafe(checkCIMattermost(c).ensured, c.Name)
      /\ AllSafe(checkBlueGreen(c).ensured, c.Name)
      /\ AllSafe(checkCanary(c).ensured, c.Name)
  BY <1>4, CIDatabaseSafe, CIMinioSafe, CIMattermostSafe, BlueGreenSafe, CanarySafe
<1>6. AllSafe(ensured, c.Name)
  BY <1>1, <1>5 DEF AllSafe, CIEnsured
<1>7. \A k \in removed : k[1] # "Secret"
  BY <1>1 DEF BlueGreenRemoves, Components
<1>8. Kept /\ Keyed' /\ MinioComplete(c.Name)'
  BY <1>1, <1>4, <1>6, <1>7, LeftKeeps
<1> QED
  BY <1>1, <1>2, <1>4, <1>8 DEF ObjectsInv

(* The deployment that tryToMigrate makes again under the new labels. *)
Relabelled(d, m) ==
    LET labels == MattermostLabels(m, m.Name)
    IN [d EXCEPT !.Owner = Nobody, !.Labels = labels, !.PodLabels = labels,
                 !.Selector = MattermostSelectorLabels(m.Name)]

(* A migration changes one deployment, which now selects the pods of the   *)
(* Mattermost.                                                             *)
LEMMA ObjectsOfMigration ==
    ASSUME ObjectsInv, Migrate
    PROVE  Kept /\ ObjectsInv'
<1>1. PICK c \in ci : \E m \in ConvertToMM(c, Found("Secret", c.Spec.Database.Secret)) :
        \E d \in Found("Deployment", c.Name) :
            /\ mm' = {[m EXCEPT !.Spec.ResourceLabels = {MattermostLabels(m, m.Name) : l \in @}]}
            /\ objects' = [objects EXCEPT ![Key(d)] = Relabelled(d, m)]
            /\ ci' = {}
  BY DEF Migrate, Relabelled
<1>2. PICK m \in ConvertToMM(c, Found("Secret", c.Spec.Database.Secret)) :
        \E d \in Found("Deployment", c.Name) :
            /\ mm' = {[m EXCEPT !.Spec.ResourceLabels = {MattermostLabels(m, m.Name) : l \in @}]}
            /\ objects' = [objects EXCEPT ![Key(d)] = Relabelled(d, m)]
  BY <1>1
<1> PICK d \in Found("Deployment", c.Name) :
            objects' = [objects EXCEPT ![Key(d)] = Relabelled(d, m)]
  BY <1>2
<1>3. PICK n : n = [m EXCEPT !.Spec.ResourceLabels = {MattermostLabels(m, m.Name) : l \in @}]
  OBVIOUS
<1>4. Shaped(m) /\ m.Name = c.Name
  BY ConvertedShaped
<1>5. Shaped(n) /\ n.Name = m.Name
  BY <1>3, <1>4, LabelledShaped
<1>6. PICK e : e = Relabelled(d, m)
  OBVIOUS
<1>7. /\ Key(d) \in DOMAIN objects /\ d = objects[Key(d)]
      /\ Proper(d) /\ d.Kind = "Deployment" /\ d.Name = c.Name
  BY DEF ObjectsInv, Keyed, Found, Key
<1>8. /\ DOMAIN e = DOMAIN d
      /\ e.Kind = d.Kind /\ e.Name = d.Name
      /\ e.PodLabels = MattermostLabels(m, m.Name)
      /\ e.Selector = MattermostSelectorLabels(m.Name)
  BY <1>6, <1>7 DEF Proper, SelectsOwn, Relabelled
<1>9. /\ DOMAIN objects' = DOMAIN objects
      /\ \A k \in DOMAIN objects : objects'[k] = IF k = Key(d) THEN e ELSE objects[k]
  BY <1>2, <1>6, <1>7
<1>10. c.Name \in Names /\ MinioComplete(c.Name) /\ InstallationLeaves(c.Spec)
  BY DEF ObjectsInv
<1>11. Keyed'
  <2> DEFINE app == MattermostAppContainerName
  <2>1. DOMAIN UserLabels(m) \cap V1Alpha1Keys = {}
    BY <1>10, ConvertedLeaves, UserLabelsLeave
  <2>2. /\ e.PodLabels = mergeStringMaps(UserLabels(m), OwnLabels(m.Name, app))
        /\ e.Selector = OwnLabels(m.Name, app)
    BY <1>8 DEF MattermostLabels, MattermostSelectorLabels
  <2> HIDE DEF app
  <2>3. /\ V1Beta1Keys \cup {"app"} \subseteq DOMAIN OwnLabels(m.Name, app)
        /\ V1Beta1Keys \cup {"app"} \subseteq DOMAIN e.PodLabels
        /\ DOMAIN e.PodLabels \cap V1Alpha1Keys = {}
        /\ e.PodLabels["app"] = app
        /\ e.PodLabels[ClusterLabel] = m.Name
        /\ Matches(OwnLabels(m.Name, app), e.PodLabels)
        /\ Matches(e.PodLabels, e.PodLabels)
    BY <2>1, <2>2, OwnLabelsWritten
  <2>4. V1Beta1Pods(e)
    BY <1>4, <1>7, <1>8, <2>2, <2>3 DEF V1Beta1Pods, app
  <2>5. Proper(e)
    BY <1>7, <1>8, <2>4 DEF Proper, SelectsOwn
  <2> QED BY <1>8, <1>9, <2>5 DEF Keyed, Key, ObjectsInv
<1>12. ASSUME NEW name, MinioComplete(name) PROVE MinioComplete(name)'
  BY <1>7, <1>9, <1>12 DEF MinioComplete, Found, Key
<1>13. Kept
  BY <1>7, <1>9 DEF Kept
<1>14. MattermostLeaves(n.Spec)
  BY <1>3, <1>4, <1>10, ConvertedLeaves, LabelledLeaves
<1> QED
  BY <1>1, <1>2, <1>3, <1>4, <1>5, <1>11, <1>12, <1>10, <1>13, <1>14 DEF ObjectsInv

(* The garbage collector only takes objects away. *)
LEMMA ObjectsOfRemoval ==
    ASSUME ObjectsInv, RemoveInstallation
    PROVE  ObjectsInv'
<1>1. /\ DOMAIN objects' \subseteq DOMAIN objects
      /\ \A k \in DOMAIN objects' : objects'[k] = objects[k]
  BY DEF RemoveInstallation, Restrict
<1>2. Keyed'
  BY <1>1 DEF Keyed, ObjectsInv
<1>3. ASSUME NEW name, MinioComplete(name) PROVE MinioComplete(name)'
  BY <1>1, <1>3 DEF MinioComplete, Found
<1> QED
  BY <1>2, <1>3 DEF ObjectsInv, RemoveInstallation

(* The MinIO operator adds a service. *)
LEMMA ObjectsOfMinioOperator ==
    ASSUME ObjectsInv, MinioOperator
    PROVE  Kept /\ ObjectsInv'
<1>1. PICK o : objects' = mergeStringMaps(objects, Store({HeadlessService(o)}))
  BY DEF MinioOperator
<1>2. PICK h : h = HeadlessService(o)
  OBVIOUS
<1>3. Proper(h) /\ h.Kind = "Service"
  BY <1>2 DEF HeadlessService, Proper
<1>4. /\ DOMAIN objects' = DOMAIN objects \cup {Key(h)}
      /\ \A k \in DOMAIN objects' : objects'[k] = IF k = Key(h) THEN h ELSE objects[k]
  BY <1>1, <1>2 DEF mergeStringMaps, Store
<1>5. Kept
  BY <1>3, <1>4 DEF Kept, Key, Keyed, ObjectsInv
<1>6. Keyed'
  BY <1>3, <1>4 DEF Keyed, ObjectsInv
<1>7. ASSUME NEW name, MinioComplete(name) PROVE MinioComplete(name)'
  BY <1>3, <1>4, <1>7 DEF MinioComplete, Found, Key
<1> QED
  BY <1>5, <1>6, <1>7 DEF ObjectsInv, MinioOperator

(* The steps that leave the objects alone. *)
LEMMA ObjectsUntouched ==
    ASSUME ObjectsInv, objects' = objects,
           \A m \in mm' : MattermostLeaves(m.Spec) /\ \E x \in mm : m.Name = x.Name,
           \A c \in ci' : InstallationLeaves(c.Spec) /\ \E x \in ci : c.Name = x.Name
    PROVE  Kept /\ ObjectsInv'
<1>1. Kept
  BY DEF Kept
<1>2. Keyed'
  BY DEF Keyed, ObjectsInv
<1>3. ASSUME NEW name, MinioComplete(name) PROVE MinioComplete(name)'
  BY <1>3 DEF MinioComplete, Found
<1> QED
  BY <1>1, <1>2, <1>3 DEF ObjectsInv

(* Users change no objects here. *)
LEMMA ObjectsOfEdit ==
    ASSUME SpecInv, ObjectsInv, EditMattermost \/ EditInstallation
    PROVE  Kept /\ ObjectsInv'
<1>1. CASE EditMattermost
  <2>1. PICK m \in mm, f \in DOMAIN MattermostChoices : \E v \in MattermostChoices[f] :
            /\ mm' = {[m EXCEPT !.Spec[f] = v]}
            /\ ci' = ci
            /\ objects' = objects
    BY <1>1 DEF EditMattermost, Wrote
  <2>2. PICK v \in MattermostChoices[f] : mm' = {[m EXCEPT !.Spec[f] = v]}
    BY <2>1
  <2>3. PICK n : n = [m EXCEPT !.Spec[f] = v]
    OBVIOUS
  <2>4. Shaped(n) /\ n.Name = m.Name
    BY <2>3, EditShaped DEF SpecInv
  <2>5. MattermostLeaves(n.Spec)
    BY <2>3, EditLeaves DEF SpecInv, ObjectsInv
  <2> QED BY <2>1, <2>2, <2>3, <2>4, <2>5, ObjectsUntouched DEF ObjectsInv
<1>2. CASE EditInstallation
  <2>1. PICK c \in ci, f \in DOMAIN InstallationChoices : \E v \in InstallationChoices[f] :
            /\ ci' = {[c EXCEPT !.Spec[f] = v]}
            /\ mm' = mm
            /\ objects' = objects
    BY <1>2 DEF EditInstallation, Wrote
  <2>2. PICK v \in InstallationChoices[f] : ci' = {[c EXCEPT !.Spec[f] = v]}
    BY <2>1
  <2>3. PICK n : n = [c EXCEPT !.Spec[f] = v]
    OBVIOUS
  <2>4. CIShaped(n) /\ n.Name = c.Name
    BY <2>3, EditCIShaped DEF SpecInv
  <2>5. InstallationLeaves(n.Spec)
    BY <2>3, EditCILeaves DEF SpecInv, ObjectsInv
  <2> QED BY <2>1, <2>2, <2>3, <2>4, <2>5, ObjectsUntouched DEF ObjectsInv
<1> QED
  BY <1>1, <1>2

(* Every step keeps the invariant and, unless a ClusterInstallation goes,  *)
(* the secrets.                                                            *)
LEMMA ObjectsInvNext ==
    SpecInv /\ ObjectsInv /\ [Next]_vars => ObjectsInv' /\ (handover' = handover => Kept)
<1> SUFFICES ASSUME SpecInv, ObjectsInv, [Next]_vars
             PROVE  ObjectsInv' /\ (handover' = handover => Kept)
  OBVIOUS
<1>1. CASE ReconcileMattermost
  BY <1>1, ObjectsOfPass
<1>2. CASE ReconcileClusterInstallation
  BY <1>2, ObjectsOfCIPass
<1>3. CASE RejectMattermost \/ RejectClusterInstallation \/ UNCHANGED vars
  <2>1. objects' = objects /\ mm' = mm /\ ci' = ci
    BY <1>3 DEF RejectMattermost, RejectClusterInstallation, vars
  <2> QED BY <2>1, ObjectsUntouched DEF ObjectsInv
<1>4. CASE Migrate
  BY <1>4, ObjectsOfMigration
<1>5. CASE EditMattermost \/ EditInstallation
  BY <1>5, ObjectsOfEdit
<1>6. CASE RemoveInstallation
  <2>1. handover' # handover
    BY <1>6 DEF RemoveInstallation
  <2> QED BY <1>6, <2>1, ObjectsOfRemoval
<1>7. CASE MinioOperator
  BY <1>7, ObjectsOfMinioOperator
<1> QED
  BY <1>1, <1>2, <1>3, <1>4, <1>5, <1>6, <1>7 DEF Next

(* Credentials are kept, for any spec, any edits and any objects of the    *)
(* users' in which a secret for MinIO is complete: as long as no           *)
(* ClusterInstallation is deleted, no step changes what a secret holds or  *)
(* takes it away (GetOrCreateMySQLSecrets, CreateOrUpdateMinioSecret, and  *)
(* all that the two controllers write and delete beside them).             *)
THEOREM SecretsKept == Spec => CredentialsKept
<1> DEFINE Inv == SpecInv /\ ObjectsInv
           Step == handover' = handover => Kept
<1>1. Init => Inv
  BY SpecInvInit, ObjectsInvInit
<1>2. Inv /\ [Next]_vars => Inv'
  BY SpecInvNext, ObjectsInvNext
<1>3. Inv /\ [Next]_vars => [Step]_vars
  BY ObjectsInvNext
<1>4. Spec => [][Step]_vars
  <2> HIDE DEF Inv, Step
  <2> QED BY <1>1, <1>2, <1>3, PTL DEF Spec
<1> QED
  BY <1>4 DEF CredentialsKept, Kept

(* Deployments select their own pods and those of no other, for any spec,  *)
(* any edits and any history of passes and migrations, as long as the      *)
(* labels of users leave the keys of the operator alone where it does not  *)
(* write its own over them (MattermostSelectorLabels, MattermostPodLabels, *)
(* ClusterInstallationLabels).                                             *)
THEOREM PodsFound == Spec => []PodsSelected
<1>1. ObjectsInv => PodsSelected
  <2> SUFFICES ASSUME ObjectsInv, NEW d \in Stored("Deployment"), NEW e \in Stored("Deployment")
               PROVE  Matches(d.Selector, e.PodLabels) <=> d = e
    BY DEF PodsSelected
  <2>1. ASSUME NEW x \in Stored("Deployment")
        PROVE  SelectsOwn(x) /\ x = objects[<<"Deployment", x.Name>>]
    BY DEF Stored, Range, ObjectsInv, Keyed, Key, Proper
  <2>2. d = e => Matches(d.Selector, e.PodLabels)
    BY <2>1 DEF SelectsOwn, V1Alpha1Pods, V1Beta1Pods
  <2>3. ASSUME Matches(d.Selector, e.PodLabels) PROVE d.Name = e.Name
    <3>1. CASE V1Alpha1Pods(d) /\ V1Alpha1Pods(e)
      <4>1. CI!ClusterLabel \in DOMAIN d.Selector
        BY <3>1 DEF V1Alpha1Pods, V1Alpha1Keys
      <4> QED BY <2>3, <3>1, <4>1 DEF V1Alpha1Pods, Matches
    <3>2. CASE V1Beta1Pods(d) /\ V1Beta1Pods(e)
      <4>1. ClusterLabel \in DOMAIN d.Selector /\ "app" \in DOMAIN d.Selector
        BY <3>2 DEF V1Beta1Pods, V1Beta1Keys
      <4>2. /\ d.PodLabels[ClusterLabel] = e.PodLabels[ClusterLabel]
            /\ d.PodLabels["app"] = e.PodLabels["app"]
        BY <2>3, <3>2, <4>1 DEF V1Beta1Pods, Matches
      <4> QED BY <3>2, <4>2, KeysApart DEF V1Beta1Pods
    <3>3. CASE V1Alpha1Pods(d) /\ V1Beta1Pods(e)
      <4>1. CI!ClusterLabel \in DOMAIN e.PodLabels \cap V1Alpha1Keys
        BY <2>3, <3>3 DEF V1Alpha1Pods, Matches, V1Alpha1Keys
      <4> QED BY <3>3, <4>1 DEF V1Beta1Pods
    <3>4. CASE V1Beta1Pods(d) /\ V1Alpha1Pods(e)
      <4>1. ClusterLabel \in DOMAIN e.PodLabels \cap V1Beta1Keys
        BY <2>3, <3>4 DEF V1Beta1Pods, Matches, V1Beta1Keys
      <4> QED BY <3>4, <4>1 DEF V1Alpha1Pods
    <3> QED BY <2>1, <3>1, <3>2, <3>3, <3>4 DEF SelectsOwn
  <2> QED BY <2>1, <2>2, <2>3
<1>2. Init => SpecInv /\ ObjectsInv
  BY SpecInvInit, ObjectsInvInit
<1>3. SpecInv /\ ObjectsInv /\ [Next]_vars => (SpecInv /\ ObjectsInv)'
  BY SpecInvNext, ObjectsInvNext
<1> QED
  BY <1>1, <1>2, <1>3, PTL DEF Spec

-----------------------------------------------------------------------------
(* What a pass that gets through leaves. *)

(* The names of blue and green. *)
Two(c) == {c.Spec.BlueGreen.Blue.Name, c.Spec.BlueGreen.Green.Name}

(* A pass over a ClusterInstallation that gets through has been through    *)
(* all its stages.                                                         *)
LEMMA CIPassDone ==
    ASSUME ReconcileClusterInstallation, pass' = "done"
    PROVE  \E old \in ci : \E c :
            /\ c = CINormalised(old)
            /\ ci' = {c} /\ mm' = mm /\ handover' = handover
            /\ checkCIMattermost(c).result # {} /\ checkBlueGreen(c).result # {}
            /\ objects' = Left(CIEnsured(c), BlueGreenRemoves(c))
            /\ \A o \in CIEnsured(c) : ~Refused(o)
            /\ recorded' = IF c.Spec.BlueGreen.Enable THEN Two(c) ELSE {}
<1>1. PICK old \in ci :
        LET c == CINormalised(old)
            stages == <<checkCIDatabase(c), checkMinio(c), checkCIMattermost(c),
                        checkBlueGreen(c), checkCanary(c)>>
            reached(i) == \A j \in 1 .. i - 1 : stages[j].result # {}
            ensured == UNION {stages[i].ensured : i \in {j \in 1 .. 5 : reached(j)}}
        IN /\ ci' = {c}
           /\ objects' = Left(ensured, IF reached(5) THEN BlueGreenRemoves(c) ELSE {})
           /\ recorded' = CASE ~reached(6) -> recorded
                            [] reached(6) /\ ~c.Spec.BlueGreen.Enable -> {}
                            [] OTHER -> Two(c)
           /\ Outcome(reached(6), ensured)
           /\ mm' = mm /\ handover' = handover
  BY DEF ReconcileClusterInstallation, Two
<1>2. PICK c : c = CINormalised(old)
  OBVIOUS
<1> DEFINE stages == <<checkCIDatabase(c), checkMinio(c), checkCIMattermost(c),
                       checkBlueGreen(c), checkCanary(c)>>
           reached(i) == \A j \in 1 .. i - 1 : stages[j].result # {}
           ensured == UNION {stages[i].ensured : i \in {j \in 1 .. 5 : reached(j)}}
<1>3. /\ ci' = {c} /\ mm' = mm /\ handover' = handover
      /\ objects' = Left(ensured, IF reached(5) THEN BlueGreenRemoves(c) ELSE {})
      /\ recorded' = CASE ~reached(6) -> recorded
                       [] reached(6) /\ ~c.Spec.BlueGreen.Enable -> {}
                       [] OTHER -> Two(c)
      /\ Outcome(reached(6), ensured)
  BY <1>1, <1>2
<1>4. reached(6) /\ \A o \in ensured : ~Refused(o)
  BY <1>3 DEF Outcome
<1>5. /\ stages[1] = checkCIDatabase(c) /\ stages[2] = checkMinio(c)
      /\ stages[3] = checkCIMattermost(c) /\ stages[4] = checkBlueGreen(c)
      /\ stages[5] = checkCanary(c)
  OBVIOUS
<1> HIDE DEF stages
<1>6. \A j \in 1 .. 5 : stages[j].result # {}
  BY <1>4
<1>7. \A i \in 1 .. 5 : reached(i)
  BY <1>6
<1>8. {j \in 1 .. 5 : reached(j)} = {1, 2, 3, 4, 5}
  BY <1>7
<1>9. ensured = CIEnsured(c)
  <2>1. ensured = UNION {stages[i].ensured : i \in {1, 2, 3, 4, 5}}
    BY <1>8
  <2> HIDE DEF ensured
  <2> QED BY <1>5, <2>1 DEF CIEnsured
<1>10. /\ objects' = Left(ensured, BlueGreenRemoves(c))
       /\ recorded' = IF c.Spec.BlueGreen.Enable THEN Two(c) ELSE {}
  <2>1. reached(5)
    BY <1>7
  <2> HIDE DEF reached, ensured
  <2> QED BY <1>3, <1>4, <2>1
<1> HIDE DEF reached, ensured
<1> QED
  BY <1>2, <1>3, <1>4, <1>5, <1>6, <1>9, <1>10

(* Nothing that a pass removes is there after it. *)
LEMMA LeftRemoves ==
    ASSUME NEW ensured, NEW removed, objects' = Left(ensured, removed)
    PROVE  \A k \in DOMAIN objects' : k \notin removed
  BY DEF Left, Restrict

(* After a pass that got through, the status names blue and green when     *)
(* they are on, and then the one deployment is gone, and nothing when they *)
(* are off.  A ClusterInstallation that is migrated has no more passes.    *)
BlueGreenInv ==
    /\ handover # "none" => ci = {}
    /\ pass = "done" => \A c \in ci :
        IF c.Spec.BlueGreen.Enable
        THEN <<"Deployment", c.Name>> \notin DOMAIN objects /\ Two(c) \subseteq recorded
        ELSE recorded = {}

(* What a step to the end of a pass may not leave. *)
BlueGreenStep ==
    pass' = "done" => \A c \in ci' :
        IF c.Spec.BlueGreen.Enable
        THEN /\ <<"Deployment", c.Name>> \notin DOMAIN objects'
             /\ Two(c) \subseteq recorded'
        ELSE \A o \in Range(objects') :
                o.Kind \in {"Deployment", "Service", "Ingress"} => o.Name \notin recorded

(* A step that gets a pass through, or comes after one that did, leaves    *)
(* nothing of blue and green.                                              *)
LEMMA BlueGreenNext ==
    ASSUME SpecInv, ObjectsInv, ObjectsInv', BlueGreenInv, [Next]_vars
    PROVE  BlueGreenInv' /\ BlueGreenStep
<1>1. CASE ReconcileClusterInstallation
  <2>1. handover' = handover /\ ci # {}
    BY <1>1 DEF ReconcileClusterInstallation
  <2>2. handover' = "none"
    BY <2>1 DEF BlueGreenInv
  <2>3. CASE pass' # "done"
    BY <2>2, <2>3 DEF BlueGreenInv, BlueGreenStep
  <2>4. CASE pass' = "done"
    <3>1. PICK old, c :
            /\ old \in ci
            /\ ci' = {c}
            /\ objects' = Left(CIEnsured(c), BlueGreenRemoves(c))
            /\ recorded' = IF c.Spec.BlueGreen.Enable THEN Two(c) ELSE {}
      BY <1>1, <2>4, CIPassDone
    <3>2. \A k \in DOMAIN objects' : k \notin BlueGreenRemoves(c)
      BY <3>1, LeftRemoves
    <3>3. CASE c.Spec.BlueGreen.Enable
      <4>1. <<"Deployment", c.Name>> \notin DOMAIN objects'
        BY <3>2, <3>3 DEF BlueGreenRemoves
      <4> QED BY <2>2, <3>1, <3>3, <4>1 DEF BlueGreenInv, BlueGreenStep
    <3>4. CASE ~c.Spec.BlueGreen.Enable
      <4>1. \A o \in Range(objects') :
                o.Kind \in {"Deployment", "Service", "Ingress"} => o.Name \notin recorded
        <5> SUFFICES ASSUME NEW k \in DOMAIN objects',
                            objects'[k].Kind \in {"Deployment", "Service", "Ingress"},
                            objects'[k].Name \in recorded
                     PROVE  FALSE
          BY DEF Range
        <5>1. k = <<objects'[k].Kind, objects'[k].Name>>
          BY DEF ObjectsInv, Keyed, Key
        <5>2. k \in Components(objects'[k].Name)
          BY <5>1 DEF Components
        <5> QED BY <3>2, <3>4, <5>2 DEF BlueGreenRemoves
      <4> QED BY <2>2, <3>1, <3>4, <4>1 DEF BlueGreenInv, BlueGreenStep
    <3> QED BY <3>3, <3>4
  <2> QED BY <2>3, <2>4
<1>2. CASE ReconcileMattermost
  <2>1. ci = {} /\ ci' = ci
    BY <1>2 DEF ReconcileMattermost, SpecInv
  <2> QED BY <2>1 DEF BlueGreenInv, BlueGreenStep
<1>3. CASE RejectMattermost \/ RejectClusterInstallation
  <2>1. pass' = "failed" /\ handover' = handover /\ ci' = ci
    BY <1>3 DEF RejectMattermost, RejectClusterInstallation
  <2> QED BY <2>1 DEF BlueGreenInv, BlueGreenStep
<1>4. CASE Migrate
  <2>1. pass' = "due" /\ ci' = {}
    BY <1>4 DEF Migrate
  <2> QED BY <2>1 DEF BlueGreenInv, BlueGreenStep
<1>5. CASE EditMattermost \/ EditInstallation
  <2>1. pass' = "due" /\ handover' = handover /\ (ci = {} => ci' = {})
    BY <1>5 DEF EditMattermost, EditInstallation, Wrote
  <2> QED BY <2>1 DEF BlueGreenInv, BlueGreenStep
<1>6. CASE RemoveInstallation
  <2>1. ci = {} /\ ci' = {}
    BY <1>6 DEF RemoveInstallation, BlueGreenInv
  <2> QED BY <2>1 DEF BlueGreenInv, BlueGreenStep
<1>7. CASE MinioOperator
  <2>1. PICK o : objects' = mergeStringMaps(objects, Store({HeadlessService(o)}))
    BY <1>7 DEF MinioOperator
  <2>2. DOMAIN objects' = DOMAIN objects \cup {Key(HeadlessService(o))}
    BY <2>1 DEF mergeStringMaps, Store
  <2>3. Key(HeadlessService(o))[1] = "Service"
    BY DEF HeadlessService, Key
  <2>4. \A name : <<"Deployment", name>> \in DOMAIN objects' => <<"Deployment", name>> \in DOMAIN objects
    BY <2>2, <2>3
  <2>5. ci' = ci /\ recorded' = recorded /\ pass' = pass /\ handover' = handover
    BY <1>7 DEF MinioOperator
  <2> QED BY <2>4, <2>5 DEF BlueGreenInv, BlueGreenStep
<1>8. CASE UNCHANGED vars
  BY <1>8 DEF BlueGreenInv, BlueGreenStep, vars
<1> QED
  BY <1>1, <1>2, <1>3, <1>4, <1>5, <1>6, <1>7, <1>8 DEF Next

(* Blue and green come and go without a trace, for any spec and any        *)
(* edits: a pass that gets through with the two leaves no deployment of    *)
(* the installation's own name and records both names, and one that gets   *)
(* through without them leaves no deployment, service or ingress under a   *)
(* name that was recorded (checkBlueGreen).                                *)
THEOREM BlueGreenCleared == Spec => BlueGreenLeavesNothing
<1> DEFINE Inv == SpecInv /\ ObjectsInv /\ BlueGreenInv
<1>1. Init => Inv
  <2>1. Init => BlueGreenInv
    BY DEF Init, BlueGreenInv
  <2> QED BY <2>1, SpecInvInit, ObjectsInvInit
<1>2. Inv /\ [Next]_vars => Inv' /\ BlueGreenStep
  BY SpecInvNext, ObjectsInvNext, BlueGreenNext
<1>3. Inv /\ [Next]_vars => Inv' /\ [BlueGreenStep]_vars
  BY <1>2
<1>4. Spec => [][BlueGreenStep]_vars
  <2> HIDE DEF Inv
  <2> QED BY <1>1, <1>3, PTL DEF Spec
<1> QED
  BY <1>4 DEF BlueGreenLeavesNothing, BlueGreenStep, Two

-----------------------------------------------------------------------------
(* How services, ingresses and deployments are marked with the names of    *)
(* the installations they belong to.                                       *)

(* The label that names an installation, on a service or an ingress, is    *)
(* the object's own name.                                                  *)
OwnLabelled(o) ==
    /\ ClusterLabel \in DOMAIN o.Labels => o.Labels[ClusterLabel] = o.Name
    /\ CI!ClusterLabel \in DOMAIN o.Labels => o.Labels[CI!ClusterLabel] = o.Name

(* A deployment of a ClusterInstallation runs the app, and is found by its *)
(* name; *)
OldPods(d) ==
    /\ d.App.Name = MattermostAppContainerName
    /\ Matches(CI!ClusterInstallationSelectorLabels(d.Name), d.PodLabels)

(* one of a Mattermost runs the app when its pods are labelled so. *)
NewPods(d) ==
    /\ "app" \in DOMAIN d.PodLabels
    /\ d.PodLabels["app"] = MattermostAppContainerName =>
        d.App.Name = MattermostAppContainerName

(* Objects that are marked by what they are. *)
Marked(o) ==
    /\ o.Kind \in {"Service", "Ingress"} => OwnLabelled(o)
    /\ o.Kind = "Deployment" => OldPods(o) \/ NewPods(o)

(* All objects are, and those beside a ClusterInstallation are its own. *)
MarkedInv ==
    /\ \A k \in DOMAIN objects : Marked(objects[k])
    /\ ci # {} => \A k \in DOMAIN objects :
        objects[k].Kind = "Deployment" => OldPods(objects[k])

(* What a pass over a ClusterInstallation makes is marked with its name. *)
CIMade(o, c) ==
    /\ o.Kind \in {"Service", "Ingress"} =>
        o.Labels = CI!ClusterInstallationLabels(c, o.Name)
    /\ o.Kind = "Deployment" => OldPods(o)

(* The secrets are secrets, those that are found as well. *)
LEMMA MySQLSecretKind ==
    ASSUME Keyed, NEW owner, NEW name
    PROVE  GetOrCreateMySQLSecrets(owner, name).Kind = "Secret"
<1> DEFINE found == Found("Secret", name)
           own == GetOrCreateMySQLSecrets(owner, name)
<1>1. createMySQLSecret(owner, name).Kind = "Secret"
  BY DEF createMySQLSecret, NewSecret
<1>2. \A s \in found : s.Kind = "Secret"
  BY DEF Found, Keyed, Key
<1>3. own \in found \cup {createMySQLSecret(owner, name)}
  BY DEF GetOrCreateMySQLSecrets, Deref
<1> HIDE DEF own, found
<1> QED
  BY <1>1, <1>2, <1>3 DEF own

(* What is ensured for MinIO is a secret. *)
LEMMA MinioSecretKind ==
    ASSUME NEW desired
    PROVE  CreateOrUpdateMinioSecret(desired).Kind = "Secret"
<1> DEFINE secret == CreateOrUpdateMinioSecret(desired)
           made == NewSecret(desired, {"accesskey", "secretkey"})
<1>1. secret = made \/ \E d, n : secret = [made EXCEPT !.Data = d, !.Drawn = n]
  BY DEF CreateOrUpdateMinioSecret
<1>2. made.Kind = "Secret" /\ IsRecord(made, {"Kind", "Name", "Owner", "Labels", "Data", "Drawn"})
  BY DEF NewSecret, IsRecord
<1> HIDE DEF secret, made
<1>3. secret.Kind = "Secret"
  BY <1>1, <1>2 DEF IsRecord
<1> QED
  BY <1>3 DEF secret

(* What is made so is marked. *)
LEMMA CIMadeMarked ==
    ASSUME NEW c, InstallationLeaves(c.Spec), NEW o, CIMade(o, c)
    PROVE  Marked(o)
<1>1. ASSUME o.Kind \in {"Service", "Ingress"} PROVE OwnLabelled(o)
  <2>1. PICK labels : labels = CI!ClusterInstallationLabels(c, o.Name)
    OBVIOUS
  <2>2. DOMAIN labels \cap V1Beta1Keys = {} /\ labels[CI!ClusterLabel] = o.Name
    BY <2>1, CILabelsWritten
  <2>3. o.Labels = labels
    BY <1>1, <2>1 DEF CIMade
  <2> QED BY <2>2, <2>3 DEF OwnLabelled, V1Beta1Keys
<1> QED
  BY <1>1 DEF Marked, CIMade

(* The service and the ingress of a ClusterInstallation, *)
LEMMA CIServiceIs ==
    ASSUME NEW c, NEW name, NEW selector, NEW s, s = CI!GenerateService(c, name, selector)
    PROVE  /\ s.Kind = "Service" /\ s.Name = name
           /\ s.Labels = CI!ClusterInstallationLabels(c, name)
           /\ s.Selector = CI!ClusterInstallationSelectorLabels(selector)
           /\ ~c.Spec.UseServiceLoadBalancer => s.Ports = {8065, 8067}
  BY DEF CI!GenerateService, CI!newService, CI!configureMattermostLoadBalancerService,
         CI!configureMattermostService

(* An ingress is labelled as its installation, by its own name. *)
LEMMA CIIngressIs ==
    ASSUME NEW c, NEW name, NEW host, NEW annotations,
           NEW i, i = CI!GenerateIngress(c, name, host, annotations)
    PROVE  /\ i.Kind = "Ingress" /\ i.Name = name
           /\ i.Labels = CI!ClusterInstallationLabels(c, name)
  BY DEF CI!GenerateIngress

(* (each ingress leads to the service of the installation) *)
LEMMA CIIngressRules ==
    ASSUME NEW c, NEW name, NEW host, NEW annotations
    PROVE  CI!GenerateIngress(c, name, host, annotations).Rules
                = <<[Host |-> host, Backend |-> Backend(c.Name)]>>
  BY DEF CI!GenerateIngress, CI!Backend, Backend

(* and what is in front of each of its deployments. *)
LEMMA FrontMade ==
    ASSUME NEW c, NEW name, NEW host, NEW annotations, NEW withIngress
    PROVE  \A o \in FrontOf(c, name, host, annotations, withIngress) : CIMade(o, c)
<1>1. ASSUME NEW o, o = CI!GenerateService(c, name, name) PROVE CIMade(o, c)
  BY <1>1, CIServiceIs DEF CIMade
<1>2. ASSUME NEW o, o = CI!GenerateIngress(c, name, host, annotations) PROVE CIMade(o, c)
  BY <1>2, CIIngressIs DEF CIMade
<1> QED
  BY <1>1, <1>2 DEF FrontOf

(* A deployment and its secret, *)
LEMMA CIDeploymentMade ==
    ASSUME Keyed, NEW c, InstallationLeaves(c.Spec), NEW name, NEW host, NEW image
    PROVE  \A o \in checkCIDeployment(c, name, host, image).ensured : CIMade(o, c)
<1> DEFINE own == GetOrCreateMySQLSecrets(CI!ClusterInstallationOwnerReference(c),
                                          CI!DefaultDatabaseSecretName(c.Name))
           stage == checkCIDeployment(c, name, host, image)
<1>1. CIMade(own, c)
  BY MySQLSecretKind DEF CIMade
<1>2. ASSUME NEW i, NEW url, NEW o,
             o = CI!GenerateDeployment(c, i, name, host, c.Name, image, url)
      PROVE  CIMade(o, c)
  <2>1. /\ o.Kind = "Deployment" /\ o.Name = name
        /\ o.PodLabels = CI!ClusterInstallationLabels(c, name)
        /\ o.App.Name = MattermostAppContainerName
    BY <1>2 DEF CI!GenerateDeployment, CI!MattermostAppContainerName, MattermostAppContainerName
  <2>2. Matches(CI!ClusterInstallationSelectorLabels(name), o.PodLabels)
    BY <2>1, CILabelsWritten
  <2> QED BY <2>1, <2>2 DEF CIMade, OldPods
<1> HIDE DEF own
<1>3. \A o \in stage.ensured : o = own \/ \E i, url :
            o = CI!GenerateDeployment(c, i, name, host, c.Name, image, url)
  BY DEF checkCIDeployment, Stage, own
<1> QED
  BY <1>1, <1>2, <1>3

(* and all that a pass asks for. *)
LEMMA CIAllMade ==
    ASSUME Keyed, NEW c, InstallationLeaves(c.Spec)
    PROVE  /\ \A o \in checkCIDatabase(c).ensured : CIMade(o, c)
           /\ \A o \in checkMinio(c).ensured : CIMade(o, c)
           /\ \A o \in checkCIMattermost(c).ensured : CIMade(o, c)
           /\ \A o \in checkBlueGreen(c).ensured : CIMade(o, c)
           /\ \A o \in checkCanary(c).ensured : CIMade(o, c)
<1>1. \A o \in checkCIDatabase(c).ensured : CIMade(o, c)
  <2>1. checkCIDatabase(c).ensured \in {{}, {CI!Cluster(c)}}
    BY DEF checkCIDatabase, Stage
  <2>2. CI!Cluster(c).Kind = "MysqlCluster"
    BY DEF CI!Cluster
  <2> QED BY <2>1, <2>2 DEF CIMade
<1>2. \A o \in checkMinio(c).ensured : CIMade(o, c)
  <2> DEFINE secret == CreateOrUpdateMinioSecret(CI!Secret(c))
  <2>1. secret.Kind = "Secret"
    BY MinioSecretKind
  <2>2. CI!Instance(c).Kind = "MinIOInstance"
    BY DEF CI!Instance, CI!newMinioInstance
  <2>3. checkMinioSecret(c).ensured \in {{}, {secret}}
    BY DEF checkMinioSecret, Stage
  <2> HIDE DEF secret
  <2>4. checkMinio(c).ensured \subseteq checkMinioSecret(c).ensured \cup {CI!Instance(c)}
    BY DEF checkMinio, Stage
  <2> QED BY <2>1, <2>2, <2>3, <2>4 DEF CIMade
<1>3. \A o \in checkCIMattermost(c).ensured : CIMade(o, c)
  <2> DEFINE service == CI!GenerateService(c, c.Name, CI!GetProductionDeploymentName(c))
             ingress == CI!GenerateIngress(c, c.Name, c.Spec.IngressName, MainIngressAnnotations(c))
             others == {CI!GenerateServiceAccount(c, c.Name), CI!GenerateRole(c, c.Name),
                        CI!GenerateRoleBinding(c, c.Name, c.Name)}
             main == checkCIDeployment(c, c.Name, c.Spec.IngressName, CI!GetImageName(c))
  <2>1. CIMade(service, c)
    BY CIServiceIs DEF CIMade
  <2>2. CIMade(ingress, c)
    BY CIIngressIs DEF CIMade
  <2>3. \A o \in others : CIMade(o, c)
    BY DEF CI!GenerateServiceAccount, CI!GenerateRole, CI!GenerateRoleBinding, CIMade
  <2>4. \A o \in main.ensured : CIMade(o, c)
    BY CIDeploymentMade
  <2>5. checkCIMattermost(c).ensured \subseteq {service, ingress} \cup others \cup main.ensured
    BY DEF checkCIMattermost, Stage
  <2> HIDE DEF service, ingress, others, main
  <2> QED BY <2>1, <2>2, <2>3, <2>4, <2>5
<1>4. \A o \in checkBlueGreen(c).ensured : CIMade(o, c)
  <2> DEFINE FrontEnd(d) == FrontOf(c, d.Name, d.IngressName, c.Spec.IngressAnnotations,
                                 ~c.Spec.UseServiceLoadBalancer)
             Deployed(d) == checkCIDeployment(c, d.Name, d.IngressName,
                                              CI!GetDeploymentImageName(d)).ensured
             blue == c.Spec.BlueGreen.Blue
             green == c.Spec.BlueGreen.Green
  <2>1. \A d : \A o \in FrontEnd(d) \cup Deployed(d) : CIMade(o, c)
    BY FrontMade, CIDeploymentMade
  <2>2. checkBlueGreen(c).ensured \subseteq
            FrontEnd(blue) \cup Deployed(blue) \cup FrontEnd(green) \cup Deployed(green)
    BY DEF checkBlueGreen, Stage
  <2> HIDE DEF FrontEnd, Deployed
  <2> QED BY <2>1, <2>2
<1>5. \A o \in checkCanary(c).ensured : CIMade(o, c)
  <2> DEFINE d == c.Spec.Canary.Deployment
             cookie == [k \in {ingressClassAnnotation, "nginx.ingress.kubernetes.io/canary",
                               "nginx.ingress.kubernetes.io/canary-by-cookie"} |-> Plain("canary")]
             one == checkCIDeployment(c, d.Name, c.Spec.IngressName, CI!GetDeploymentImageName(d))
             front == FrontOf(c, d.Name, c.Spec.IngressName, cookie, TRUE)
  <2>1. \A o \in front \cup one.ensured : CIMade(o, c)
    BY FrontMade, CIDeploymentMade
  <2>2. checkCanary(c).ensured \in {{}, front \cup one.ensured}
    BY DEF checkCanary, Stage
  <2> HIDE DEF front, one
  <2> QED BY <2>1, <2>2
<1> QED
  BY <1>1, <1>2, <1>3, <1>4, <1>5

-----------------------------------------------------------------------------
(* The same of what a pass over a Mattermost makes: its service, *)
LEMMA ServiceIs ==
    ASSUME NEW m, NEW s, s = ApplyToService(m, GenerateServiceV1Beta(m))
    PROVE  /\ s.Kind = "Service" /\ s.Name = m.Name /\ s.Owner = OwnedBy(m)
           /\ s.Labels = MattermostLabels(m, m.Name)
           /\ s.Selector = MattermostSelectorLabels(m.Name)
           /\ AWSLoadBalancerEnabled(m) \/ ~m.Spec.UseServiceLoadBalancer => s.Ports = {8065, 8067}
<1> DEFINE fields == {"Kind", "Name", "Owner", "Labels", "Annotations", "Selector", "Type", "Ports"}
           new == newServiceV1Beta(m, mergeStringMaps(EmptyMap, m.Spec.ServiceAnnotations))
           g == GenerateServiceV1Beta(m)
<1>1. /\ fields \subseteq DOMAIN new
      /\ new.Kind = "Service" /\ new.Name = m.Name /\ new.Owner = OwnedBy(m)
      /\ new.Labels = MattermostLabels(m, m.Name)
      /\ new.Selector = MattermostSelectorLabels(m.Name)
  BY DEF newServiceV1Beta
<1>2. \/ g = configureMattermostServiceNodePort(new)
      \/ /\ ~AWSLoadBalancerEnabled(m) /\ m.Spec.UseServiceLoadBalancer
         /\ g = configureMattermostLoadBalancerService(new)
      \/ g = configureMattermostService(new)
  BY DEF GenerateServiceV1Beta
<1>3. s = g \/ \E a : s = [g EXCEPT !.Annotations = a]
  BY DEF ApplyToService, applyToService
<1> HIDE DEF new, g
<1> DEFINE Same == /\ fields \subseteq DOMAIN g
                   /\ g.Kind = new.Kind /\ g.Name = new.Name /\ g.Owner = new.Owner
                   /\ g.Labels = new.Labels /\ g.Selector = new.Selector
<1>4. CASE g = configureMattermostServiceNodePort(new)
  <2>1. Same
    BY <1>1, <1>4 DEF configureMattermostServiceNodePort
  <2>2. g.Ports = {8065, 8067}
    BY <1>1, <1>4 DEF configureMattermostServiceNodePort
  <2> QED BY <1>1, <1>3, <2>1, <2>2
<1>5. CASE /\ ~AWSLoadBalancerEnabled(m) /\ m.Spec.UseServiceLoadBalancer
           /\ g = configureMattermostLoadBalancerService(new)
  <2>1. Same
    BY <1>1, <1>5 DEF configureMattermostLoadBalancerService
  <2> QED BY <1>1, <1>3, <1>5, <2>1
<1>6. CASE g = configureMattermostService(new)
  <2>1. Same
    BY <1>1, <1>6 DEF configureMattermostService
  <2>2. g.Ports = {8065, 8067}
    BY <1>1, <1>6 DEF configureMattermostService
  <2> QED BY <1>1, <1>3, <2>1, <2>2
<1> QED
  BY <1>2, <1>4, <1>5, <1>6

(* its ingress, *)
LEMMA IngressIs ==
    ASSUME NEW m, NEW i \in checkMattermostIngress(m)
    PROVE  /\ checkMattermostIngress(m) = {i}
           /\ i.Kind = "Ingress" /\ i.Name = m.Name /\ i.Owner = OwnedBy(m)
           /\ i.Labels = MattermostLabels(m, m.Name)
           /\ i.Rules = makeIngressRules(IF AWSLoadBalancerEnabled(m)
                                         THEN GetAWSLoadBalancerHostNames(m)
                                         ELSE GetIngressHostNames(m), m)
<1>1. CASE AWSLoadBalancerEnabled(m)
  <2>1. checkMattermostIngress(m) = {GenerateALBIngressV1Beta(m)}
    BY <1>1 DEF checkMattermostIngress
  <2>2. PICK g : g = GenerateALBIngressV1Beta(m)
    OBVIOUS
  <2>3. /\ g.Kind = "Ingress" /\ g.Name = m.Name /\ g.Owner = OwnedBy(m)
        /\ g.Labels = MattermostLabels(m, m.Name)
        /\ g.Rules = makeIngressRules(GetAWSLoadBalancerHostNames(m), m)
    BY <2>2 DEF GenerateALBIngressV1Beta
  <2> QED BY <1>1, <2>1, <2>2, <2>3
<1>2. CASE ~AWSLoadBalancerEnabled(m)
  <2>1. checkMattermostIngress(m) = {GenerateIngressV1Beta(m)}
    BY <1>2 DEF checkMattermostIngress
  <2>2. PICK g : g = GenerateIngressV1Beta(m)
    OBVIOUS
  <2>3. /\ g.Kind = "Ingress" /\ g.Name = m.Name /\ g.Owner = OwnedBy(m)
        /\ g.Labels = MattermostLabels(m, m.Name)
        /\ g.Rules = makeIngressRules(GetIngressHostNames(m), m)
    BY <2>2 DEF GenerateIngressV1Beta
  <2> QED BY <1>2, <2>1, <2>2, <2>3
<1> QED
  BY <1>1, <1>2

(* the deployment of the app *)
LEMMA AppIs ==
    ASSUME NEW m, NEW db, NEW store, NEW host, NEW account, NEW image, NEW g, NEW d,
           g = GenerateDeploymentV1Beta(m, db, store, m.Name, host, account, image),
           d = ApplyToDeployment(m, g)
    PROVE  /\ d.Kind = "Deployment" /\ d.Name = m.Name /\ d.Owner = OwnedBy(m)
           /\ d.PodLabels = MattermostPodLabels(m, m.Name)
           /\ d.App.Name = MattermostAppContainerName
<1>1. d = g \/ d = [g EXCEPT !.Replicas = {PatchedReplicas}]
  BY DEF ApplyToDeployment, applyToDeployment
<1>2. /\ {"Kind", "Name", "Owner", "PodLabels", "App"} \subseteq DOMAIN g
      /\ g.Kind = "Deployment" /\ g.Name = m.Name /\ g.Owner = OwnedBy(m)
      /\ g.PodLabels = MattermostPodLabels(m, m.Name)
      /\ g.App = AppContainer(m, db, store, host, image)
  BY DEF GenerateDeploymentV1Beta
<1>3. AppContainer(m, db, store, host, image).Name = MattermostAppContainerName
  BY DEF AppContainer
<1> QED
  BY <1>1, <1>2, <1>3

(* and that of the job server. *)
LEMMA JobServerIs ==
    ASSUME NEW m, MattermostLeaves(m.Spec), NEW db, NEW store, NEW host, NEW account, NEW image,
           NEW g, NEW d,
           g = GenerateJobServerDeploymentV1Beta(m, db, store, m.Name, host, account, image),
           d = ApplyToDeployment(m, g)
    PROVE  d.Kind = "Deployment" /\ d.Name = DedicatedJobServerName(m) /\ NewPods(d)
<1> DEFINE user == mergeStringMaps(UserLabels(m), ExtraLabels(m))
           jobs == MattermostJobServerContainerName
           labels == MattermostJobServerPodLabels(m, m.Name)
           main == GenerateDeploymentV1Beta(m, db, store, m.Name, GetIngressHost(m), m.Name,
                                            GetImageName(m))
<1>1. /\ {"Kind", "Name", "Selector", "PodLabels", "Labels", "Replicas", "App", "Sidecars"}
            \subseteq DOMAIN main
      /\ main.Kind = "Deployment"
  BY DEF GenerateDeploymentV1Beta
<1>2. \E b, c, e, f, h :
        g = [main EXCEPT !.Name = m.Name \o "-jobserver", !.Labels = b, !.Replicas = c,
                         !.PodLabels = labels, !.Selector = e, !.App = f, !.Sidecars = h]
  BY DEF GenerateJobServerDeploymentV1Beta
<1>3. DOMAIN user \cap V1Alpha1Keys = {}
  BY UserLabelsLeave
<1>4. labels = mergeStringMaps(user, OwnLabels(m.Name, jobs))
  BY DEF MattermostJobServerPodLabels
<1> HIDE DEF user, jobs, labels, main
<1>5. "app" \in DOMAIN labels /\ labels["app"] = jobs
  <2>1. V1Beta1Keys \cup {"app"} \subseteq DOMAIN labels /\ labels["app"] = jobs
    BY <1>3, <1>4, OwnLabelsWritten
  <2> QED BY <2>1
<1>6. /\ {"Kind", "Name", "PodLabels"} \subseteq DOMAIN g
      /\ g.Kind = "Deployment" /\ g.Name = m.Name \o "-jobserver" /\ g.PodLabels = labels
  BY <1>1, <1>2
<1>7. d = g \/ d = [g EXCEPT !.Replicas = {PatchedReplicas}]
  BY DEF ApplyToDeployment, applyToDeployment
<1>8. d.Kind = "Deployment" /\ d.Name = DedicatedJobServerName(m) /\ d.PodLabels = labels
  BY <1>6, <1>7 DEF DedicatedJobServerName
<1> QED
  BY <1>5, <1>8, KeysApart DEF NewPods, jobs

(* The labels of an installation, on its service and its ingress. *)
LEMMA MattermostLabelsOwn ==
    ASSUME NEW m, MattermostLeaves(m.Spec), NEW o, o.Name = m.Name,
           o.Labels = MattermostLabels(m, m.Name)
    PROVE  OwnLabelled(o)
<1>1. DOMAIN UserLabels(m) \cap V1Alpha1Keys = {}
  BY UserLabelsLeave
<1>2. PICK labels : labels = MattermostLabels(m, m.Name)
  OBVIOUS
<1>3. labels = mergeStringMaps(UserLabels(m), OwnLabels(m.Name, MattermostAppContainerName))
  BY <1>2 DEF MattermostLabels
<1>4. labels[ClusterLabel] = m.Name /\ DOMAIN labels \cap V1Alpha1Keys = {}
  BY <1>1, <1>3, OwnLabelsWritten
<1> QED
  BY <1>2, <1>4 DEF OwnLabelled, V1Alpha1Keys

(* All of them are marked, *)
LEMMA AppMarked ==
    ASSUME NEW m, MattermostLeaves(m.Spec), NEW db, NEW store
    PROVE  \A o \in checkMattermost(m, db, store) : Marked(o)
<1>1. \A o \in checkMattermostService(m) : Marked(o)
  BY ServiceIs, MattermostLabelsOwn DEF checkMattermostService, Marked
<1>2. \A o \in checkMattermostRBAC(m) : Marked(o)
  BY DEF checkMattermostRBAC, checkMattermostSA, GenerateServiceAccountV1Beta, GenerateRoleV1Beta,
         GenerateRoleBindingV1Beta, Bare, Marked
<1>3. \A o \in checkMattermostIngressClass(m) : Marked(o)
  BY DEF checkMattermostIngressClass, GenerateALBIngressClassV1Beta, Marked
<1>4. \A o \in checkMattermostIngress(m) : Marked(o)
  BY IngressIs, MattermostLabelsOwn DEF Marked
<1>5. \A o \in checkMattermostDeployment(m, db, store) : Marked(o)
  <2>1. PICK g : g = GenerateDeploymentV1Beta(m, db, store, m.Name, GetIngressHost(m), m.Name,
                                              GetImageName(m))
    OBVIOUS
  <2>2. PICK d : d = ApplyToDeployment(m, g)
    OBVIOUS
  <2>3. /\ d.Kind = "Deployment"
        /\ d.PodLabels = MattermostPodLabels(m, m.Name)
        /\ d.App.Name = MattermostAppContainerName
    BY <2>1, <2>2, AppIs
  <2>4. PICK labels : labels = MattermostPodLabels(m, m.Name)
    OBVIOUS
  <2>5. labels = mergeStringMaps(mergeStringMaps(UserLabels(m), ExtraLabels(m)),
                                 OwnLabels(m.Name, MattermostAppContainerName))
    BY <2>4 DEF MattermostPodLabels
  <2>6. "app" \in DOMAIN labels
    BY <2>5 DEF mergeStringMaps, OwnLabels
  <2>7. Marked(d)
    BY <2>3, <2>4, <2>6 DEF Marked, NewPods
  <2> QED BY <2>1, <2>2, <2>7 DEF checkMattermostDeployment
<1>6. \A o \in checkMattermostJobServer(m, db, store) : Marked(o)
  <2>1. PICK g : g = GenerateJobServerDeploymentV1Beta(m, db, store, m.Name, GetIngressHost(m),
                                                       m.Name, GetImageName(m))
    OBVIOUS
  <2>2. PICK d : d = ApplyToDeployment(m, g)
    OBVIOUS
  <2>3. d.Kind = "Deployment" /\ d.Name = DedicatedJobServerName(m) /\ NewPods(d)
    BY <2>1, <2>2, JobServerIs
  <2>4. Marked(d)
    BY <2>3 DEF Marked
  <2> QED BY <2>1, <2>2, <2>4 DEF checkMattermostJobServer
<1> QED
  BY <1>1, <1>2, <1>3, <1>4, <1>5, <1>6 DEF checkMattermost

(* A claim is all that is made for a file store in a local volume. *)
LEMMA LocalKinds ==
    ASSUME NEW m
    PROVE  \A o \in checkLocalFileStore(m).ensured : o.Kind = "PersistentVolumeClaim"
<1> DEFINE local == Deref(m.Spec.FileStore.Local, Unset)
           current == Found("PersistentVolumeClaim", m.Name)
           modes == determineAccessModes(local, current)
           size == OrDefault(local.StorageSize, DefaultStorageSize)
           claim == [Kind |-> "PersistentVolumeClaim", Name |-> m.Name, Owner |-> OwnedBy(m),
                     Labels |-> MattermostLabels(m, m.Name), AccessModes |-> modes,
                     Storage |-> size, Phase |-> "Pending"]
           updated == {[claim EXCEPT !.Phase = c.Phase,
                                     !.Owner = IF c.Storage = size THEN c.Owner ELSE Nobody] :
                          c \in current}
<1>1. checkLocalFileStore(m).ensured \in {{}, {Deref(updated, claim)}}
  BY DEF checkLocalFileStore, Stage
<1>2. claim.Kind = "PersistentVolumeClaim" /\ "Kind" \in DOMAIN claim
  OBVIOUS
<1> HIDE DEF claim
<1>3. \A u \in updated : u.Kind = "PersistentVolumeClaim"
  BY <1>2
<1> HIDE DEF updated
<1>4. Deref(updated, claim) \in updated \cup {claim}
  BY DEF Deref
<1> QED
  BY <1>1, <1>2, <1>3, <1>4

(* What comes before them is neither service, ingress nor deployment. *)
LEMMA PreparedKinds ==
    ASSUME Keyed, NEW m
    PROVE  \A o \in checkDatabase(m).ensured \cup checkFileStore(m).ensured :
                o.Kind \in {"MysqlCluster", "Secret", "PersistentVolumeClaim", "MinIOInstance"}
<1>1. \A o \in checkDatabase(m).ensured : o.Kind \in {"MysqlCluster", "Secret"}
  <2> DEFINE secret == GetOrCreateMySQLSecrets(OwnedBy(m), m.Name \o "-mysql-root-password")
  <2>1. secret.Kind = "Secret"
    BY MySQLSecretKind
  <2>2. ClusterV1Beta(m).Kind = "MysqlCluster"
    BY DEF ClusterV1Beta
  <2>3. checkDatabase(m).ensured \in {{}, {ClusterV1Beta(m), secret}}
    BY DEF checkDatabase, checkOperatorManagedMySQL, Stage
  <2> HIDE DEF secret
  <2> QED BY <2>1, <2>2, <2>3
<1>2. \A o \in checkLocalFileStore(m).ensured : o.Kind = "PersistentVolumeClaim"
  BY LocalKinds
<1>3. checkExternalFileStore(m).ensured = {} /\ checkExternalVolumeFileStore(m).ensured = {}
  BY DEF checkExternalFileStore, checkExternalVolumeFileStore, Stage
<1>4. \A o \in checkOperatorManagedMinio(m).ensured : o.Kind \in {"Secret", "MinIOInstance"}
  <2> DEFINE secret == CreateOrUpdateMinioSecret(SecretV1Beta(m))
  <2>1. secret.Kind = "Secret"
    BY MinioSecretKind
  <2>2. InstanceV1Beta(m).Kind = "MinIOInstance"
    BY DEF InstanceV1Beta, newMinioInstance
  <2>3. checkOperatorManagedMinio(m).ensured = {secret, InstanceV1Beta(m)}
    BY DEF checkOperatorManagedMinio, Stage
  <2> HIDE DEF secret
  <2> QED BY <2>1, <2>2, <2>3
<1>5. checkFileStore(m) \in {checkExternalFileStore(m), checkExternalVolumeFileStore(m),
                             checkLocalFileStore(m), checkOperatorManagedMinio(m)}
  BY DEF checkFileStore
<1> QED
  BY <1>1, <1>2, <1>3, <1>4, <1>5

-----------------------------------------------------------------------------
(* After a pass an object is as it was, or one that the pass asked for; *)
LEMMA LeftFrom ==
    ASSUME NEW ensured, NEW removed, objects' = Left(ensured, removed)
    PROVE  \A k \in DOMAIN objects' :
            \/ k \in DOMAIN objects /\ objects'[k] = objects[k]
            \/ objects'[k] \in ensured /\ Key(objects'[k]) = k
<1> DEFINE written == {o \in ensured : ~Refused(o)}
           keys == {Key(o) : o \in written}
<1>1. /\ DOMAIN objects' = (DOMAIN objects \cup keys) \ removed
      /\ \A k \in DOMAIN objects' :
            objects'[k] = IF k \in keys THEN Store(written)[k] ELSE objects[k]
  BY DEF Left, Restrict, mergeStringMaps, Store
<1>2. \A k \in keys : Store(written)[k] \in ensured /\ Key(Store(written)[k]) = k
  BY DEF Store
<1> HIDE DEF written, keys
<1> QED
  BY <1>1, <1>2

(* and what it asked for is there, unless the API server refused it or the *)
(* pass itself removed it.                                                 *)
LEMMA LeftHas ==
    ASSUME NEW ensured, NEW removed, objects' = Left(ensured, removed),
           NEW o \in ensured, ~Refused(o), Key(o) \notin removed
    PROVE  /\ Key(o) \in DOMAIN objects'
           /\ objects'[Key(o)] \in ensured /\ Key(objects'[Key(o)]) = Key(o)
<1> DEFINE written == {x \in ensured : ~Refused(x)}
           keys == {Key(x) : x \in written}
<1>1. /\ DOMAIN objects' = (DOMAIN objects \cup keys) \ removed
      /\ \A k \in DOMAIN objects' :
            objects'[k] = IF k \in keys THEN Store(written)[k] ELSE objects[k]
  BY DEF Left, Restrict, mergeStringMaps, Store
<1>2. \A k \in keys : Store(written)[k] \in ensured /\ Key(Store(written)[k]) = k
  BY DEF Store
<1>3. Key(o) \in keys
  OBVIOUS
<1> HIDE DEF written, keys
<1> QED
  BY <1>1, <1>2, <1>3

(* The MinIO operator adds a service without labels where there was none. *)
LEMMA MinioOperatorAdds ==
    ASSUME MinioOperator
    PROVE  \E h : /\ h.Kind = "Service" /\ DOMAIN h.Labels = {}
                  /\ Key(h) \notin DOMAIN objects
                  /\ DOMAIN objects' = DOMAIN objects \cup {Key(h)}
                  /\ \A k \in DOMAIN objects' :
                        objects'[k] = IF k = Key(h) THEN h ELSE objects[k]
<1>1. PICK o : /\ Found("Service", HeadlessService(o).Name) = {}
               /\ objects' = mergeStringMaps(objects, Store({HeadlessService(o)}))
  BY DEF MinioOperator
<1>2. PICK h : h = HeadlessService(o)
  OBVIOUS
<1>3. h.Kind = "Service" /\ DOMAIN h.Labels = {}
  BY <1>2 DEF HeadlessService, EmptyMap
<1>4. Key(h) \notin DOMAIN objects
  BY <1>1, <1>2, <1>3 DEF Found, Key
<1>5. /\ DOMAIN objects' = DOMAIN objects \cup {Key(h)}
      /\ \A k \in DOMAIN objects' : objects'[k] = IF k = Key(h) THEN h ELSE objects[k]
  BY <1>1, <1>2 DEF mergeStringMaps, Store
<1> QED
  BY <1>3, <1>4, <1>5

(* All objects stay marked, in a migration as well: the deployment that it *)
(* makes again runs the app.                                               *)
LEMMA MarkedOfMigration ==
    ASSUME ObjectsInv, MarkedInv, Migrate
    PROVE  MarkedInv'
<1>1. PICK c \in ci : \E m \in ConvertToMM(c, Found("Secret", c.Spec.Database.Secret)) :
        \E d \in Found("Deployment", c.Name) :
            /\ objects' = [objects EXCEPT ![Key(d)] = Relabelled(d, m)]
            /\ ci' = {}
  BY DEF Migrate, Relabelled
<1>2. PICK m \in ConvertToMM(c, Found("Secret", c.Spec.Database.Secret)) :
        \E d \in Found("Deployment", c.Name) :
            objects' = [objects EXCEPT ![Key(d)] = Relabelled(d, m)]
  BY <1>1
<1>3. PICK d \in Found("Deployment", c.Name) :
            objects' = [objects EXCEPT ![Key(d)] = Relabelled(d, m)]
  BY <1>2
<1>4. PICK e : e = Relabelled(d, m)
  OBVIOUS
<1>5. /\ Key(d) \in DOMAIN objects /\ d = objects[Key(d)]
      /\ Proper(d) /\ d.Kind = "Deployment"
  BY <1>3 DEF ObjectsInv, Keyed, Found, Key
<1>6. d.App.Name = MattermostAppContainerName
  BY <1>5 DEF MarkedInv, OldPods
<1>7. /\ e.Kind = d.Kind /\ e.App = d.App
      /\ e.PodLabels = MattermostLabels(m, m.Name)
  BY <1>4, <1>5 DEF Proper, SelectsOwn, Relabelled
<1>8. "app" \in DOMAIN MattermostLabels(m, m.Name)
  BY DEF MattermostLabels, mergeStringMaps, OwnLabels
<1>9. Marked(e)
  BY <1>5, <1>6, <1>7, <1>8 DEF Marked, NewPods
<1>10. /\ DOMAIN objects' = DOMAIN objects
       /\ \A k \in DOMAIN objects : objects'[k] = IF k = Key(d) THEN e ELSE objects[k]
  BY <1>3, <1>4, <1>5
<1> QED
  BY <1>1, <1>9, <1>10 DEF MarkedInv

(* Every step keeps the marks. *)
LEMMA MarkedNext ==
    ASSUME SpecInv, ObjectsInv, MarkedInv, [Next]_vars
    PROVE  MarkedInv'
<1>1. CASE ReconcileMattermost
  <2>1. PICK old, m, prepared, app, removed :
            /\ old \in mm
            /\ m = Normalised(old)
            /\ mm' = {m} /\ ci' = ci
            /\ prepared \subseteq checkDatabase(m).ensured \cup checkFileStore(m).ensured
            /\ app = {} \/ \E db, store : app = checkMattermost(m, db, store)
            /\ removed \subseteq Unwanted(m)
            /\ objects' = Left(prepared \cup app, removed)
    BY <1>1, MattermostPass
  <2>2. Shaped(old) /\ ci = {}
    BY <2>1 DEF SpecInv
  <2>3. Keyed /\ MattermostLeaves(m.Spec)
    BY <2>1, <2>2, NormalisedLeaves DEF ObjectsInv
  <2>4. \A o \in prepared : Marked(o)
    BY <2>1, <2>3, PreparedKinds DEF Marked
  <2>5. \A o \in app : Marked(o)
    <3>1. CASE app = {}
      BY <3>1
    <3>2. CASE app # {}
      <4>1. PICK db, store : app = checkMattermost(m, db, store)
        BY <2>1, <3>2
      <4> QED BY <2>3, <4>1, AppMarked
    <3> QED BY <3>1, <3>2
  <2>6. PICK ensured : ensured = prepared \cup app
    OBVIOUS
  <2>7. \A k \in DOMAIN objects' :
            \/ k \in DOMAIN objects /\ objects'[k] = objects[k]
            \/ objects'[k] \in ensured /\ Key(objects'[k]) = k
    BY <2>1, <2>6, LeftFrom
  <2> QED BY <2>1, <2>2, <2>4, <2>5, <2>6, <2>7 DEF MarkedInv
<1>2. CASE ReconcileClusterInstallation
  <2>1. PICK old, c, ensured, removed :
            /\ old \in ci
            /\ c = CINormalised(old)
            /\ ci' = {c} /\ mm' = mm
            /\ ensured \subseteq CIEnsured(c) /\ removed \subseteq BlueGreenRemoves(c)
            /\ objects' = Left(ensured, removed)
    BY <1>2, CIPass
  <2>2. CIShaped(old)
    BY <2>1 DEF SpecInv
  <2>3. Keyed /\ InstallationLeaves(c.Spec)
    BY <2>1, <2>2, CINormalisedLeaves DEF ObjectsInv
  <2>4. \A o \in ensured : CIMade(o, c)
    BY <2>1, <2>3, CIAllMade DEF CIEnsured
  <2>5. \A o \in ensured : Marked(o) /\ (o.Kind = "Deployment" => OldPods(o))
    BY <2>3, <2>4, CIMadeMarked DEF CIMade
  <2>6. \A k \in DOMAIN objects' :
            \/ k \in DOMAIN objects /\ objects'[k] = objects[k]
            \/ objects'[k] \in ensured /\ Key(objects'[k]) = k
    BY <2>1, LeftFrom
  <2> QED BY <2>1, <2>5, <2>6 DEF MarkedInv
<1>3. CASE RejectMattermost \/ RejectClusterInstallation \/ UNCHANGED vars
  <2>1. objects' = objects /\ ci' = ci
    BY <1>3 DEF RejectMattermost, RejectClusterInstallation, vars
  <2> QED BY <2>1 DEF MarkedInv
<1>4. CASE Migrate
  BY <1>4, MarkedOfMigration
<1>5. CASE EditMattermost \/ EditInstallation
  <2>1. objects' = objects /\ (ci = {} => ci' = {})
    BY <1>5 DEF EditMattermost, EditInstallation, Wrote
  <2> QED BY <2>1 DEF MarkedInv
<1>6. CASE RemoveInstallation
  <2>1. /\ DOMAIN objects' \subseteq DOMAIN objects
        /\ \A k \in DOMAIN objects' : objects'[k] = objects[k]
        /\ ci' = ci
    BY <1>6 DEF RemoveInstallation, Restrict
  <2> QED BY <2>1 DEF MarkedInv
<1>7. CASE MinioOperator
  <2>1. PICK h : /\ h.Kind = "Service" /\ DOMAIN h.Labels = {}
                 /\ Key(h) \notin DOMAIN objects
                 /\ DOMAIN objects' = DOMAIN objects \cup {Key(h)}
                 /\ \A k \in DOMAIN objects' :
                        objects'[k] = IF k = Key(h) THEN h ELSE objects[k]
    BY <1>7, MinioOperatorAdds
  <2>2. Marked(h)
    BY <2>1 DEF Marked, OwnLabelled
  <2>3. ci' = ci
    BY <1>7 DEF MinioOperator
  <2> QED BY <2>1, <2>2, <2>3 DEF MarkedInv
<1> QED
  BY <1>1, <1>2, <1>3, <1>4, <1>5, <1>6, <1>7 DEF Next

(* The objects of users do not pass for the operator's. *)
LEMMA MarkedInit == Init => MarkedInv
<1> SUFFICES ASSUME Init PROVE MarkedInv
  OBVIOUS
<1>1. \A k \in DOMAIN objects : objects[k] \in UserObjects
  BY DEF Init, Store
<1>2. \A o \in UserObjects : o.Kind # "Deployment" /\ Marked(o)
  BY UserObjectsNamed DEF Marked, OwnLabelled
<1> QED
  BY <1>1, <1>2 DEF MarkedInv

-----------------------------------------------------------------------------
(* The names of blue, green and the canary are never that of the           *)
(* installation.                                                           *)

(* The names that a spec gives to blue and green, and to the canary, with  *)
(* those that stand for the ones it leaves out.                            *)
NamedColours(c) ==
    {OrDefault(c.Spec.BlueGreen.Blue.Name, c.Name \o "-blue"),
     OrDefault(c.Spec.BlueGreen.Green.Name, c.Name \o "-green")}

(* (the one of the canary) *)
NamedCanary(c) == OrDefault(c.Spec.Canary.Deployment.Name, c.Name \o "-canary")

(* They are among those that users write, those in the status as well. *)
Named(c) ==
    /\ c.Name = BaseInstallation.Name
    /\ NamedColours(c) \subseteq Colours
    /\ NamedCanary(c) \in Canaries

(* In every state. *)
NamesInv ==
    /\ recorded \subseteq Colours
    /\ \A c \in ci : Named(c)

(* A pass fills in the names, and does not change those that are there. *)
LEMMA NormalisedNames ==
    ASSUME NEW c, CIShaped(c), NEW n, n = CINormalised(c)
    PROVE  /\ n.Name = c.Name
           /\ NamedColours(n) = NamedColours(c)
           /\ NamedCanary(n) = NamedCanary(c)
           /\ n.Spec.BlueGreen.Enable => Two(n) = NamedColours(n)
           /\ n.Spec.Canary.Enable => n.Spec.Canary.Deployment.Name = NamedCanary(n)
<1>1. /\ n.Name = c.Name
      /\ n.Spec.BlueGreen = CI!BlueGreenSetDefaults(c.Spec.BlueGreen, c)
      /\ n.Spec.Canary = CI!CanarySetDefaults(c.Spec.Canary, c)
  BY CINormalisedSettled
<1>2. PICK bg, canary : bg = c.Spec.BlueGreen /\ canary = c.Spec.Canary
  OBVIOUS
<1>3. ShapedBlueGreen(bg) /\ ShapedCanary(canary)
  BY <1>2 DEF CIShaped
<1>4. PICK blue, green, third :
        /\ blue = c.Name \o "-blue" /\ green = c.Name \o "-green" /\ third = c.Name \o "-canary"
  OBVIOUS
<1>5. PICK newBg, newCanary :
        newBg = CI!BlueGreenSetDefaults(bg, c) /\ newCanary = CI!CanarySetDefaults(canary, c)
  OBVIOUS
<1>6. IF bg.Enable
      THEN /\ newBg.Blue.Name = OrDefault(bg.Blue.Name, blue)
           /\ newBg.Green.Name = OrDefault(bg.Green.Name, green)
           /\ newBg.Enable
      ELSE newBg = bg
  <2>1. CASE bg.Enable
    <3>1. /\ newBg.Blue.Name = CI!OrDefault(bg.Blue.Name, blue)
          /\ newBg.Green.Name = CI!OrDefault(bg.Green.Name, green)
          /\ newBg.Enable = bg.Enable
      BY <1>3, <1>4, <1>5, <2>1
      DEF CI!BlueGreenSetDefaults, ShapedBlueGreen, IsRecord, AppFields
    <3> QED BY <2>1, <3>1, SameVocabulary
  <2>2. CASE ~bg.Enable
    BY <1>5, <2>2 DEF CI!BlueGreenSetDefaults
  <2> QED BY <2>1, <2>2
<1>7. IF canary.Enable
      THEN newCanary.Deployment.Name = OrDefault(canary.Deployment.Name, third)
      ELSE newCanary = canary
  <2>1. CASE canary.Enable
    <3>1. newCanary.Deployment.Name = CI!OrDefault(canary.Deployment.Name, third)
      BY <1>3, <1>4, <1>5, <2>1 DEF CI!CanarySetDefaults, ShapedCanary, IsRecord, AppFields
    <3> QED BY <2>1, <3>1, SameVocabulary
  <2>2. CASE ~canary.Enable
    BY <1>5, <2>2 DEF CI!CanarySetDefaults
  <2> QED BY <2>1, <2>2
<1>8. \A x, y : OrDefault(OrDefault(x, y), y) = OrDefault(x, y)
  BY DEF OrDefault
<1>9. /\ NamedColours(c) = {OrDefault(bg.Blue.Name, blue), OrDefault(bg.Green.Name, green)}
      /\ NamedColours(n) = {OrDefault(newBg.Blue.Name, blue), OrDefault(newBg.Green.Name, green)}
      /\ NamedCanary(c) = OrDefault(canary.Deployment.Name, third)
      /\ NamedCanary(n) = OrDefault(newCanary.Deployment.Name, third)
  BY <1>1, <1>2, <1>4, <1>5 DEF NamedColours, NamedCanary
<1>10. /\ n.Spec.BlueGreen = newBg /\ n.Spec.Canary = newCanary
       /\ Two(n) = {newBg.Blue.Name, newBg.Green.Name}
  BY <1>1, <1>2, <1>5 DEF Two
<1>11. NamedColours(n) = NamedColours(c) /\ (newBg.Enable => Two(n) = NamedColours(n))
  BY <1>6, <1>8, <1>9, <1>10
<1>12. /\ NamedCanary(n) = NamedCanary(c)
       /\ canary.Enable => newCanary.Deployment.Name = NamedCanary(n)
  BY <1>7, <1>8, <1>9
<1>13. newCanary.Enable = canary.Enable
  BY <1>3, <1>5 DEF CI!CanarySetDefaults, ShapedCanary, IsRecord
<1> QED
  BY <1>1, <1>10, <1>11, <1>12, <1>13

(* The names that users write are the ones the assumptions speak of. *)
LEMMA WrittenNames ==
    ASSUME NEW c, CIShaped(c), Named(c), NEW f \in DOMAIN InstallationChoices,
           NEW v \in InstallationChoices[f], NEW n, n = [c EXCEPT !.Spec[f] = v]
    PROVE  Named(n)
<1>1. /\ n.Name = c.Name
      /\ n.Spec = [c.Spec EXCEPT ![f] = v]
      /\ IsRecord(c.Spec, CISpecFields)
  BY DEF CIShaped, IsRecord
<1>2. f \in CISpecFields
  BY ChoiceFields
<1>3. n.Spec.BlueGreen = IF f = "BlueGreen" THEN v ELSE c.Spec.BlueGreen
  BY <1>1, <1>2 DEF IsRecord, CISpecFields
<1>4. n.Spec.Canary = IF f = "Canary" THEN v ELSE c.Spec.Canary
  BY <1>1, <1>2 DEF IsRecord, CISpecFields
<1>5. v \in InstallationWrites(f)
  BY DEF InstallationWrites
<1>6. NamedColours(n) \subseteq Colours
  <2>1. CASE f = "BlueGreen"
    BY <1>1, <1>3, <1>5, <2>1 DEF NamedColours, Colours, Named
  <2>2. CASE f # "BlueGreen"
    BY <1>1, <1>3, <2>2 DEF NamedColours, Named
  <2> QED BY <2>1, <2>2
<1>7. NamedCanary(n) \in Canaries
  <2>1. CASE f = "Canary"
    BY <1>1, <1>4, <1>5, <2>1 DEF NamedCanary, Canaries, Named
  <2>2. CASE f # "Canary"
    BY <1>1, <1>4, <2>2 DEF NamedCanary, Named
  <2> QED BY <2>1, <2>2
<1> QED
  BY <1>1, <1>6, <1>7 DEF Named

(* Those of the first ClusterInstallation are. *)
LEMMA NamesInit == Init => NamesInv
<1>1. Named(BaseInstallation)
  <2>1. /\ BaseInstallation.Spec.BlueGreen \in InstallationWrites("BlueGreen")
        /\ BaseInstallation.Spec.Canary \in InstallationWrites("Canary")
    BY DEF InstallationWrites
  <2> QED BY <2>1 DEF Named, NamedColours, NamedCanary, Colours, Canaries
<1> QED
  BY <1>1 DEF Init, NamesInv

(* Every step keeps to these names. *)
LEMMA NamesNext ==
    ASSUME SpecInv, NamesInv, [Next]_vars
    PROVE  NamesInv'
<1>1. CASE ReconcileClusterInstallation
  <2>1. PICK old, c : /\ old \in ci
                      /\ c = CINormalised(old) /\ ci' = {c}
                      /\ \/ recorded' \in {recorded, {}}
                         \/ c.Spec.BlueGreen.Enable /\ recorded' = Two(c)
    BY <1>1 DEF ReconcileClusterInstallation, Two
  <2>2. CIShaped(old) /\ Named(old)
    BY <2>1 DEF SpecInv, NamesInv
  <2>3. /\ c.Name = old.Name
        /\ NamedColours(c) = NamedColours(old)
        /\ NamedCanary(c) = NamedCanary(old)
        /\ c.Spec.BlueGreen.Enable => Two(c) = NamedColours(c)
    BY <2>1, <2>2, NormalisedNames
  <2>4. Named(c)
    BY <2>2, <2>3 DEF Named
  <2>5. recorded' \subseteq Colours
    BY <2>1, <2>3, <2>4 DEF Named, NamesInv
  <2> QED BY <2>1, <2>4, <2>5 DEF NamesInv
<1>2. CASE EditInstallation
  <2>1. PICK c \in ci, f \in DOMAIN InstallationChoices : \E v \in InstallationChoices[f] :
            ci' = {[c EXCEPT !.Spec[f] = v]} /\ recorded' = recorded
    BY <1>2 DEF EditInstallation, Wrote
  <2>2. PICK v \in InstallationChoices[f] : ci' = {[c EXCEPT !.Spec[f] = v]}
    BY <2>1
  <2>3. PICK n : n = [c EXCEPT !.Spec[f] = v]
    OBVIOUS
  <2>4. Named(n)
    BY <2>3, WrittenNames DEF SpecInv, NamesInv
  <2> QED BY <2>1, <2>2, <2>3, <2>4 DEF NamesInv
<1>3. CASE \/ ReconcileMattermost \/ RejectMattermost \/ RejectClusterInstallation
           \/ Migrate \/ RemoveInstallation \/ EditMattermost \/ MinioOperator \/ UNCHANGED vars
  <2>1. recorded' = recorded /\ ci' \in {ci, {}}
    BY <1>3 DEF ReconcileMattermost, RejectMattermost, RejectClusterInstallation, Migrate,
                RemoveInstallation, EditMattermost, Wrote, MinioOperator, vars
  <2> QED BY <2>1 DEF NamesInv
<1> QED
  BY <1>1, <1>2, <1>3 DEF Next

-----------------------------------------------------------------------------
(* What is there after a pass over a Mattermost that gets through. *)

(* An object is there as it was asked for. *)
InPlace(o) == Key(o) \in DOMAIN objects /\ objects[Key(o)] = o

(* One that a pass asks for is, unless the pass asks for another under the *)
(* same key as well.                                                       *)
LEMMA LeftExactly ==
    ASSUME NEW ensured, NEW removed, objects' = Left(ensured, removed),
           NEW o \in ensured, ~Refused(o), Key(o) \notin removed,
           \A x \in ensured : Key(x) = Key(o) => x = o
    PROVE  InPlace(o)'
<1>1. /\ Key(o) \in DOMAIN objects'
      /\ objects'[Key(o)] \in ensured /\ Key(objects'[Key(o)]) = Key(o)
  BY LeftHas
<1>2. objects'[Key(o)] = o
  BY <1>1
<1> QED
  BY <1>1, <1>2 DEF InPlace

(* The app of a Mattermost with some settings. *)
App(m, db, store) ==
    ApplyToDeployment(m, GenerateDeploymentV1Beta(m, db, store, m.Name, GetIngressHost(m), m.Name,
                                                  GetImageName(m)))

(* The service, the app and the ingress of a Mattermost are those that its *)
(* spec asks for, and the status tells of the patches to them.             *)
Installed(m) ==
    /\ InPlace(ApplyToService(m, GenerateServiceV1Beta(m)))
    /\ \E db, store : InPlace(App(m, db, store))
    /\ ~m.Spec.UseServiceLoadBalancer => \A i \in checkMattermostIngress(m) : InPlace(i)
    /\ patches = [Service |-> ServicePatchStatus(m), Deployment |-> DeploymentPatchStatus(m)]

(* checkMattermost asks for one service, at most one ingress, and two      *)
(* deployments at most.                                                    *)
LEMMA AppKinds ==
    ASSUME NEW m, MattermostLeaves(m.Spec), NEW db, NEW store
    PROVE  \A o \in checkMattermost(m, db, store) :
            /\ o.Kind = "Service" => o = ApplyToService(m, GenerateServiceV1Beta(m))
            /\ o.Kind = "Ingress" => o \in checkMattermostIngress(m)
            /\ o.Kind = "Deployment" => o = App(m, db, store) \/ o.Name = DedicatedJobServerName(m)
<1> DEFINE Goal(o) ==
        /\ o.Kind = "Service" => o = ApplyToService(m, GenerateServiceV1Beta(m))
        /\ o.Kind = "Ingress" => o \in checkMattermostIngress(m)
        /\ o.Kind = "Deployment" => o = App(m, db, store) \/ o.Name = DedicatedJobServerName(m)
<1>1. \A o \in checkMattermostService(m) : Goal(o)
  BY ServiceIs DEF checkMattermostService
<1>2. \A o \in checkMattermostRBAC(m) : Goal(o)
  BY DEF checkMattermostRBAC, checkMattermostSA, GenerateServiceAccountV1Beta, GenerateRoleV1Beta,
         GenerateRoleBindingV1Beta, Bare
<1>3. \A o \in checkMattermostIngressClass(m) : Goal(o)
  BY DEF checkMattermostIngressClass, GenerateALBIngressClassV1Beta
<1>4. \A o \in checkMattermostIngress(m) : Goal(o)
  BY IngressIs
<1>5. \A o \in checkMattermostDeployment(m, db, store) : Goal(o)
  <2>1. PICK g : g = GenerateDeploymentV1Beta(m, db, store, m.Name, GetIngressHost(m), m.Name,
                                              GetImageName(m))
    OBVIOUS
  <2>2. PICK d : d = ApplyToDeployment(m, g)
    OBVIOUS
  <2>3. d.Kind = "Deployment"
    BY <2>1, <2>2, AppIs
  <2>4. d = App(m, db, store) /\ checkMattermostDeployment(m, db, store) = {d}
    BY <2>1, <2>2 DEF checkMattermostDeployment, App
  <2> QED BY <2>3, <2>4
<1>6. \A o \in checkMattermostJobServer(m, db, store) : Goal(o)
  <2>1. PICK g : g = GenerateJobServerDeploymentV1Beta(m, db, store, m.Name, GetIngressHost(m),
                                                       m.Name, GetImageName(m))
    OBVIOUS
  <2>2. PICK d : d = ApplyToDeployment(m, g)
    OBVIOUS
  <2>3. d.Kind = "Deployment" /\ d.Name = DedicatedJobServerName(m) /\ NewPods(d)
    BY <2>1, <2>2, JobServerIs
  <2>4. checkMattermostJobServer(m, db, store) \subseteq {d}
    BY <2>1, <2>2 DEF checkMattermostJobServer
  <2> QED BY <2>3, <2>4
<1> HIDE DEF Goal
<1>7. \A o \in checkMattermost(m, db, store) : Goal(o)
  BY <1>1, <1>2, <1>3, <1>4, <1>5, <1>6 DEF checkMattermost
<1> QED
  BY <1>7 DEF Goal

(* A pass over a Mattermost that gets through has been through all its     *)
(* stages.                                                                 *)
LEMMA MattermostPassDone ==
    ASSUME ReconcileMattermost, pass' = "done"
    PROVE  \E old \in mm : \E m, prepared, db, store :
            /\ m = Normalised(old)
            /\ mm' = {m} /\ ci' = ci
            /\ prepared \subseteq checkDatabase(m).ensured \cup checkFileStore(m).ensured
            /\ objects' = Left(prepared \cup checkMattermost(m, db, store), Unwanted(m))
            /\ \A o \in checkMattermost(m, db, store) : ~Refused(o)
            /\ patches' = [Service |-> ServicePatchStatus(m),
                           Deployment |-> DeploymentPatchStatus(m)]
<1>1. PICK old \in mm :
        LET m == Normalised(old)
            database == checkDatabase(m)
            store == checkFileStore(m)
            prepared == database.ensured
                        \cup IF database.result = {} THEN {} ELSE store.ensured
            ok == database.result # {} /\ store.result # {} /\ checkLicence(m)
            app == IF ok THEN checkMattermost(m, Deref(database.result, Unset),
                                              Deref(store.result, Unset))
                   ELSE {}
        IN /\ mm' = {m}
           /\ objects' = Left(prepared \cup app, IF ok THEN Unwanted(m) ELSE {})
           /\ patches' = IF ok THEN [Service |-> ServicePatchStatus(m),
                                     Deployment |-> DeploymentPatchStatus(m)]
                         ELSE patches
           /\ Outcome(ok, app)
           /\ ci' = ci
  BY DEF ReconcileMattermost
<1>2. PICK m, database, store, prepared :
        /\ m = Normalised(old)
        /\ database = checkDatabase(m) /\ store = checkFileStore(m)
        /\ prepared = database.ensured \cup IF database.result = {} THEN {} ELSE store.ensured
  OBVIOUS
<1>3. PICK ok : ok = (database.result # {} /\ store.result # {} /\ checkLicence(m))
  OBVIOUS
<1>4. PICK db, info : db = Deref(database.result, Unset) /\ info = Deref(store.result, Unset)
  OBVIOUS
<1>5. PICK app : app = IF ok THEN checkMattermost(m, db, info) ELSE {}
  OBVIOUS
<1>6. /\ mm' = {m} /\ ci' = ci
      /\ objects' = Left(prepared \cup app, IF ok THEN Unwanted(m) ELSE {})
      /\ patches' = IF ok THEN [Service |-> ServicePatchStatus(m),
                                Deployment |-> DeploymentPatchStatus(m)]
                    ELSE patches
      /\ Outcome(ok, app)
  BY <1>1, <1>2, <1>3, <1>4, <1>5
<1>7. ok /\ \A o \in app : ~Refused(o)
  BY <1>6 DEF Outcome
<1>8. app = checkMattermost(m, db, info)
  BY <1>5, <1>7
<1>9. prepared \subseteq checkDatabase(m).ensured \cup checkFileStore(m).ensured
  BY <1>2
<1>10. /\ objects' = Left(prepared \cup app, Unwanted(m))
       /\ patches' = [Service |-> ServicePatchStatus(m), Deployment |-> DeploymentPatchStatus(m)]
  BY <1>6, <1>7
<1> QED
  BY <1>2, <1>6, <1>7, <1>8, <1>9, <1>10

(* After it, everything is in place. *)
LEMMA PassInstalls ==
    ASSUME SpecInv, ObjectsInv, ReconcileMattermost, pass' = "done"
    PROVE  \A m \in mm' : Installed(m)'
<1>1. PICK old, m, prepared, db, store :
        /\ old \in mm
        /\ m = Normalised(old)
        /\ mm' = {m} /\ ci' = ci
        /\ prepared \subseteq checkDatabase(m).ensured \cup checkFileStore(m).ensured
        /\ objects' = Left(prepared \cup checkMattermost(m, db, store), Unwanted(m))
        /\ \A o \in checkMattermost(m, db, store) : ~Refused(o)
        /\ patches' = [Service |-> ServicePatchStatus(m), Deployment |-> DeploymentPatchStatus(m)]
  BY MattermostPassDone
<1>2. Shaped(old)
  BY <1>1 DEF SpecInv
<1>3. m.Name = old.Name
  BY <1>1, <1>2, NormalisedSettled
<1>4. Keyed /\ m.Name \in Names /\ MattermostLeaves(m.Spec)
  BY <1>1, <1>2, <1>3, NormalisedLeaves DEF ObjectsInv
<1>5. m.Name # DedicatedJobServerName(m)
  BY <1>4, JobServerNamesApart DEF Names, DedicatedJobServerName
<1>6. PICK app, ensured :
        app = checkMattermost(m, db, store) /\ ensured = prepared \cup app
  OBVIOUS
<1>7. objects' = Left(ensured, Unwanted(m)) /\ \A o \in app : ~Refused(o)
  BY <1>1, <1>6
<1>8. \A o \in prepared : o.Kind \notin {"Service", "Ingress", "Deployment"}
  BY <1>1, <1>4, PreparedKinds
<1>9. \A o \in app :
        /\ o.Kind = "Service" => o = ApplyToService(m, GenerateServiceV1Beta(m))
        /\ o.Kind = "Ingress" => o \in checkMattermostIngress(m)
        /\ o.Kind = "Deployment" => o = App(m, db, store) \/ o.Name = DedicatedJobServerName(m)
  BY <1>4, <1>6, AppKinds
<1>10. InPlace(ApplyToService(m, GenerateServiceV1Beta(m)))'
  <2>1. PICK s : s = ApplyToService(m, GenerateServiceV1Beta(m))
    OBVIOUS
  <2>2. s.Kind = "Service"
    BY <2>1, ServiceIs
  <2>3. s \in app
    BY <1>6, <2>1 DEF checkMattermost, checkMattermostService
  <2>4. Key(s) \notin Unwanted(m)
    BY <2>2 DEF Unwanted, Key
  <2>5. \A x \in ensured : Key(x) = Key(s) => x = s
    BY <1>6, <1>8, <1>9, <2>1, <2>2 DEF Key
  <2>6. InPlace(s)'
    BY <1>6, <1>7, <2>3, <2>4, <2>5, LeftExactly
  <2> QED BY <2>1, <2>6
<1>11. InPlace(App(m, db, store))'
  <2>1. PICK g : g = GenerateDeploymentV1Beta(m, db, store, m.Name, GetIngressHost(m), m.Name,
                                              GetImageName(m))
    OBVIOUS
  <2>2. PICK d : d = ApplyToDeployment(m, g)
    OBVIOUS
  <2>3. d.Kind = "Deployment" /\ d.Name = m.Name
    BY <2>1, <2>2, AppIs
  <2>4. d = App(m, db, store) /\ d \in checkMattermostDeployment(m, db, store)
    BY <2>1, <2>2 DEF App, checkMattermostDeployment
  <2>5. d \in app
    BY <1>6, <2>4 DEF checkMattermost
  <2>6. Key(d) \notin Unwanted(m)
    BY <1>5, <2>3 DEF Unwanted, Key
  <2>7. \A x \in ensured : Key(x) = Key(d) => x = d
    BY <1>5, <1>6, <1>8, <1>9, <2>3, <2>4 DEF Key
  <2>8. InPlace(d)'
    BY <1>6, <1>7, <2>5, <2>6, <2>7, LeftExactly
  <2> QED BY <2>4, <2>8
<1>12. ASSUME ~m.Spec.UseServiceLoadBalancer, NEW i \in checkMattermostIngress(m)
       PROVE  InPlace(i)'
  <2>1. checkMattermostIngress(m) = {i} /\ i.Kind = "Ingress" /\ i.Name = m.Name
    BY <1>12, IngressIs
  <2>2. i \in app
    BY <1>6, <1>12 DEF checkMattermost
  <2>3. Key(i) \notin Unwanted(m)
    <3>1. Key(i) \in {Key(o) : o \in checkMattermostIngress(m)}
      BY <1>12
    <3>2. Key(i) = <<"Ingress", m.Name>>
      BY <2>1 DEF Key
    <3> QED BY <3>1, <3>2 DEF Unwanted
  <2>4. \A x \in ensured : Key(x) = Key(i) => x = i
    BY <1>6, <1>8, <1>9, <2>1 DEF Key
  <2> QED BY <1>6, <1>7, <2>2, <2>3, <2>4, LeftExactly
<1>13. Installed(m)'
  BY <1>1, <1>10, <1>11, <1>12 DEF Installed
<1> QED
  BY <1>1, <1>13

-----------------------------------------------------------------------------
(* The same of a ClusterInstallation. *)

(* An object of the kind and name is there, with the labels of the name. *)
Carries(kind, name, c) ==
    /\ <<kind, name>> \in DOMAIN objects
    /\ objects[<<kind, name>>].Labels = CI!ClusterInstallationLabels(c, name)

(* The main service and ingress are those that the spec asks for, the      *)
(* deployment in production is there, and so is what is in front of blue   *)
(* and green.                                                              *)
CIInstalled(c) ==
    /\ InPlace(CI!GenerateService(c, c.Name, CI!GetProductionDeploymentName(c)))
    /\ <<"Deployment", CI!GetProductionDeploymentName(c)>> \in DOMAIN objects
    /\ ~c.Spec.UseServiceLoadBalancer =>
        InPlace(CI!GenerateIngress(c, c.Name, c.Spec.IngressName, MainIngressAnnotations(c)))
    /\ c.Spec.BlueGreen.Enable => \A name \in Two(c) :
        /\ Carries("Service", name, c)
        /\ ~c.Spec.UseServiceLoadBalancer => Carries("Ingress", name, c)

(* A stage for a deployment that succeeds leaves the deployment. *)
LEMMA CIDeploymentKinds ==
    ASSUME Keyed, NEW c, NEW name, NEW host, NEW image,
           NEW stage, stage = checkCIDeployment(c, name, host, image)
    PROVE  /\ \A o \in stage.ensured : o.Kind \in {"Secret", "Deployment"}
           /\ stage.result # {} => \E d \in stage.ensured : d.Kind = "Deployment" /\ d.Name = name
<1> DEFINE own == GetOrCreateMySQLSecrets(CI!ClusterInstallationOwnerReference(c),
                                          CI!DefaultDatabaseSecretName(c.Name))
<1>1. own.Kind = "Secret"
  BY MySQLSecretKind
<1>2. ASSUME NEW i, NEW url, NEW o,
             o = CI!GenerateDeployment(c, i, name, host, c.Name, image, url)
      PROVE  o.Kind = "Deployment" /\ o.Name = name
  BY <1>2 DEF CI!GenerateDeployment
<1> HIDE DEF own
<1>3. PICK made :
        /\ stage.ensured = (IF c.Spec.Database.Secret = Unset THEN {own} ELSE {}) \cup made
        /\ stage.result = made
        /\ \A o \in made : \E i, url :
                o = CI!GenerateDeployment(c, i, name, host, c.Name, image, url)
  <2> DEFINE secret == IF c.Spec.Database.Secret = Unset THEN {own}
                       ELSE Found("Secret", c.Spec.Database.Secret)
             info == {i \in {GenerateDatabaseInfoFromSecret(s) : s \in secret} :
                        DatabaseInfoIsValid(i)}
             licensed == \/ c.Spec.MattermostLicenseSecret = Unset
                         \/ SecretContains(c.Spec.MattermostLicenseSecret, "license")
             urls == IF licensed THEN MinioURL(c) ELSE {}
             made == {CI!GenerateDeployment(c, i, name, host, c.Name, image, url) :
                        i \in info, url \in urls}
  <2>1. stage = Stage((IF c.Spec.Database.Secret = Unset THEN {own} ELSE {}) \cup made, made)
    BY DEF checkCIDeployment, own
  <2> HIDE DEF info, urls
  <2>2. \A o \in made : \E i, url :
            o = CI!GenerateDeployment(c, i, name, host, c.Name, image, url)
    OBVIOUS
  <2> HIDE DEF made
  <2> QED BY <2>1, <2>2 DEF Stage
<1>4. \A o \in made : o.Kind = "Deployment" /\ o.Name = name
  BY <1>2, <1>3
<1> QED
  BY <1>1, <1>3, <1>4

(* What is in front of a deployment. *)
LEMMA FrontIs ==
    ASSUME NEW c, NEW name, NEW host, NEW annotations, NEW withIngress
    PROVE  \A o \in FrontOf(c, name, host, annotations, withIngress) :
                o.Kind \in {"Service", "Ingress"} /\ o.Name = name
<1>1. ASSUME NEW o, o = CI!GenerateService(c, name, name)
      PROVE  o.Kind = "Service" /\ o.Name = name
  BY <1>1, CIServiceIs
<1>2. ASSUME NEW o, o = CI!GenerateIngress(c, name, host, annotations)
      PROVE  o.Kind = "Ingress" /\ o.Name = name
  BY <1>2, CIIngressIs
<1> QED
  BY <1>1, <1>2 DEF FrontOf

(* The names that stand beside that of the installation. *)
Beside(c) ==
    (IF c.Spec.BlueGreen.Enable THEN Two(c) ELSE {})
    \cup (IF c.Spec.Canary.Enable THEN {c.Spec.Canary.Deployment.Name} ELSE {})

(* The main service and ingress. *)
MainService(c) == CI!GenerateService(c, c.Name, CI!GetProductionDeploymentName(c))

(* (the ingress goes without a load balancer only) *)
MainIngress(c) ==
    CI!GenerateIngress(c, c.Name, c.Spec.IngressName, MainIngressAnnotations(c))

(* A pass asks for the main service and ingress, and for others only under *)
(* the names beside that of the installation.                              *)
LEMMA CIFronts ==
    ASSUME Keyed, NEW c
    PROVE  /\ MainService(c) \in CIEnsured(c)
           /\ ~c.Spec.UseServiceLoadBalancer => MainIngress(c) \in CIEnsured(c)
           /\ \A o \in CIEnsured(c) :
                o.Kind \in {"Service", "Ingress"} =>
                    o \in {MainService(c), MainIngress(c)} \/ o.Name \in Beside(c)
<1> DEFINE Goal(o) == o.Kind \in {"Service", "Ingress"} =>
                        o \in {MainService(c), MainIngress(c)} \/ o.Name \in Beside(c)
<1>1. \A o \in checkCIDatabase(c).ensured : Goal(o)
  <2>1. checkCIDatabase(c).ensured \in {{}, {CI!Cluster(c)}}
    BY DEF checkCIDatabase, Stage
  <2>2. CI!Cluster(c).Kind = "MysqlCluster"
    BY DEF CI!Cluster
  <2> QED BY <2>1, <2>2
<1>2. \A o \in checkMinio(c).ensured : Goal(o)
  <2> DEFINE secret == CreateOrUpdateMinioSecret(CI!Secret(c))
  <2>1. secret.Kind = "Secret"
    BY MinioSecretKind
  <2>2. CI!Instance(c).Kind = "MinIOInstance"
    BY DEF CI!Instance, CI!newMinioInstance
  <2>3. checkMinioSecret(c).ensured \in {{}, {secret}}
    BY DEF checkMinioSecret, Stage
  <2> HIDE DEF secret
  <2>4. checkMinio(c).ensured \subseteq checkMinioSecret(c).ensured \cup {CI!Instance(c)}
    BY DEF checkMinio, Stage
  <2> QED BY <2>1, <2>2, <2>3, <2>4
<1>3. /\ \A o \in checkCIMattermost(c).ensured : Goal(o)
      /\ MainService(c) \in checkCIMattermost(c).ensured
      /\ ~c.Spec.UseServiceLoadBalancer => MainIngress(c) \in checkCIMattermost(c).ensured
  <2> DEFINE others == {CI!GenerateServiceAccount(c, c.Name), CI!GenerateRole(c, c.Name),
                        CI!GenerateRoleBinding(c, c.Name, c.Name)}
             main == checkCIDeployment(c, c.Name, c.Spec.IngressName, CI!GetImageName(c))
             common == {MainService(c), CI!GenerateServiceAccount(c, c.Name),
                        CI!GenerateRole(c, c.Name), CI!GenerateRoleBinding(c, c.Name, c.Name)}
                       \cup IF c.Spec.UseServiceLoadBalancer THEN {} ELSE {MainIngress(c)}
  <2>1. \A o \in others : o.Kind \in {"ServiceAccount", "Role", "RoleBinding"}
    BY DEF CI!GenerateServiceAccount, CI!GenerateRole, CI!GenerateRoleBinding
  <2>2. \A o \in main.ensured : o.Kind \in {"Secret", "Deployment"}
    BY CIDeploymentKinds
  <2>3. checkCIMattermost(c).ensured \in {common, common \cup main.ensured}
    BY DEF checkCIMattermost, Stage, MainService, MainIngress
  <2>4. common \subseteq {MainService(c), MainIngress(c)} \cup others
    OBVIOUS
  <2>5. /\ MainService(c) \in common
        /\ ~c.Spec.UseServiceLoadBalancer => MainIngress(c) \in common
    OBVIOUS
  <2> HIDE DEF others, main, common
  <2> QED BY <2>1, <2>2, <2>3, <2>4, <2>5
<1>4. \A o \in checkBlueGreen(c).ensured : Goal(o)
  <2> DEFINE FrontEnd(d) == FrontOf(c, d.Name, d.IngressName, c.Spec.IngressAnnotations,
                                 ~c.Spec.UseServiceLoadBalancer)
             Deployed(d) == checkCIDeployment(c, d.Name, d.IngressName,
                                              CI!GetDeploymentImageName(d)).ensured
             blue == c.Spec.BlueGreen.Blue
             green == c.Spec.BlueGreen.Green
  <2>1. \A d : \A o \in FrontEnd(d) : o.Name = d.Name
    BY FrontIs
  <2>2. \A d : \A o \in Deployed(d) : o.Kind \in {"Secret", "Deployment"}
    BY CIDeploymentKinds
  <2>3. checkBlueGreen(c).ensured \subseteq
            IF c.Spec.BlueGreen.Enable
            THEN FrontEnd(blue) \cup Deployed(blue) \cup FrontEnd(green) \cup Deployed(green)
            ELSE {}
    BY DEF checkBlueGreen, Stage
  <2>4. c.Spec.BlueGreen.Enable => {blue.Name, green.Name} \subseteq Beside(c)
    BY DEF Beside, Two
  <2> HIDE DEF FrontEnd, Deployed, blue, green
  <2> QED BY <2>1, <2>2, <2>3, <2>4
<1>5. \A o \in checkCanary(c).ensured : Goal(o)
  <2> DEFINE d == c.Spec.Canary.Deployment
             cookie == [k \in {ingressClassAnnotation, "nginx.ingress.kubernetes.io/canary",
                               "nginx.ingress.kubernetes.io/canary-by-cookie"} |-> Plain("canary")]
             one == checkCIDeployment(c, d.Name, c.Spec.IngressName, CI!GetDeploymentImageName(d))
             front == FrontOf(c, d.Name, c.Spec.IngressName, cookie, TRUE)
  <2>1. \A o \in front : o.Name = d.Name
    <3> HIDE DEF cookie, d
    <3>1. \A with : \A o \in FrontOf(c, d.Name, c.Spec.IngressName, cookie, with) : o.Name = d.Name
      BY FrontIs
    <3> QED BY <3>1, Zenon
  <2>2. \A o \in one.ensured : o.Kind \in {"Secret", "Deployment"}
    BY CIDeploymentKinds
  <2>3. checkCanary(c).ensured = IF c.Spec.Canary.Enable THEN front \cup one.ensured ELSE {}
    BY DEF checkCanary, Stage
  <2>4. c.Spec.Canary.Enable => d.Name \in Beside(c)
    BY DEF Beside
  <2> HIDE DEF front, one, d
  <2> QED BY <2>1, <2>2, <2>3, <2>4
<1> HIDE DEF Goal
<1>6. \A o \in CIEnsured(c) : Goal(o)
  BY <1>1, <1>2, <1>3, <1>4, <1>5 DEF CIEnsured
<1>7. /\ MainService(c) \in CIEnsured(c)
      /\ ~c.Spec.UseServiceLoadBalancer => MainIngress(c) \in CIEnsured(c)
  BY <1>3 DEF CIEnsured
<1> QED
  BY <1>6, <1>7 DEF Goal

(* Once blue and green are through, each has its deployment and what is in *)
(* front of it; without them the installation has its one deployment.      *)
LEMMA CIDeployed ==
    ASSUME Keyed, NEW c, checkCIMattermost(c).result # {}, checkBlueGreen(c).result # {}
    PROVE  /\ ~c.Spec.BlueGreen.Enable =>
                \E d \in CIEnsured(c) : d.Kind = "Deployment" /\ d.Name = c.Name
           /\ c.Spec.BlueGreen.Enable => \A name \in Two(c) :
                /\ \E d \in CIEnsured(c) : d.Kind = "Deployment" /\ d.Name = name
                /\ CI!GenerateService(c, name, name) \in CIEnsured(c)
                /\ ~c.Spec.UseServiceLoadBalancer => \E host :
                    CI!GenerateIngress(c, name, host, c.Spec.IngressAnnotations) \in CIEnsured(c)
<1>1. ASSUME ~c.Spec.BlueGreen.Enable
      PROVE  \E d \in CIEnsured(c) : d.Kind = "Deployment" /\ d.Name = c.Name
  <2>1. PICK main : main = checkCIDeployment(c, c.Name, c.Spec.IngressName, CI!GetImageName(c))
    OBVIOUS
  <2>2. main.ensured \subseteq checkCIMattermost(c).ensured /\ checkCIMattermost(c).result = main.result
    BY <1>1, <2>1 DEF checkCIMattermost, Stage
  <2>3. \E d \in main.ensured : d.Kind = "Deployment" /\ d.Name = c.Name
    BY <2>1, <2>2, CIDeploymentKinds
  <2> QED BY <2>2, <2>3 DEF CIEnsured
<1>2. ASSUME c.Spec.BlueGreen.Enable, NEW name \in Two(c)
      PROVE  /\ \E d \in CIEnsured(c) : d.Kind = "Deployment" /\ d.Name = name
             /\ CI!GenerateService(c, name, name) \in CIEnsured(c)
             /\ ~c.Spec.UseServiceLoadBalancer => \E host :
                    CI!GenerateIngress(c, name, host, c.Spec.IngressAnnotations) \in CIEnsured(c)
  <2> DEFINE FrontEnd(d) == FrontOf(c, d.Name, d.IngressName, c.Spec.IngressAnnotations,
                                 ~c.Spec.UseServiceLoadBalancer)
             One(d) == checkCIDeployment(c, d.Name, d.IngressName, CI!GetDeploymentImageName(d))
             blue == c.Spec.BlueGreen.Blue
             green == c.Spec.BlueGreen.Green
  <2>1. /\ One(blue).result # {} /\ One(green).result # {}
        /\ checkBlueGreen(c).ensured =
                FrontEnd(blue) \cup One(blue).ensured \cup (FrontEnd(green) \cup One(green).ensured)
    <3> HIDE DEF FrontEnd, One, blue, green
    <3>1. checkBlueGreen(c) =
            IF One(blue).result = {} THEN Stage(FrontEnd(blue) \cup One(blue).ensured, One(blue).result)
            ELSE Stage(FrontEnd(blue) \cup One(blue).ensured \cup (FrontEnd(green) \cup One(green).ensured),
                       One(green).result)
      BY <1>2 DEF checkBlueGreen, Stage, FrontEnd, One, blue, green
    <3> QED BY <3>1 DEF Stage
  <2>2. \A d : One(d).result # {} =>
            \E e \in One(d).ensured : e.Kind = "Deployment" /\ e.Name = d.Name
    BY CIDeploymentKinds
  <2>3. \A d : CI!GenerateService(c, d.Name, d.Name) \in FrontEnd(d)
    BY DEF FrontOf
  <2>4. \A d : ~c.Spec.UseServiceLoadBalancer =>
            CI!GenerateIngress(c, d.Name, d.IngressName, c.Spec.IngressAnnotations) \in FrontEnd(d)
    BY DEF FrontOf
  <2>5. PICK d \in {blue, green} : d.Name = name
    BY <1>2 DEF Two
  <2> HIDE DEF FrontEnd, One, blue, green
  <2>6. FrontEnd(d) \cup One(d).ensured \subseteq CIEnsured(c) /\ One(d).result # {}
    BY <2>1, <2>5 DEF CIEnsured
  <2> QED BY <2>2, <2>3, <2>4, <2>5, <2>6
<1> QED
  BY <1>1, <1>2

(* The deployment in production is blue or green while they are on. *)
LEMMA ProductionIs ==
    ASSUME NEW c, CIShaped(c), CISettled(c), ~CI!SetDefaultsFails(c)
    PROVE  IF c.Spec.BlueGreen.Enable THEN CI!GetProductionDeploymentName(c) \in Two(c)
           ELSE CI!GetProductionDeploymentName(c) = c.Name
<1>1. CASE ~c.Spec.BlueGreen.Enable
  BY <1>1 DEF CI!GetProductionDeploymentName
<1>2. CASE c.Spec.BlueGreen.Enable
  <2>1. PICK bg : bg = c.Spec.BlueGreen
    OBVIOUS
  <2>2. ShapedBlueGreen(bg) /\ bg.Enable
    BY <1>2, <2>1 DEF CIShaped
  <2>3. CI!ToLower(bg.ProductionDeployment) \in {CI!BlueName, CI!GreenName}
    BY <2>1, <2>2 DEF CI!SetDefaultsFails, CI!BlueGreenSetDefaultsFails
  <2>4. CI!BlueGreenSetDefaults(bg, c) = bg
    BY <2>1 DEF CISettled
  <2>5. CI!BlueGreenSetDefaults(bg, c).ProductionDeployment = CI!ToLower(bg.ProductionDeployment)
    BY <2>2 DEF CI!BlueGreenSetDefaults, ShapedBlueGreen, IsRecord
  <2>6. bg.ProductionDeployment \in {CI!BlueName, CI!GreenName}
    BY <2>3, <2>4, <2>5
  <2> QED BY <1>2, <2>1, <2>6 DEF CI!GetProductionDeploymentName, Two
<1> QED
  BY <1>1, <1>2

(* After a pass that gets through, everything is in place. *)
LEMMA CIPassInstalls ==
    ASSUME SpecInv, SpecInv', ObjectsInv, NamesInv, ReconcileClusterInstallation, pass' = "done"
    PROVE  \A c \in ci' : CIInstalled(c)'
<1>1. PICK old, c :
        /\ old \in ci
        /\ c = CINormalised(old)
        /\ ci' = {c}
        /\ checkCIMattermost(c).result # {} /\ checkBlueGreen(c).result # {}
        /\ objects' = Left(CIEnsured(c), BlueGreenRemoves(c))
        /\ \A o \in CIEnsured(c) : ~Refused(o)
  BY CIPassDone
<1>2. CIShaped(old) /\ Named(old)
  BY <1>1 DEF SpecInv, NamesInv
<1>3. /\ c.Name = old.Name
      /\ NamedColours(c) = NamedColours(old)
      /\ NamedCanary(c) = NamedCanary(old)
      /\ c.Spec.BlueGreen.Enable => Two(c) = NamedColours(c)
      /\ c.Spec.Canary.Enable => c.Spec.Canary.Deployment.Name = NamedCanary(c)
  BY <1>1, <1>2, NormalisedNames
<1>4. Keyed /\ InstallationLeaves(c.Spec)
  BY <1>1, <1>2, CINormalisedLeaves DEF ObjectsInv
<1>5. CIShaped(c) /\ CISettled(c) /\ ~CI!SetDefaultsFails(c)
  BY <1>1 DEF SpecInv
<1>6. c.Name \notin Beside(c) /\ c.Name \notin recorded
  BY <1>2, <1>3, InstallationNamesApart DEF Beside, Named, NamesInv
<1>7. /\ \A kind : <<kind, c.Name>> \in BlueGreenRemoves(c) =>
            kind = "Deployment" /\ c.Spec.BlueGreen.Enable
      /\ c.Spec.BlueGreen.Enable => \A kind : \A name \in Two(c) :
            <<kind, name>> \notin BlueGreenRemoves(c)
  BY <1>6 DEF BlueGreenRemoves, Components, Beside
<1>8. PICK ensured : ensured = CIEnsured(c)
  OBVIOUS
<1>9. /\ MainService(c) \in ensured
      /\ ~c.Spec.UseServiceLoadBalancer => MainIngress(c) \in ensured
      /\ \A o \in ensured :
            o.Kind \in {"Service", "Ingress"} =>
                o \in {MainService(c), MainIngress(c)} \/ o.Name \in Beside(c)
  BY <1>4, <1>8, CIFronts
<1>10. /\ MainService(c).Kind = "Service" /\ MainService(c).Name = c.Name
       /\ MainIngress(c).Kind = "Ingress" /\ MainIngress(c).Name = c.Name
  BY CIServiceIs, CIIngressIs DEF MainService, MainIngress
<1>11. objects' = Left(ensured, BlueGreenRemoves(c)) /\ \A o \in ensured : ~Refused(o)
  BY <1>1, <1>8
<1>12. InPlace(MainService(c))'
  <2>1. PICK s : s = MainService(c)
    OBVIOUS
  <2>2. s \in ensured /\ Key(s) = <<"Service", c.Name>>
    BY <1>9, <1>10, <2>1 DEF Key
  <2>3. \A x \in ensured : Key(x) = Key(s) => x = s
    BY <1>6, <1>9, <1>10, <2>1, <2>2 DEF Key
  <2>4. InPlace(s)'
    BY <1>7, <1>11, <2>2, <2>3, LeftExactly
  <2> QED BY <2>1, <2>4
<1>13. ASSUME ~c.Spec.UseServiceLoadBalancer PROVE InPlace(MainIngress(c))'
  <2>1. PICK i : i = MainIngress(c)
    OBVIOUS
  <2>2. i \in ensured /\ Key(i) = <<"Ingress", c.Name>>
    BY <1>9, <1>10, <1>13, <2>1 DEF Key
  <2>3. \A x \in ensured : Key(x) = Key(i) => x = i
    BY <1>6, <1>9, <1>10, <2>1, <2>2 DEF Key
  <2>4. InPlace(i)'
    BY <1>7, <1>11, <2>2, <2>3, LeftExactly
  <2> QED BY <2>1, <2>4
<1>14. /\ ~c.Spec.BlueGreen.Enable =>
            \E d \in ensured : d.Kind = "Deployment" /\ d.Name = c.Name
       /\ c.Spec.BlueGreen.Enable => \A name \in Two(c) :
            /\ \E d \in ensured : d.Kind = "Deployment" /\ d.Name = name
            /\ CI!GenerateService(c, name, name) \in ensured
            /\ ~c.Spec.UseServiceLoadBalancer => \E host :
                CI!GenerateIngress(c, name, host, c.Spec.IngressAnnotations) \in ensured
  BY <1>1, <1>4, <1>8, CIDeployed
<1>15. <<"Deployment", CI!GetProductionDeploymentName(c)>> \in DOMAIN objects'
  <2>1. PICK name : name = CI!GetProductionDeploymentName(c)
    OBVIOUS
  <2>2. IF c.Spec.BlueGreen.Enable THEN name \in Two(c) ELSE name = c.Name
    BY <1>5, <2>1, ProductionIs
  <2>3. PICK d \in ensured : d.Kind = "Deployment" /\ d.Name = name
    BY <1>14, <2>2
  <2>4. Key(d) = <<"Deployment", name>> /\ Key(d) \notin BlueGreenRemoves(c)
    BY <1>7, <2>2, <2>3 DEF Key
  <2>5. Key(d) \in DOMAIN objects'
    BY <1>11, <2>4, LeftHas
  <2> QED BY <2>1, <2>4, <2>5
<1>16. \A o \in ensured : CIMade(o, c)
  BY <1>4, <1>8, CIAllMade DEF CIEnsured
<1>17. ASSUME c.Spec.BlueGreen.Enable, NEW name \in Two(c), NEW kind \in {"Service", "Ingress"},
              NEW o \in ensured, o.Kind = kind, o.Name = name
       PROVE  Carries(kind, name, c)'
  <2>1. Key(o) = <<kind, name>> /\ Key(o) \notin BlueGreenRemoves(c)
    BY <1>7, <1>17 DEF Key
  <2>2. /\ Key(o) \in DOMAIN objects'
        /\ objects'[Key(o)] \in ensured /\ Key(objects'[Key(o)]) = Key(o)
    BY <1>11, <2>1, LeftHas
  <2>3. PICK x : x = objects'[<<kind, name>>]
    OBVIOUS
  <2>4. x \in ensured /\ x.Kind = kind /\ x.Name = name
    BY <2>1, <2>2, <2>3 DEF Key
  <2>5. x.Labels = CI!ClusterInstallationLabels(c, name)
    BY <1>16, <2>4 DEF CIMade
  <2> QED BY <2>1, <2>2, <2>3, <2>5 DEF Carries
<1>18. ASSUME c.Spec.BlueGreen.Enable, NEW name \in Two(c)
       PROVE  /\ Carries("Service", name, c)'
              /\ ~c.Spec.UseServiceLoadBalancer => Carries("Ingress", name, c)'
  <2>1. Carries("Service", name, c)'
    <3>1. PICK s : s = CI!GenerateService(c, name, name)
      OBVIOUS
    <3>2. s \in ensured /\ s.Kind = "Service" /\ s.Name = name
      BY <1>14, <1>18, <3>1, CIServiceIs
    <3> QED BY <1>17, <1>18, <3>2
  <2>2. ASSUME ~c.Spec.UseServiceLoadBalancer PROVE Carries("Ingress", name, c)'
    <3>1. PICK host, i : /\ i = CI!GenerateIngress(c, name, host, c.Spec.IngressAnnotations)
                         /\ i \in ensured
      BY <1>14, <1>18, <2>2
    <3>2. i.Kind = "Ingress" /\ i.Name = name
      BY <3>1, CIIngressIs
    <3> QED BY <1>17, <1>18, <3>1, <3>2
  <2> QED BY <2>1, <2>2
<1>19. CIInstalled(c)'
  BY <1>12, <1>13, <1>15, <1>18 DEF CIInstalled, MainService, MainIngress
<1> QED
  BY <1>1, <1>19

-----------------------------------------------------------------------------
(* Until something is due, an installation is as its last pass left it. *)
ReconciledInv ==
    pass = "done" => /\ \A m \in mm : Installed(m)
                     /\ \A c \in ci : CIInstalled(c)

(* The objects that a Mattermost owns outlive a step that takes none of    *)
(* them.                                                                   *)
LEMMA InstalledStays ==
    ASSUME NEW m, Installed(m), patches' = patches,
           \A k \in DOMAIN objects : objects[k].Owner = OwnedBy(m) =>
                k \in DOMAIN objects' /\ objects'[k] = objects[k]
    PROVE  Installed(m)'
<1>1. ASSUME NEW o, InPlace(o), o.Owner = OwnedBy(m) PROVE InPlace(o)'
  BY <1>1 DEF InPlace
<1>2. InPlace(ApplyToService(m, GenerateServiceV1Beta(m)))'
  <2>1. PICK s : s = ApplyToService(m, GenerateServiceV1Beta(m))
    OBVIOUS
  <2>2. s.Owner = OwnedBy(m)
    BY <2>1, ServiceIs
  <2>3. InPlace(s)'
    BY <1>1, <2>1, <2>2 DEF Installed
  <2> QED BY <2>1, <2>3
<1>3. \E db, store : InPlace(App(m, db, store))'
  <2>1. PICK db, store : InPlace(App(m, db, store))
    BY DEF Installed
  <2>2. PICK g : g = GenerateDeploymentV1Beta(m, db, store, m.Name, GetIngressHost(m), m.Name,
                                              GetImageName(m))
    OBVIOUS
  <2>3. PICK d : d = ApplyToDeployment(m, g)
    OBVIOUS
  <2>4. d.Owner = OwnedBy(m)
    BY <2>2, <2>3, AppIs
  <2>5. d = App(m, db, store)
    BY <2>2, <2>3 DEF App
  <2>6. InPlace(d)'
    BY <1>1, <2>1, <2>4, <2>5
  <2> QED BY <2>5, <2>6
<1>4. ~m.Spec.UseServiceLoadBalancer => \A i \in checkMattermostIngress(m) : InPlace(i)'
  BY <1>1, IngressIs DEF Installed
<1> QED
  BY <1>2, <1>3, <1>4 DEF Installed

(* What is there of a ClusterInstallation does when nothing is taken. *)
LEMMA CIInstalledStays ==
    ASSUME NEW c, CIInstalled(c),
           \A k \in DOMAIN objects : k \in DOMAIN objects' /\ objects'[k] = objects[k]
    PROVE  CIInstalled(c)'
<1>1. ASSUME NEW o, InPlace(o) PROVE InPlace(o)'
  BY <1>1 DEF InPlace
<1>2. ASSUME NEW kind, NEW name, Carries(kind, name, c) PROVE Carries(kind, name, c)'
  BY <1>2 DEF Carries
<1>3. /\ InPlace(MainService(c))'
      /\ <<"Deployment", CI!GetProductionDeploymentName(c)>> \in DOMAIN objects'
      /\ ~c.Spec.UseServiceLoadBalancer => InPlace(MainIngress(c))'
  BY <1>1 DEF CIInstalled, MainService, MainIngress
<1>4. c.Spec.BlueGreen.Enable => \A name \in Two(c) :
        /\ Carries("Service", name, c)'
        /\ ~c.Spec.UseServiceLoadBalancer => Carries("Ingress", name, c)'
  BY <1>2 DEF CIInstalled
<1> QED
  BY <1>3, <1>4 DEF CIInstalled, MainService, MainIngress

(* Every step leaves an installation so or makes another pass due. *)
LEMMA ReconciledNext ==
    ASSUME SpecInv, SpecInv', ObjectsInv, NamesInv, BlueGreenInv, ReconciledInv, [Next]_vars
    PROVE  ReconciledInv'
<1> SUFFICES ASSUME pass' = "done"
             PROVE  (\A m \in mm' : Installed(m)') /\ (\A c \in ci' : CIInstalled(c)')
  BY DEF ReconciledInv
<1>1. CASE ReconcileMattermost
  <2>1. ci' = {}
    BY <1>1 DEF ReconcileMattermost, SpecInv
  <2> QED BY <1>1, <2>1, PassInstalls
<1>2. CASE ReconcileClusterInstallation
  <2>1. mm' = {}
    BY <1>2 DEF ReconcileClusterInstallation, SpecInv
  <2> QED BY <1>2, <2>1, CIPassInstalls
<1>3. CASE RejectMattermost \/ RejectClusterInstallation \/ Migrate \/ EditMattermost \/ EditInstallation
  BY <1>3 DEF RejectMattermost, RejectClusterInstallation, Migrate, EditMattermost,
              EditInstallation, Wrote
<1>4. CASE RemoveInstallation
  <2>1. ci' = {} /\ mm' = mm /\ pass = "done" /\ patches' = patches
    BY <1>4 DEF RemoveInstallation, BlueGreenInv
  <2>2. \A k \in DOMAIN objects : objects[k].Owner[1] # "ClusterInstallation" =>
            k \in DOMAIN objects' /\ objects'[k] = objects[k]
    BY <1>4 DEF RemoveInstallation, Restrict
  <2>3. \A m \in mm : OwnedBy(m)[1] # "ClusterInstallation"
    BY DEF OwnedBy
  <2>4. \A m \in mm : \A k \in DOMAIN objects : objects[k].Owner = OwnedBy(m) =>
            k \in DOMAIN objects' /\ objects'[k] = objects[k]
    BY <2>2, <2>3
  <2>5. \A m \in mm : Installed(m)
    BY <2>1 DEF ReconciledInv
  <2>6. \A m \in mm : Installed(m)'
    BY <2>1, <2>4, <2>5, InstalledStays
  <2> QED BY <2>1, <2>6
<1>5. CASE MinioOperator \/ UNCHANGED vars
  <2>1. mm' = mm /\ ci' = ci /\ pass = "done" /\ patches' = patches
    BY <1>5 DEF MinioOperator, vars
  <2>2. \A k \in DOMAIN objects : k \in DOMAIN objects' /\ objects'[k] = objects[k]
    <3>1. CASE MinioOperator
      BY <3>1, MinioOperatorAdds
    <3>2. CASE UNCHANGED vars
      BY <3>2 DEF vars
    <3> QED BY <1>5, <3>1, <3>2
  <2>3. (\A m \in mm : Installed(m)) /\ (\A c \in ci : CIInstalled(c))
    BY <2>1 DEF ReconciledInv
  <2>4. \A m \in mm : Installed(m)'
    BY <2>1, <2>2, <2>3, InstalledStays
  <2>5. \A c \in ci : CIInstalled(c)'
    BY <2>2, <2>3, CIInstalledStays
  <2> QED BY <2>1, <2>4, <2>5
<1> QED
  BY <1>1, <1>2, <1>3, <1>4, <1>5 DEF Next

(* All that holds of the objects in every state. *)
ClusterInv ==
    /\ SpecInv
    /\ ObjectsInv
    /\ BlueGreenInv
    /\ MarkedInv
    /\ NamesInv
    /\ ReconciledInv

(* It holds throughout: of its parts, only ObjectsInv and SpecInv are      *)
(* inductive by themselves.                                                *)
LEMMA ClusterInvariant == Spec => []ClusterInv
<1>1. Init => ClusterInv
  <2>1. Init => BlueGreenInv /\ ReconciledInv
    BY DEF Init, BlueGreenInv, ReconciledInv
  <2> QED BY <2>1, SpecInvInit, ObjectsInvInit, MarkedInit, NamesInit DEF ClusterInv
<1>2. ClusterInv /\ [Next]_vars => ClusterInv'
  <2> SUFFICES ASSUME ClusterInv, [Next]_vars PROVE ClusterInv'
    OBVIOUS
  <2>1. SpecInv /\ ObjectsInv /\ BlueGreenInv /\ MarkedInv /\ NamesInv /\ ReconciledInv
    BY DEF ClusterInv
  <2>2. SpecInv' /\ ObjectsInv'
    BY <2>1, SpecInvNext, ObjectsInvNext
  <2>3. BlueGreenInv' /\ MarkedInv' /\ NamesInv'
    BY <2>1, <2>2, BlueGreenNext, MarkedNext, NamesNext
  <2>4. ReconciledInv'
    BY <2>1, <2>2, ReconciledNext
  <2> QED BY <2>2, <2>3, <2>4 DEF ClusterInv
<1> QED
  BY <1>1, <1>2, PTL DEF Spec

-----------------------------------------------------------------------------
(* What the invariants say of an installation whose pass is over. *)

(* Labels that name an installation are on one service and one ingress     *)
(* only: the one of that name.                                             *)
LEMMA OneLabelled ==
    ASSUME Keyed, MarkedInv, NEW kind \in {"Service", "Ingress"}, NEW name, NEW labels,
           \/ ClusterLabel \in DOMAIN labels /\ labels[ClusterLabel] = name
           \/ CI!ClusterLabel \in DOMAIN labels /\ labels[CI!ClusterLabel] = name,
           <<kind, name>> \in DOMAIN objects,
           Matches(labels, objects[<<kind, name>>].Labels)
    PROVE  Cardinality(Labelled(kind, labels)) = 1
<1>1. PICK o : o = objects[<<kind, name>>]
  OBVIOUS
<1>2. o.Kind = kind
  BY <1>1 DEF Keyed, Key
<1>3. o \in Labelled(kind, labels)
  BY <1>1, <1>2 DEF Labelled, Stored, Range
<1>4. ASSUME NEW x \in Labelled(kind, labels) PROVE x = o
  <2>1. PICK k \in DOMAIN objects : x = objects[k]
    BY DEF Labelled, Stored, Range
  <2>2. x.Kind = kind /\ Matches(labels, x.Labels)
    BY DEF Labelled, Stored
  <2>3. OwnLabelled(x)
    BY <2>1, <2>2 DEF MarkedInv, Marked
  <2>4. x.Name = name
    BY <2>2, <2>3 DEF OwnLabelled, Matches
  <2>5. k = <<kind, name>>
    BY <2>1, <2>2, <2>4 DEF Keyed, Key
  <2> QED BY <1>1, <2>1, <2>5
<1>5. Labelled(kind, labels) = {o}
  BY <1>3, <1>4
<1> QED
  BY <1>5, FS_Singleton

(* The health check finds the endpoint of a Mattermost *)
LEMMA MattermostFound ==
    ASSUME ClusterInv, Complete, NEW m \in mm, DOMAIN ExtraLabels(m) = {},
           NEW labels, labels = MattermostPodLabels(m, m.Name)
    PROVE  /\ Cardinality(Labelled("Service", labels)) = 1
           /\ ~m.Spec.UseServiceLoadBalancer /\ IngressEnabled(m) =>
                Cardinality(Labelled("Ingress", labels)) = 1
<1>1. Installed(m) /\ Keyed /\ MarkedInv /\ MattermostLeaves(m.Spec)
  BY DEF ClusterInv, Complete, ReconciledInv, ObjectsInv
<1>2. PICK user, extra, own :
        /\ user = UserLabels(m) /\ extra = ExtraLabels(m)
        /\ own = OwnLabels(m.Name, MattermostAppContainerName)
  OBVIOUS
<1>3. PICK stored : stored = MattermostLabels(m, m.Name)
  OBVIOUS
<1>4. /\ labels = mergeStringMaps(mergeStringMaps(user, extra), own)
      /\ stored = mergeStringMaps(user, own)
      /\ DOMAIN extra = {}
  BY <1>2, <1>3 DEF MattermostPodLabels, MattermostLabels
<1>5. Matches(labels, stored)
  <2>1. /\ DOMAIN labels = DOMAIN user \cup DOMAIN own
        /\ DOMAIN stored = DOMAIN user \cup DOMAIN own
        /\ \A k \in DOMAIN labels : labels[k] = IF k \in DOMAIN own THEN own[k] ELSE user[k]
        /\ \A k \in DOMAIN stored : stored[k] = IF k \in DOMAIN own THEN own[k] ELSE user[k]
    BY <1>4 DEF mergeStringMaps
  <2> QED BY <2>1 DEF Matches
<1>6. ClusterLabel \in DOMAIN labels /\ labels[ClusterLabel] = m.Name
  <2>1. ClusterLabel \in DOMAIN own /\ own[ClusterLabel] = m.Name
    BY <1>2, KeysApart DEF OwnLabels, V1Beta1Keys
  <2> QED BY <1>4, <2>1 DEF mergeStringMaps
<1>7. ASSUME NEW o, InPlace(o), o.Kind \in {"Service", "Ingress"}, o.Name = m.Name,
             o.Labels = stored
      PROVE  Cardinality(Labelled(o.Kind, labels)) = 1
  <2>1. /\ <<o.Kind, m.Name>> \in DOMAIN objects
        /\ Matches(labels, objects[<<o.Kind, m.Name>>].Labels)
    BY <1>5, <1>7 DEF InPlace, Key
  <2> QED BY <1>1, <1>6, <1>7, <2>1, OneLabelled
<1>8. Cardinality(Labelled("Service", labels)) = 1
  <2>1. PICK s : s = ApplyToService(m, GenerateServiceV1Beta(m))
    OBVIOUS
  <2>2. s.Kind = "Service" /\ s.Name = m.Name /\ s.Labels = stored /\ InPlace(s)
    BY <1>1, <1>3, <2>1, ServiceIs DEF Installed
  <2> QED BY <1>7, <2>2
<1>9. ASSUME ~m.Spec.UseServiceLoadBalancer, IngressEnabled(m)
      PROVE  Cardinality(Labelled("Ingress", labels)) = 1
  <2>1. PICK i : i \in checkMattermostIngress(m)
    BY <1>9 DEF checkMattermostIngress
  <2>2. i.Kind = "Ingress" /\ i.Name = m.Name /\ i.Labels = stored /\ InPlace(i)
    BY <1>1, <1>3, <1>9, <2>1, IngressIs DEF Installed
  <2> QED BY <1>7, <2>2
<1> QED
  BY <1>8, <1>9

(* and those of a ClusterInstallation. *)
LEMMA InstallationFound ==
    ASSUME ClusterInv, Complete, NEW c \in ci,
           NEW name \in IF c.Spec.BlueGreen.Enable THEN Two(c) ELSE {c.Name},
           NEW kind, kind = IF c.Spec.UseServiceLoadBalancer THEN "Service" ELSE "Ingress"
    PROVE  Cardinality(Labelled(kind, CI!ClusterInstallationLabels(c, name))) = 1
<1>1. CIInstalled(c) /\ Keyed /\ MarkedInv /\ InstallationLeaves(c.Spec)
  BY DEF ClusterInv, Complete, ReconciledInv, ObjectsInv
<1>2. PICK labels : labels = CI!ClusterInstallationLabels(c, name)
  OBVIOUS
<1>3. CI!ClusterLabel \in DOMAIN labels /\ labels[CI!ClusterLabel] = name
  BY <1>1, <1>2, CILabelsWritten
<1>4. Carries(kind, name, c)
  <2>1. CASE c.Spec.BlueGreen.Enable
    BY <1>1, <2>1 DEF CIInstalled
  <2>2. CASE ~c.Spec.BlueGreen.Enable
    <3>1. PICK s, i : s = MainService(c) /\ i = MainIngress(c)
      OBVIOUS
    <3>2. /\ s.Kind = "Service" /\ s.Name = c.Name /\ i.Kind = "Ingress" /\ i.Name = c.Name
          /\ s.Labels = CI!ClusterInstallationLabels(c, c.Name)
          /\ i.Labels = CI!ClusterInstallationLabels(c, c.Name)
      BY <3>1, CIServiceIs, CIIngressIs DEF MainService, MainIngress
    <3>3. InPlace(s) /\ (~c.Spec.UseServiceLoadBalancer => InPlace(i))
      BY <1>1, <3>1 DEF CIInstalled, MainService, MainIngress
    <3>4. /\ Key(s) = <<"Service", c.Name>> /\ Key(i) = <<"Ingress", c.Name>>
          /\ name = c.Name
      BY <2>2, <3>2 DEF Key
    <3> QED BY <3>2, <3>3, <3>4 DEF Carries, InPlace
  <2> QED BY <2>1, <2>2
<1>5. /\ <<kind, name>> \in DOMAIN objects
      /\ Matches(labels, objects[<<kind, name>>].Labels)
  BY <1>2, <1>4 DEF Carries, Matches
<1>6. Cardinality(Labelled(kind, labels)) = 1
  BY <1>1, <1>3, <1>5, OneLabelled
<1> QED
  BY <1>2, <1>6

(* The health check finds the one service or ingress that it takes the     *)
(* address from, whatever labels users give and whatever else is in the    *)
(* namespace (checkMattermostHealth of both controllers): the label that   *)
(* names the installation is the name of the object itself, and a pass     *)
(* that gets through has left the object.                                  *)
THEOREM EndpointFound == Spec => []HealthCheckFindsEndpoint
<1>1. ClusterInv => HealthCheckFindsEndpoint
  <2> SUFFICES ASSUME ClusterInv, Complete
               PROVE  /\ \A m \in mm : DOMAIN ExtraLabels(m) = {} =>
                            LET labels == MattermostPodLabels(m, m.Name)
                            IN CASE m.Spec.UseServiceLoadBalancer ->
                                        Cardinality(Labelled("Service", labels)) = 1
                                 [] ~m.Spec.UseServiceLoadBalancer /\ IngressEnabled(m) ->
                                        Cardinality(Labelled("Ingress", labels)) = 1
                                 [] OTHER -> TRUE
                      /\ \A c \in ci : \A name \in IF c.Spec.BlueGreen.Enable THEN Two(c)
                                                   ELSE {c.Name} :
                            LET kind == IF c.Spec.UseServiceLoadBalancer THEN "Service"
                                        ELSE "Ingress"
                            IN Cardinality(Labelled(kind, CI!ClusterInstallationLabels(c, name))) = 1
    BY DEF HealthCheckFindsEndpoint, Two
  <2>1. ASSUME NEW m \in mm, DOMAIN ExtraLabels(m) = {}
        PROVE  /\ Cardinality(Labelled("Service", MattermostPodLabels(m, m.Name))) = 1
               /\ ~m.Spec.UseServiceLoadBalancer /\ IngressEnabled(m) =>
                    Cardinality(Labelled("Ingress", MattermostPodLabels(m, m.Name))) = 1
    BY <2>1, MattermostFound
  <2>2. ASSUME NEW c \in ci, NEW name \in IF c.Spec.BlueGreen.Enable THEN Two(c) ELSE {c.Name},
               NEW kind, kind = IF c.Spec.UseServiceLoadBalancer THEN "Service" ELSE "Ingress"
        PROVE  Cardinality(Labelled(kind, CI!ClusterInstallationLabels(c, name))) = 1
    BY <2>2, InstallationFound
  <2> QED BY <2>1, <2>2
<1> QED
  BY <1>1, ClusterInvariant, PTL

-----------------------------------------------------------------------------
(* A host leads to the pods of the app, and to no others. *)
Reaches(host) ==
    \E i \in Stored("Ingress"), s \in Stored("Service") :
        /\ \E r \in Range(i.Rules) :
            r.Host = host /\ r.Backend.Name = s.Name /\ r.Backend.Port \in s.Ports
        /\ \E d \in Stored("Deployment") : Matches(s.Selector, d.PodLabels)
        /\ \A d \in Stored("Deployment") :
            Matches(s.Selector, d.PodLabels) => d.App.Name = MattermostAppContainerName

(* What is in place is stored. *)
LEMMA InPlaceStored ==
    ASSUME NEW o, InPlace(o)
    PROVE  o \in Stored(o.Kind)
  BY DEF InPlace, Stored, Range

(* The hosts of a Mattermost do, *)
LEMMA MattermostReached ==
    ASSUME ClusterInv, Complete, NEW m \in mm, ~m.Spec.UseServiceLoadBalancer,
           NEW hosts,
           \/ AWSLoadBalancerEnabled(m) /\ hosts = GetAWSLoadBalancerHostNames(m)
           \/ ~AWSLoadBalancerEnabled(m) /\ IngressEnabled(m) /\ hosts = GetIngressHostNames(m),
           NEW host \in Range(hosts)
    PROVE  Reaches(host)
<1>1. Installed(m) /\ Keyed /\ MarkedInv
  BY DEF ClusterInv, Complete, ReconciledInv, ObjectsInv
<1>2. PICK i : i \in checkMattermostIngress(m)
  BY DEF checkMattermostIngress
<1>3. PICK s : s = ApplyToService(m, GenerateServiceV1Beta(m))
  OBVIOUS
<1>4. /\ s.Kind = "Service" /\ s.Name = m.Name /\ s.Ports = {8065, 8067}
      /\ s.Selector = MattermostSelectorLabels(m.Name)
  BY <1>3, ServiceIs
<1>5. i.Kind = "Ingress" /\ i.Rules = makeIngressRules(hosts, m)
  BY <1>2, IngressIs
<1>6. i \in Stored("Ingress") /\ s \in Stored("Service")
  BY <1>1, <1>2, <1>3, <1>4, <1>5, InPlaceStored DEF Installed
<1>7. \E r \in Range(i.Rules) :
        r.Host = host /\ r.Backend.Name = s.Name /\ r.Backend.Port \in s.Ports
  <2>1. PICK j \in DOMAIN hosts : host = hosts[j]
    BY DEF Range
  <2>2. i.Rules[j] \in Range(i.Rules) /\ i.Rules[j] = [Host |-> host, Backend |-> Backend(m.Name)]
    BY <1>5, <2>1 DEF makeIngressRules, Range
  <2>3. Backend(m.Name).Name = m.Name /\ Backend(m.Name).Port = 8065
    BY DEF Backend
  <2>4. PICK r \in Range(i.Rules) : r = [Host |-> host, Backend |-> Backend(m.Name)]
    BY <2>2
  <2>5. r.Host = host /\ r.Backend.Name = m.Name /\ r.Backend.Port = 8065
    BY <2>3, <2>4
  <2> QED BY <1>4, <2>5
<1>8. PICK app, own : app = MattermostAppContainerName /\ own = OwnLabels(m.Name, app)
  OBVIOUS
<1>9. s.Selector = own /\ "app" \in DOMAIN own /\ own["app"] = app
  BY <1>4, <1>8, KeysApart DEF MattermostSelectorLabels, OwnLabels
<1>10. \E d \in Stored("Deployment") : Matches(s.Selector, d.PodLabels)
  <2>1. PICK db, store : InPlace(App(m, db, store))
    BY <1>1 DEF Installed
  <2>2. PICK g : g = GenerateDeploymentV1Beta(m, db, store, m.Name, GetIngressHost(m), m.Name,
                                              GetImageName(m))
    OBVIOUS
  <2>3. PICK d : d = ApplyToDeployment(m, g)
    OBVIOUS
  <2>4. d.Kind = "Deployment" /\ d.PodLabels = MattermostPodLabels(m, m.Name)
    BY <2>2, <2>3, AppIs
  <2>5. d \in Stored("Deployment")
    <3>1. d = App(m, db, store)
      BY <2>2, <2>3 DEF App
    <3> QED BY <2>1, <2>4, <3>1, InPlaceStored
  <2>6. PICK user : user = mergeStringMaps(UserLabels(m), ExtraLabels(m))
    OBVIOUS
  <2>7. d.PodLabels = mergeStringMaps(user, own)
    BY <1>8, <2>4, <2>6 DEF MattermostPodLabels
  <2>8. Matches(own, d.PodLabels)
    BY <2>7 DEF mergeStringMaps, Matches
  <2> QED BY <1>9, <2>5, <2>8
<1>11. ASSUME NEW d \in Stored("Deployment"), Matches(s.Selector, d.PodLabels)
       PROVE  d.App.Name = MattermostAppContainerName
  <2>1. PICK k \in DOMAIN objects : d = objects[k] /\ d.Kind = "Deployment"
    BY DEF Stored, Range
  <2>2. OldPods(d) \/ NewPods(d)
    BY <1>1, <2>1 DEF MarkedInv, Marked
  <2>3. d.PodLabels["app"] = MattermostAppContainerName
    BY <1>8, <1>9, <1>11 DEF Matches
  <2> QED BY <2>2, <2>3 DEF OldPods, NewPods
<1> QED
  BY <1>6, <1>7, <1>10, <1>11 DEF Reaches

(* and the one of a ClusterInstallation, blue, green or neither. *)
LEMMA InstallationReached ==
    ASSUME ClusterInv, Complete, NEW c \in ci, ~c.Spec.UseServiceLoadBalancer
    PROVE  Reaches(c.Spec.IngressName)
<1>1. CIInstalled(c) /\ Keyed /\ MarkedInv
  BY DEF ClusterInv, Complete, ReconciledInv, ObjectsInv
<1>2. PICK production, s, i :
        /\ production = CI!GetProductionDeploymentName(c)
        /\ s = MainService(c) /\ i = MainIngress(c)
  OBVIOUS
<1>3. /\ s.Kind = "Service" /\ s.Name = c.Name /\ s.Ports = {8065, 8067}
      /\ s.Selector = CI!ClusterInstallationSelectorLabels(production)
  BY <1>2, CIServiceIs DEF MainService
<1>4. /\ i.Kind = "Ingress"
      /\ i.Rules = <<[Host |-> c.Spec.IngressName, Backend |-> Backend(c.Name)]>>
  BY <1>2, CIIngressIs, CIIngressRules DEF MainIngress
<1>5. i \in Stored("Ingress") /\ s \in Stored("Service")
  <2>1. InPlace(i) /\ InPlace(s)
    BY <1>1, <1>2 DEF CIInstalled, MainService, MainIngress
  <2> QED BY <1>3, <1>4, <2>1, InPlaceStored
<1>6. \E r \in Range(i.Rules) :
        r.Host = c.Spec.IngressName /\ r.Backend.Name = s.Name /\ r.Backend.Port \in s.Ports
  <2>1. PICK r : r = [Host |-> c.Spec.IngressName, Backend |-> Backend(c.Name)]
    OBVIOUS
  <2>2. r \in Range(i.Rules)
    BY <1>4, <2>1 DEF Range
  <2>3. Backend(c.Name).Name = c.Name /\ Backend(c.Name).Port = 8065
    BY DEF Backend
  <2>4. r.Host = c.Spec.IngressName /\ r.Backend.Name = c.Name /\ r.Backend.Port = 8065
    BY <2>1, <2>3
  <2> QED BY <1>3, <2>2, <2>4
<1>7. \A d \in Stored("Deployment") : OldPods(d)
  BY <1>1 DEF MarkedInv, Stored, Range
<1>8. \E d \in Stored("Deployment") : Matches(s.Selector, d.PodLabels)
  <2>1. <<"Deployment", production>> \in DOMAIN objects
    BY <1>1, <1>2 DEF CIInstalled
  <2>2. PICK d : d = objects[<<"Deployment", production>>]
    OBVIOUS
  <2>3. d.Kind = "Deployment" /\ d.Name = production
    BY <1>1, <2>1, <2>2 DEF Keyed, Key
  <2>4. d \in Stored("Deployment")
    BY <2>1, <2>2, <2>3 DEF Stored, Range
  <2> QED BY <1>3, <1>7, <2>3, <2>4 DEF OldPods
<1>9. \A d \in Stored("Deployment") : d.App.Name = MattermostAppContainerName
  BY <1>7 DEF OldPods
<1> QED
  BY <1>5, <1>6, <1>8, <1>9 DEF Reaches

(* Every host of the spec leads through an ingress and an open port of its *)
(* service to a deployment of the app, and to no deployment that runs      *)
(* anything else, such as the job server, for any hosts, labels and edits  *)
(* (checkMattermostIngress, GenerateServiceV1Beta, GenerateService).       *)
THEOREM HostsServed == Spec => []HostsReachPods
<1>1. ClusterInv => HostsReachPods
  <2> SUFFICES ASSUME ClusterInv, Complete, NEW host \in Hosts PROVE Reaches(host)
    BY DEF HostsReachPods, Reaches
  <2>1. \/ \E m \in mm : /\ ~m.Spec.UseServiceLoadBalancer
                         /\ \/ /\ AWSLoadBalancerEnabled(m)
                               /\ host \in Range(GetAWSLoadBalancerHostNames(m))
                            \/ /\ ~AWSLoadBalancerEnabled(m) /\ IngressEnabled(m)
                               /\ host \in Range(GetIngressHostNames(m))
        \/ \E c \in ci : ~c.Spec.UseServiceLoadBalancer /\ host = c.Spec.IngressName
    <3> DEFINE Of(m) == IF m.Spec.UseServiceLoadBalancer THEN {}
                        ELSE IF AWSLoadBalancerEnabled(m) THEN Range(GetAWSLoadBalancerHostNames(m))
                        ELSE IF IngressEnabled(m) THEN Range(GetIngressHostNames(m)) ELSE {}
    <3>1. \/ \E m \in mm : host \in Of(m)
          \/ \E c \in ci : ~c.Spec.UseServiceLoadBalancer /\ host = c.Spec.IngressName
      <4>1. PICK ours, theirs :
              /\ ours = UNION {Of(m) : m \in mm}
              /\ theirs = {c.Spec.IngressName : c \in {x \in ci : ~x.Spec.UseServiceLoadBalancer}}
        OBVIOUS
      <4>2. Hosts = ours \cup theirs
        BY <4>1 DEF Hosts
      <4> HIDE DEF Of
      <4>3. CASE host \in ours
        BY <4>1, <4>3
      <4>4. CASE host \in theirs
        BY <4>1, <4>4
      <4> QED BY <4>2, <4>3, <4>4
    <3> QED BY <3>1
  <2> QED BY <2>1, MattermostReached, InstallationReached
<1> QED
  BY <1>1, ClusterInvariant, PTL

-----------------------------------------------------------------------------
(* What the status says of the patches. *)

(* The patches of every spec are ones that are modelled. *)
PatchInv ==
    /\ \A m \in mm : Patchable(m)
    /\ \A c \in ci : Untiered(c.Spec)

(* Patches and annotations are fields of the spec, which nothing but an    *)
(* edit changes.                                                           *)
LEMMA SamePatches ==
    ASSUME NEW m, NEW n, n.Spec.ResourcePatch = m.Spec.ResourcePatch,
           n.Spec.ServiceAnnotations = m.Spec.ServiceAnnotations, Patchable(m)
    PROVE  Patchable(n)
<1>1. DeploymentPatch(n) = DeploymentPatch(m) /\ ServicePatch(n) = ServicePatch(m)
  BY DEF DeploymentPatch, ServicePatch
<1> QED
  BY <1>1 DEF Patchable, Untiered

(* An edit writes patches that are modelled, as an edit of the first spec  *)
(* does.                                                                   *)
LEMMA PatchOfEdit ==
    ASSUME NEW m, Shaped(m), Patchable(m), NEW f \in DOMAIN MattermostChoices,
           NEW v \in MattermostChoices[f], NEW n, n = [m EXCEPT !.Spec[f] = v]
    PROVE  Patchable(n)
<1>1. PICK b : b = [BaseMattermost EXCEPT !.Spec[f] = v]
  OBVIOUS
<1>2. Patchable(b)
  BY <1>1, PatchesModelled
<1>3. f \in SpecFields
  BY ChoiceFields
<1>4. Shaped(BaseMattermost)
  BY SpecsTyped, TypedShaped
<1>5. /\ IsRecord(m, {"Name", "Spec"}) /\ IsRecord(m.Spec, SpecFields)
      /\ IsRecord(BaseMattermost, {"Name", "Spec"}) /\ IsRecord(BaseMattermost.Spec, SpecFields)
  BY <1>4 DEF Shaped
<1>6. n.Spec = [m.Spec EXCEPT ![f] = v] /\ b.Spec = [BaseMattermost.Spec EXCEPT ![f] = v]
  BY <1>1, <1>5 DEF IsRecord
<1>7. /\ n.Spec[f] = v /\ b.Spec[f] = v
      /\ \A g \in SpecFields \ {f} : n.Spec[g] = m.Spec[g]
  BY <1>3, <1>5, <1>6 DEF IsRecord
<1>8. /\ n.Spec.ResourcePatch \in {m.Spec.ResourcePatch, b.Spec.ResourcePatch}
      /\ n.Spec.ServiceAnnotations \in {m.Spec.ServiceAnnotations, b.Spec.ServiceAnnotations}
  BY <1>3, <1>7 DEF SpecFields
<1>9. \A x, y : x.Spec.ResourcePatch = y.Spec.ResourcePatch =>
        DeploymentPatch(x) = DeploymentPatch(y) /\ ServicePatch(x) = ServicePatch(y)
  BY DEF DeploymentPatch, ServicePatch
<1>10. PICK x \in {m, b} : n.Spec.ResourcePatch = x.Spec.ResourcePatch
  BY <1>8
<1>11. DeploymentPatch(n) = DeploymentPatch(x) /\ ServicePatch(n) = ServicePatch(x)
  BY <1>9, <1>10
<1> QED
  BY <1>2, <1>8, <1>10, <1>11 DEF Patchable, Untiered

(* The same of the annotations of a ClusterInstallation. *)
LEMMA AnnotationsOfEdit ==
    ASSUME NEW c, CIShaped(c), Untiered(c.Spec), NEW f \in DOMAIN InstallationChoices,
           NEW v \in InstallationChoices[f], NEW n, n = [c EXCEPT !.Spec[f] = v]
    PROVE  Untiered(n.Spec)
<1>1. PICK b : b = [BaseInstallation.Spec EXCEPT ![f] = v]
  OBVIOUS
<1>2. Untiered(b)
  BY <1>1, PatchesModelled
<1>3. f \in CISpecFields
  BY ChoiceFields
<1>4. CIShaped(BaseInstallation)
  BY SpecsTyped, CITypedShaped
<1>5. /\ IsRecord(c, {"Name", "Spec"}) /\ IsRecord(c.Spec, CISpecFields)
      /\ IsRecord(BaseInstallation.Spec, CISpecFields)
  BY <1>4 DEF CIShaped
<1>6. n.Spec = [c.Spec EXCEPT ![f] = v]
  BY <1>5 DEF IsRecord
<1>7. /\ n.Spec[f] = v /\ b[f] = v
      /\ \A g \in CISpecFields \ {f} : n.Spec[g] = c.Spec[g]
  BY <1>1, <1>3, <1>5, <1>6 DEF IsRecord
<1>8. n.Spec.ServiceAnnotations \in {c.Spec.ServiceAnnotations, b.ServiceAnnotations}
  BY <1>3, <1>7 DEF CISpecFields
<1> QED
  BY <1>2, <1>8 DEF Untiered

(* A Mattermost that comes from a migration has no patches. *)
LEMMA PatchOfMigration ==
    ASSUME SpecInv, PatchInv, Migrate
    PROVE  PatchInv'
<1>1. PICK c \in ci : \E m \in ConvertToMM(c, Found("Secret", c.Spec.Database.Secret)) :
        /\ mm' = {[m EXCEPT !.Spec.ResourceLabels = {MattermostLabels(m, m.Name) : l \in @}]}
        /\ ci' = {}
  BY DEF Migrate
<1>2. PICK m \in ConvertToMM(c, Found("Secret", c.Spec.Database.Secret)) :
        mm' = {[m EXCEPT !.Spec.ResourceLabels = {MattermostLabels(m, m.Name) : l \in @}]}
  BY <1>1
<1>3. PICK new : new = {MattermostLabels(m, m.Name) : l \in m.Spec.ResourceLabels}
  OBVIOUS
<1>4. PICK n : n = [m EXCEPT !.Spec.ResourceLabels = new]
  OBVIOUS
<1>5. mm' = {n}
  BY <1>2, <1>3, <1>4
<1>6. m.Spec.ResourcePatch = {} /\ m.Spec.ServiceAnnotations = c.Spec.ServiceAnnotations
  BY DEF ConvertToMM
<1>7. Shaped(m)
  BY ConvertedShaped
<1>8. IsRecord(m, {"Name", "Spec"}) /\ IsRecord(m.Spec, SpecFields)
  BY <1>7 DEF Shaped
<1>9. n.Spec = [m.Spec EXCEPT !.ResourceLabels = new]
  BY <1>4, <1>8 DEF IsRecord
<1>10. n.Spec.ResourcePatch = {} /\ n.Spec.ServiceAnnotations = c.Spec.ServiceAnnotations
  BY <1>6, <1>8, <1>9 DEF IsRecord, SpecFields
<1>11. DeploymentPatch(n) = {} /\ ServicePatch(n) = {}
  BY <1>10 DEF DeploymentPatch, ServicePatch, Active
<1>12. Patchable(n)
  BY <1>10, <1>11 DEF Patchable, Untiered, PatchInv
<1> QED
  BY <1>1, <1>5, <1>12 DEF PatchInv

(* Every step keeps to such patches. *)
LEMMA PatchNext ==
    ASSUME SpecInv, PatchInv, [Next]_vars
    PROVE  PatchInv'
<1>1. CASE ReconcileMattermost
  <2>1. PICK old, m : old \in mm /\ m = Normalised(old) /\ mm' = {m} /\ ci' = ci
    BY <1>1 DEF ReconcileMattermost
  <2>2. Shaped(old) /\ Patchable(old)
    BY <2>1 DEF SpecInv, PatchInv
  <2>3. \A f \in SpecFields \ FilledIn : m.Spec[f] = old.Spec[f]
    BY <2>1, <2>2, NormalisedSettled
  <2>4. /\ m.Spec.ResourcePatch = old.Spec.ResourcePatch
        /\ m.Spec.ServiceAnnotations = old.Spec.ServiceAnnotations
    BY <2>3 DEF SpecFields, FilledIn
  <2>5. Patchable(m)
    BY <2>2, <2>4, SamePatches
  <2> QED BY <2>1, <2>5 DEF PatchInv
<1>2. CASE ReconcileClusterInstallation
  <2>1. PICK old, c : old \in ci /\ c = CINormalised(old) /\ ci' = {c} /\ mm' = mm
    BY <1>2 DEF ReconcileClusterInstallation
  <2>2. CIShaped(old) /\ Untiered(old.Spec)
    BY <2>1 DEF SpecInv, PatchInv
  <2>3. \A f \in CISpecFields \ CIFilledIn : c.Spec[f] = old.Spec[f]
    BY <2>1, <2>2, CINormalisedSettled
  <2>4. c.Spec.ServiceAnnotations = old.Spec.ServiceAnnotations
    BY <2>3 DEF CISpecFields, CIFilledIn
  <2> QED BY <2>1, <2>2, <2>4 DEF PatchInv, Untiered
<1>3. CASE Migrate
  BY <1>3, PatchOfMigration
<1>4. CASE EditMattermost
  <2>1. PICK m \in mm, f \in DOMAIN MattermostChoices : \E v \in MattermostChoices[f] :
            mm' = {[m EXCEPT !.Spec[f] = v]} /\ ci' = ci
    BY <1>4 DEF EditMattermost
  <2>2. PICK v \in MattermostChoices[f] : mm' = {[m EXCEPT !.Spec[f] = v]}
    BY <2>1
  <2>3. PICK n : n = [m EXCEPT !.Spec[f] = v]
    OBVIOUS
  <2>4. Patchable(n)
    BY <2>3, PatchOfEdit DEF SpecInv, PatchInv
  <2> QED BY <2>1, <2>2, <2>3, <2>4 DEF PatchInv
<1>5. CASE EditInstallation
  <2>1. PICK c \in ci, f \in DOMAIN InstallationChoices : \E v \in InstallationChoices[f] :
            ci' = {[c EXCEPT !.Spec[f] = v]} /\ mm' = mm
    BY <1>5 DEF EditInstallation
  <2>2. PICK v \in InstallationChoices[f] : ci' = {[c EXCEPT !.Spec[f] = v]}
    BY <2>1
  <2>3. PICK n : n = [c EXCEPT !.Spec[f] = v]
    OBVIOUS
  <2>4. Untiered(n.Spec)
    BY <2>3, AnnotationsOfEdit DEF SpecInv, PatchInv
  <2> QED BY <2>1, <2>2, <2>3, <2>4 DEF PatchInv
<1>6. CASE \/ RejectMattermost \/ RejectClusterInstallation \/ RemoveInstallation
           \/ MinioOperator \/ UNCHANGED vars
  <2>1. mm' = mm /\ ci' = ci
    BY <1>6 DEF RejectMattermost, RejectClusterInstallation, RemoveInstallation, MinioOperator, vars
  <2> QED BY <2>1 DEF PatchInv
<1> QED
  BY <1>1, <1>2, <1>3, <1>4, <1>5, <1>6 DEF Next

(* The app has the replicas of the patch when the status says that it was  *)
(* applied, and else those of the spec.                                    *)
LEMMA DeploymentReported ==
    ASSUME NEW m, Patchable(m), NEW db, NEW store
    PROVE  App(m, db, store).Replicas = IF DeploymentPatchStatus(m) = "applied"
                                        THEN {PatchedReplicas} ELSE m.Spec.Replicas
<1>1. PICK g : g = GenerateDeploymentV1Beta(m, db, store, m.Name, GetIngressHost(m), m.Name,
                                            GetImageName(m))
  OBVIOUS
<1>2. "Replicas" \in DOMAIN g /\ g.Replicas = m.Spec.Replicas
  BY <1>1 DEF GenerateDeploymentV1Beta
<1>3. App(m, db, store) = ApplyToDeployment(m, g)
  BY <1>1 DEF App
<1>4. CASE \E p \in DeploymentPatch(m) : validateDeploymentPatch(p)
  <2>1. DeploymentPatch(m) = {<<"spec", "replicas">>}
    BY <1>4 DEF Patchable
  <2>2. Deref(DeploymentPatch(m), <<>>) = <<"spec", "replicas">>
    BY <2>1, DerefOne
  <2>3. App(m, db, store) = [g EXCEPT !.Replicas = {PatchedReplicas}]
    BY <1>3, <1>4, <2>2 DEF ApplyToDeployment, applyToDeployment
  <2>4. DeploymentPatchStatus(m) = "applied"
    BY <1>4 DEF DeploymentPatchStatus, Report
  <2> QED BY <1>2, <2>3, <2>4
<1>5. CASE ~\E p \in DeploymentPatch(m) : validateDeploymentPatch(p)
  <2>1. App(m, db, store) = g
    BY <1>3, <1>5 DEF ApplyToDeployment
  <2>2. DeploymentPatchStatus(m) # "applied"
    BY <1>5 DEF DeploymentPatchStatus, Report
  <2> QED BY <1>2, <2>1, <2>2
<1> QED
  BY <1>4, <1>5

(* The service has the annotation of the patch in that case only. *)
LEMMA ServiceReported ==
    ASSUME NEW m, Patchable(m), NEW s, s = ApplyToService(m, GenerateServiceV1Beta(m))
    PROVE  ServicePatchStatus(m) = "applied" <=> "tier" \in DOMAIN s.Annotations
<1> DEFINE annotations == mergeStringMaps(EmptyMap, m.Spec.ServiceAnnotations)
           new == newServiceV1Beta(m, annotations)
<1>1. PICK g : g = GenerateServiceV1Beta(m)
  OBVIOUS
<1>2. "tier" \notin DOMAIN annotations
  BY DEF Patchable, Untiered, mergeStringMaps, EmptyMap
<1>3. {"Annotations", "Type", "Ports"} \subseteq DOMAIN new /\ new.Annotations = annotations
  BY DEF newServiceV1Beta
<1>4. g \in {configureMattermostServiceNodePort(new), configureMattermostLoadBalancerService(new),
             configureMattermostService(new)}
  BY <1>1 DEF GenerateServiceV1Beta
<1> HIDE DEF annotations, new
<1>5. "Annotations" \in DOMAIN g /\ g.Annotations = annotations
  <2>1. CASE g = configureMattermostServiceNodePort(new)
    BY <1>3, <2>1 DEF configureMattermostServiceNodePort
  <2>2. CASE g = configureMattermostLoadBalancerService(new)
    BY <1>3, <2>2 DEF configureMattermostLoadBalancerService
  <2>3. CASE g = configureMattermostService(new)
    BY <1>3, <2>3 DEF configureMattermostService
  <2> QED BY <1>4, <2>1, <2>2, <2>3
<1>6. CASE \E p \in ServicePatch(m) : validateServicePatch(p)
  <2>1. ServicePatch(m) = {<<"metadata", "annotations", "tier">>}
    BY <1>6 DEF Patchable
  <2>2. Deref(ServicePatch(m), <<>>) = <<"metadata", "annotations", "tier">>
    BY <2>1, DerefOne
  <2>3. s = [g EXCEPT !.Annotations = mergeStringMaps(@, [k \in {"tier"} |-> PatchedTier])]
    BY <1>1, <1>6, <2>2 DEF ApplyToService, applyToService
  <2>4. s.Annotations = mergeStringMaps(annotations, [k \in {"tier"} |-> PatchedTier])
    BY <1>5, <2>3
  <2>5. "tier" \in DOMAIN s.Annotations
    BY <2>4 DEF mergeStringMaps
  <2>6. ServicePatchStatus(m) = "applied"
    BY <1>6 DEF ServicePatchStatus, Report
  <2> QED BY <2>5, <2>6
<1>7. CASE ~\E p \in ServicePatch(m) : validateServicePatch(p)
  <2>1. s = g
    BY <1>1, <1>7 DEF ApplyToService
  <2>2. ServicePatchStatus(m) # "applied"
    BY <1>7 DEF ServicePatchStatus, Report
  <2> QED BY <1>2, <1>5, <2>1, <2>2
<1> QED
  BY <1>6, <1>7

(* The status of the patches tells what the objects in the cluster are     *)
(* like, after any edits of the patches and of everything else: a patch    *)
(* that is reported as applied is in the object that is there, and one     *)
(* that was refused, disabled or taken out has left nothing behind         *)
(* (ApplyToService and ApplyToDeployment, called by checkMattermost).      *)
THEOREM PatchesReported == Spec => []PatchReported
<1>1. Init => PatchInv
  BY PatchesModelled DEF Init, PatchInv
<1>2. ClusterInv /\ PatchInv /\ [Next]_vars => PatchInv'
  BY PatchNext DEF ClusterInv
<1>3. ClusterInv /\ PatchInv => PatchReported
  <2> SUFFICES ASSUME ClusterInv, PatchInv, Complete, NEW m \in mm
               PROVE  /\ \A d \in Found("Deployment", m.Name) :
                            d.Replicas = IF patches.Deployment = "applied" THEN {PatchedReplicas}
                                         ELSE m.Spec.Replicas
                      /\ \A s \in Found("Service", m.Name) :
                            patches.Service = "applied" <=> "tier" \in DOMAIN s.Annotations
    BY DEF PatchReported
  <2>1. Installed(m) /\ Patchable(m)
    BY DEF ClusterInv, Complete, ReconciledInv, PatchInv
  <2>2. /\ patches.Service = ServicePatchStatus(m)
        /\ patches.Deployment = DeploymentPatchStatus(m)
    BY <2>1 DEF Installed
  <2>3. ASSUME NEW d \in Found("Deployment", m.Name)
        PROVE  d.Replicas = IF patches.Deployment = "applied" THEN {PatchedReplicas}
                            ELSE m.Spec.Replicas
    <3>1. PICK db, store : InPlace(App(m, db, store))
      BY <2>1 DEF Installed
    <3>2. Key(App(m, db, store)) = <<"Deployment", m.Name>>
      <4>1. PICK g : g = GenerateDeploymentV1Beta(m, db, store, m.Name, GetIngressHost(m), m.Name,
                                                  GetImageName(m))
        OBVIOUS
      <4>2. PICK e : e = ApplyToDeployment(m, g)
        OBVIOUS
      <4>3. e.Kind = "Deployment" /\ e.Name = m.Name
        BY <4>1, <4>2, AppIs
      <4> QED BY <4>1, <4>2, <4>3 DEF App, Key
    <3>3. d = App(m, db, store)
      BY <3>1, <3>2 DEF InPlace, Found
    <3> QED BY <2>1, <2>2, <3>3, DeploymentReported
  <2>4. ASSUME NEW s \in Found("Service", m.Name)
        PROVE  patches.Service = "applied" <=> "tier" \in DOMAIN s.Annotations
    <3>1. PICK t : t = ApplyToService(m, GenerateServiceV1Beta(m))
      OBVIOUS
    <3>2. InPlace(t) /\ Key(t) = <<"Service", m.Name>>
      BY <2>1, <3>1, ServiceIs DEF Installed, Key
    <3>3. s = t
      BY <3>2 DEF InPlace, Found
    <3>4. ServicePatchStatus(m) = "applied" <=> "tier" \in DOMAIN t.Annotations
      BY <2>1, <3>1, ServiceReported
    <3> QED BY <2>2, <3>3, <3>4
  <2> QED BY <2>3, <2>4
<1> QED
  BY <1>1, <1>2, <1>3, ClusterInvariant, PTL DEF Spec

-----------------------------------------------------------------------------
(* What a migration leaves of the address. *)

(* A Mattermost is reached as the ClusterInstallation was that it was made *)
(* from.                                                                   *)
SameAddress(c, m) ==
    /\ m.Name = c.Name
    /\ \A f \in {"IngressName", "IngressAnnotations", "UseIngressTLS", "UseServiceLoadBalancer"} :
        m.Spec[f] = c.Spec[f]
    /\ m.Spec.Ingress = {}
    /\ m.Spec.AWSLoadBalancerController = {}

(* The host is one that users write. *)
HostWritten(c) == c.Spec.IngressName \in InstallationWrites("IngressName")

(* After a migration the Mattermost stays, and until an edit it is still   *)
(* the one that was made from a ClusterInstallation without gaps.          *)
HandoverInv ==
    /\ handover = "none" => origin = {}
    /\ handover # "none" => mm # {}
    /\ \A c \in ci : HostWritten(c)
    /\ \A c \in origin : /\ HostWritten(c) /\ CISettled(c) /\ ~CI!SetDefaultsFails(c)
                         /\ \A m \in mm : SameAddress(c, m)

(* What tryToMigrate creates is reached as before, *)
LEMMA ConvertedAddress ==
    ASSUME NEW c, NEW secret, NEW m \in ConvertToMM(c, secret), NEW labels,
           NEW n, n = [m EXCEPT !.Spec.ResourceLabels = labels]
    PROVE  SameAddress(c, n)
<1>1. /\ m.Name = c.Name
      /\ m.Spec.IngressName = c.Spec.IngressName
      /\ m.Spec.IngressAnnotations = c.Spec.IngressAnnotations
      /\ m.Spec.UseIngressTLS = c.Spec.UseIngressTLS
      /\ m.Spec.UseServiceLoadBalancer = c.Spec.UseServiceLoadBalancer
      /\ m.Spec.Ingress = {} /\ m.Spec.AWSLoadBalancerController = {}
  BY DEF ConvertToMM
<1>2. Shaped(m)
  BY ConvertedShaped
<1>3. IsRecord(m, {"Name", "Spec"}) /\ IsRecord(m.Spec, SpecFields)
  BY <1>2 DEF Shaped
<1>4. n.Name = m.Name /\ n.Spec = [m.Spec EXCEPT !.ResourceLabels = labels]
  BY <1>3 DEF IsRecord
<1>5. \A f \in SpecFields \ {"ResourceLabels"} : n.Spec[f] = m.Spec[f]
  BY <1>3, <1>4 DEF IsRecord, SpecFields
<1>6. /\ n.Spec.IngressName = m.Spec.IngressName
      /\ n.Spec.IngressAnnotations = m.Spec.IngressAnnotations
      /\ n.Spec.UseIngressTLS = m.Spec.UseIngressTLS
      /\ n.Spec.UseServiceLoadBalancer = m.Spec.UseServiceLoadBalancer
      /\ n.Spec.Ingress = m.Spec.Ingress
      /\ n.Spec.AWSLoadBalancerController = m.Spec.AWSLoadBalancerController
  BY <1>5 DEF SpecFields
<1> QED
  BY <1>1, <1>4, <1>6 DEF SameAddress

(* and the defaults leave that alone. *)
LEMMA NormalisedAddress ==
    ASSUME NEW c, NEW old, Shaped(old), SameAddress(c, old), NEW m, m = Normalised(old)
    PROVE  SameAddress(c, m)
<1>1. m.Name = old.Name /\ \A f \in SpecFields \ FilledIn : m.Spec[f] = old.Spec[f]
  BY NormalisedSettled
<1>2. /\ m.Spec.IngressName = old.Spec.IngressName
      /\ m.Spec.IngressAnnotations = old.Spec.IngressAnnotations
      /\ m.Spec.UseIngressTLS = old.Spec.UseIngressTLS
      /\ m.Spec.UseServiceLoadBalancer = old.Spec.UseServiceLoadBalancer
      /\ m.Spec.Ingress = old.Spec.Ingress
      /\ m.Spec.AWSLoadBalancerController = old.Spec.AWSLoadBalancerController
  BY <1>1 DEF SpecFields, FilledIn
<1> QED
  BY <1>1, <1>2 DEF SameAddress

(* An edit writes hosts of the users'. *)
LEMMA HostOfEdit ==
    ASSUME NEW c, CIShaped(c), HostWritten(c), NEW f \in DOMAIN InstallationChoices,
           NEW v \in InstallationChoices[f], NEW n, n = [c EXCEPT !.Spec[f] = v]
    PROVE  HostWritten(n)
<1>1. f \in CISpecFields
  BY ChoiceFields
<1>2. IsRecord(c, {"Name", "Spec"}) /\ IsRecord(c.Spec, CISpecFields)
  BY DEF CIShaped
<1>3. n.Spec = [c.Spec EXCEPT ![f] = v]
  BY <1>2 DEF IsRecord
<1>4. n.Spec[f] = v /\ \A g \in CISpecFields \ {f} : n.Spec[g] = c.Spec[g]
  BY <1>1, <1>2, <1>3 DEF IsRecord
<1>5. CASE f = "IngressName"
  <2>1. v \in InstallationWrites("IngressName")
    BY <1>5 DEF InstallationWrites
  <2> QED BY <1>4, <1>5, <2>1 DEF HostWritten
<1>6. CASE f # "IngressName"
  <2>1. n.Spec.IngressName = c.Spec.IngressName
    BY <1>4, <1>6 DEF CISpecFields
  <2> QED BY <2>1 DEF HostWritten
<1> QED
  BY <1>5, <1>6

(* Every step keeps this of a migration. *)
LEMMA HandoverNext ==
    ASSUME SpecInv, HandoverInv, [Next]_vars
    PROVE  HandoverInv'
<1>1. CASE ReconcileMattermost
  <2>1. PICK old, m : /\ old \in mm /\ m = Normalised(old) /\ mm' = {m} /\ ci' = ci
                      /\ origin' = origin /\ handover' = handover
    BY <1>1 DEF ReconcileMattermost
  <2>2. Shaped(old)
    BY <2>1 DEF SpecInv
  <2>3. \A c \in origin : SameAddress(c, m)
    BY <2>1, <2>2, NormalisedAddress DEF HandoverInv
  <2> QED BY <2>1, <2>3 DEF HandoverInv
<1>2. CASE ReconcileClusterInstallation
  <2>1. PICK old, c : /\ old \in ci /\ c = CINormalised(old) /\ ci' = {c} /\ mm' = mm
                      /\ origin' = origin /\ handover' = handover
    BY <1>2 DEF ReconcileClusterInstallation
  <2>2. CIShaped(old) /\ HostWritten(old)
    BY <2>1 DEF SpecInv, HandoverInv
  <2>3. \A f \in CISpecFields \ CIFilledIn : c.Spec[f] = old.Spec[f]
    BY <2>1, <2>2, CINormalisedSettled
  <2>4. c.Spec.IngressName = old.Spec.IngressName
    BY <2>3 DEF CISpecFields, CIFilledIn
  <2> QED BY <2>1, <2>2, <2>4 DEF HandoverInv, HostWritten
<1>3. CASE Migrate
  <2>1. PICK c \in ci : \E m \in ConvertToMM(c, Found("Secret", c.Spec.Database.Secret)) :
            /\ mm' = {[m EXCEPT !.Spec.ResourceLabels = {MattermostLabels(m, m.Name) : l \in @}]}
            /\ ci' = {}
            /\ origin' = IF pass = "done" THEN {c} ELSE {}
            /\ handover' = "waiting"
    BY <1>3 DEF Migrate
  <2>2. PICK m \in ConvertToMM(c, Found("Secret", c.Spec.Database.Secret)) :
            mm' = {[m EXCEPT !.Spec.ResourceLabels = {MattermostLabels(m, m.Name) : l \in @}]}
    BY <2>1
  <2>3. PICK new : new = {MattermostLabels(m, m.Name) : l \in m.Spec.ResourceLabels}
    OBVIOUS
  <2>4. PICK n : n = [m EXCEPT !.Spec.ResourceLabels = new]
    OBVIOUS
  <2>5. mm' = {n}
    BY <2>2, <2>3, <2>4
  <2>6. SameAddress(c, n)
    BY <2>4, ConvertedAddress
  <2>7. pass = "done" => CISettled(c) /\ ~CI!SetDefaultsFails(c)
    BY DEF SpecInv
  <2> QED BY <2>1, <2>5, <2>6, <2>7 DEF HandoverInv
<1>4. CASE EditMattermost
  <2>1. mm' # {} /\ ci' = ci /\ origin' = {} /\ handover' = handover
    BY <1>4 DEF EditMattermost, Wrote
  <2> QED BY <2>1 DEF HandoverInv
<1>5. CASE EditInstallation
  <2>1. PICK c \in ci, f \in DOMAIN InstallationChoices : \E v \in InstallationChoices[f] :
            /\ ci' = {[c EXCEPT !.Spec[f] = v]} /\ mm' = mm
            /\ origin' = {} /\ handover' = handover
    BY <1>5 DEF EditInstallation, Wrote
  <2>2. PICK v \in InstallationChoices[f] : ci' = {[c EXCEPT !.Spec[f] = v]}
    BY <2>1
  <2>3. PICK n : n = [c EXCEPT !.Spec[f] = v]
    OBVIOUS
  <2>4. HostWritten(n)
    BY <2>3, HostOfEdit DEF SpecInv, HandoverInv
  <2> QED BY <2>1, <2>2, <2>3, <2>4 DEF HandoverInv
<1>6. CASE RemoveInstallation
  <2>1. mm' = mm /\ ci' = ci /\ origin' = origin /\ handover = "waiting" /\ handover' = "over"
    BY <1>6 DEF RemoveInstallation
  <2> QED BY <2>1 DEF HandoverInv
<1>7. CASE RejectMattermost \/ RejectClusterInstallation \/ MinioOperator \/ UNCHANGED vars
  <2>1. mm' = mm /\ ci' = ci /\ origin' = origin /\ handover' = handover
    BY <1>7 DEF RejectMattermost, RejectClusterInstallation, MinioOperator, vars
  <2> QED BY <2>1 DEF HandoverInv
<1> QED
  BY <1>1, <1>2, <1>3, <1>4, <1>5, <1>6, <1>7 DEF Next

(* So it holds throughout. *)
LEMMA HandoverInvariant == Spec => []HandoverInv
<1>1. Init => HandoverInv
  <2> SUFFICES ASSUME Init PROVE HandoverInv
    OBVIOUS
  <2>1. origin = {} /\ handover = "none" /\ \A c \in ci : c = BaseInstallation
    BY DEF Init
  <2>2. HostWritten(BaseInstallation)
    BY DEF HostWritten, InstallationWrites
  <2> QED BY <2>1, <2>2 DEF HandoverInv
<1>2. ClusterInv /\ HandoverInv /\ [Next]_vars => HandoverInv'
  BY HandoverNext DEF ClusterInv
<1> QED
  BY <1>1, <1>2, ClusterInvariant, PTL DEF Spec

(* The service of a Mattermost without an ALB is of the type of the one    *)
(* that a ClusterInstallation has.                                         *)
LEMMA ServiceAsBefore ==
    ASSUME NEW c, NEW m, SameAddress(c, m),
           NEW s, s = ApplyToService(m, GenerateServiceV1Beta(m)),
           NEW old, old = CI!GenerateService(c, c.Name, c.Name)
    PROVE  s.Type = old.Type /\ s.Ports = old.Ports
<1> DEFINE fields == {"Kind", "Name", "Owner", "Labels", "Annotations", "Selector", "Type", "Ports"}
<1>1. PICK new : new = newServiceV1Beta(m, mergeStringMaps(EmptyMap, m.Spec.ServiceAnnotations))
  OBVIOUS
<1>2. PICK g : g = GenerateServiceV1Beta(m)
  OBVIOUS
<1>3. fields \subseteq DOMAIN new
  BY <1>1 DEF newServiceV1Beta
<1>4. s = g \/ \E a : s = [g EXCEPT !.Annotations = a]
  BY <1>2 DEF ApplyToService, applyToService
<1>5. ~AWSLoadBalancerEnabled(m) /\ m.Spec.UseServiceLoadBalancer = c.Spec.UseServiceLoadBalancer
  BY DEF SameAddress, AWSLoadBalancerEnabled
<1>6. CASE c.Spec.UseServiceLoadBalancer
  <2>1. old.Type = "LoadBalancer" /\ old.Ports = {80, 443}
    BY <1>6 DEF CI!GenerateService, CI!newService, CI!configureMattermostLoadBalancerService
  <2>2. g = configureMattermostLoadBalancerService(new)
    BY <1>1, <1>2, <1>5, <1>6 DEF GenerateServiceV1Beta
  <2>3. g.Type = "LoadBalancer" /\ g.Ports = {80, 443} /\ fields \subseteq DOMAIN g
    BY <1>3, <2>2 DEF configureMattermostLoadBalancerService
  <2> QED BY <1>4, <2>1, <2>3
<1>7. CASE ~c.Spec.UseServiceLoadBalancer
  <2>1. old.Type = "ClusterIP" /\ old.Ports = {8065, 8067}
    BY <1>7 DEF CI!GenerateService, CI!newService, CI!configureMattermostService
  <2>2. g = configureMattermostService(new)
    BY <1>1, <1>2, <1>5, <1>7 DEF GenerateServiceV1Beta
  <2>3. g.Type = "ClusterIP" /\ g.Ports = {8065, 8067} /\ fields \subseteq DOMAIN g
    BY <1>3, <2>2 DEF configureMattermostService
  <2> QED BY <1>4, <2>1, <2>3
<1> QED
  BY <1>6, <1>7

(* Its ingress has the hosts and the certificates of the other, *)
LEMMA HostsAsBefore ==
    ASSUME NEW c, HostWritten(c), c.Spec.IngressName # Unset,
           NEW m, SameAddress(c, m), NEW i, i = GenerateIngressV1Beta(m),
           NEW annotations,
           NEW old, old = CI!GenerateIngress(c, c.Name, c.Spec.IngressName, annotations)
    PROVE  i.Rules = old.Rules /\ i.TLS = old.TLS
<1>1. PICK host : host = c.Spec.IngressName
  OBVIOUS
<1>2. /\ m.Name = c.Name /\ m.Spec.Ingress = {} /\ m.Spec.IngressName = host
      /\ m.Spec.UseIngressTLS = c.Spec.UseIngressTLS
  BY <1>1 DEF SameAddress
<1>3. GetIngressHost(m) = host /\ GetIngressHostNames(m) = <<host>>
  <2>1. GetIngressHost(m) = host
    BY <1>2 DEF GetIngressHost
  <2> QED BY <1>1, <1>2, <2>1 DEF GetIngressHostNames
<1>4. i.Rules = old.Rules
  <2>1. i.Rules = makeIngressRules(<<host>>, m)
    BY <1>3 DEF GenerateIngressV1Beta
  <2>2. old.Rules = <<[Host |-> host, Backend |-> Backend(c.Name)]>>
    BY <1>1, CIIngressRules
  <2>3. makeIngressRules(<<host>>, m) = <<[Host |-> host, Backend |-> Backend(m.Name)]>>
    BY DEF makeIngressRules
  <2> QED BY <1>2, <2>1, <2>2, <2>3
<1>5. PICK secret : secret = Dashed(host) \o "-tls-cert"
  OBVIOUS
<1>6. secret # Unset
  BY <1>1, <1>5, CertificatesNamed DEF HostWritten
<1>7. i.TLS = IF GetIngressTLSSecret(m) = Unset THEN {}
              ELSE {[Hosts |-> <<host>>, SecretName |-> GetIngressTLSSecret(m)]}
  BY <1>3 DEF GenerateIngressV1Beta
<1>8. old.TLS = IF ~c.Spec.UseIngressTLS THEN {}
                ELSE {[Hosts |-> <<host>>, SecretName |-> secret]}
  <2>1. CI!Dashed(host) = Dashed(host)
    BY DEF CI!Dashed, Dashed
  <2> QED BY <1>1, <1>5, <2>1 DEF CI!GenerateIngress
<1>9. CASE c.Spec.UseIngressTLS
  <2>1. GetIngressTLSSecret(m) = secret
    BY <1>2, <1>3, <1>5, <1>9 DEF GetIngressTLSSecret
  <2> QED BY <1>4, <1>6, <1>7, <1>8, <1>9, <2>1
<1>10. CASE ~c.Spec.UseIngressTLS
  <2>1. GetIngressTLSSecret(m) = Unset
    BY <1>2, <1>10 DEF GetIngressTLSSecret
  <2> QED BY <1>4, <1>7, <1>8, <1>10, <2>1
<1> QED
  BY <1>9, <1>10

(* and those of its annotations that are not refused. *)
LEMMA AnnotationsAsBefore ==
    ASSUME NEW c, NEW m, SameAddress(c, m), NEW i, i = GenerateIngressV1Beta(m),
           NEW old, old = MainIngressAnnotations(c),
           NEW kept, kept = sanitizeIngressAnnotations(old)
    PROVE  /\ DOMAIN i.Annotations \subseteq DOMAIN old
           /\ \A k \in DOMAIN kept : k \in DOMAIN i.Annotations /\ i.Annotations[k] = kept[k]
<1>1. PICK user : user = c.Spec.IngressAnnotations
  OBVIOUS
<1>2. PICK clean : clean = sanitizeIngressAnnotations(user)
  OBVIOUS
<1>3. PICK size, nginx, keys : /\ size = [number |-> 1000, unit |-> "M", multiline |-> FALSE]
                               /\ nginx = Plain("nginx")
                               /\ keys = {ingressClassAnnotation, BodySizeAnnotation}
  OBVIOUS
<1>4. PICK own : own = [k \in keys |-> IF k = BodySizeAnnotation THEN size ELSE nginx]
  OBVIOUS
<1>5. /\ DOMAIN old = keys \cup DOMAIN user
      /\ \A k \in DOMAIN old : old[k] = IF k \in DOMAIN user THEN user[k] ELSE own[k]
  BY <1>1, <1>3, <1>4 DEF MainIngressAnnotations, mergeStringMaps
<1>6. ingressClassAnnotation # BodySizeAnnotation
  BY DEF ingressClassAnnotation, BodySizeAnnotation
<1>7. GetIngressClass(m) = {} /\ GetIngresAnnotations(m) = user
  BY <1>1 DEF SameAddress, GetIngressClass, GetIngresAnnotations
<1>8. PICK body, class : /\ body = [k \in {BodySizeAnnotation} |-> size]
                         /\ class = [k \in {ingressClassAnnotation} |-> nginx]
  OBVIOUS
<1>9. i.Annotations = mergeStringMaps(mergeStringMaps(body, class), clean)
  BY <1>2, <1>3, <1>7, <1>8 DEF GenerateIngressV1Beta
<1>10. /\ DOMAIN mergeStringMaps(body, class) = keys
       /\ \A k \in keys : mergeStringMaps(body, class)[k] = own[k]
  BY <1>3, <1>4, <1>6, <1>8 DEF mergeStringMaps
<1>11. /\ DOMAIN i.Annotations = keys \cup DOMAIN clean
       /\ \A k \in DOMAIN i.Annotations :
            i.Annotations[k] = IF k \in DOMAIN clean THEN clean[k] ELSE own[k]
  BY <1>9, <1>10 DEF mergeStringMaps
<1>12. /\ DOMAIN clean = {k \in DOMAIN user : k \notin SnippetKeys /\ ~user[k].multiline}
       /\ \A k \in DOMAIN clean : clean[k] = user[k]
  BY <1>2 DEF sanitizeIngressAnnotations, Restrict
<1>13. /\ DOMAIN kept = {k \in DOMAIN old : k \notin SnippetKeys /\ ~old[k].multiline}
       /\ \A k \in DOMAIN kept : kept[k] = old[k]
  BY DEF sanitizeIngressAnnotations, Restrict
<1>14. ASSUME NEW k \in DOMAIN kept
       PROVE  k \in DOMAIN i.Annotations /\ i.Annotations[k] = kept[k]
  <2>1. k \in DOMAIN old /\ k \notin SnippetKeys /\ ~old[k].multiline /\ kept[k] = old[k]
    BY <1>13
  <2>2. CASE k \in DOMAIN user
    <3>1. k \in DOMAIN clean /\ clean[k] = user[k] /\ old[k] = user[k]
      BY <1>5, <1>12, <2>1, <2>2
    <3> QED BY <1>11, <2>1, <3>1
  <2>3. CASE k \notin DOMAIN user
    <3>1. k \in keys /\ k \notin DOMAIN clean /\ old[k] = own[k]
      BY <1>5, <1>12, <2>1, <2>3
    <3> QED BY <1>11, <2>1, <3>1
  <2> QED BY <2>2, <2>3
<1> QED
  BY <1>5, <1>11, <1>12, <1>14

(* Users find a migrated installation where it was: a service of the same  *)
(* type and ports, an ingress with the same hosts, certificates and        *)
(* annotations (ConvertToMM, GenerateServiceV1Beta, GenerateIngressV1Beta),*)
(* for any values that users write.                                        *)
THEOREM AddressStays == Spec => []AddressKept
<1>1. ClusterInv /\ HandoverInv => AddressKept
  <2> SUFFICES ASSUME ClusterInv, HandoverInv, Complete, handover = "waiting", NEW c \in origin
               PROVE  /\ \E s \in Found("Service", c.Name) :
                            LET old == CI!GenerateService(c, c.Name, c.Name)
                            IN s.Type = old.Type /\ s.Ports = old.Ports
                      /\ ~c.Spec.UseServiceLoadBalancer => \E i \in Found("Ingress", c.Name) :
                            LET old == CI!GenerateIngress(c, c.Name, c.Spec.IngressName,
                                                          MainIngressAnnotations(c))
                                kept == sanitizeIngressAnnotations(old.Annotations)
                            IN /\ i.Rules = old.Rules /\ i.TLS = old.TLS
                               /\ DOMAIN i.Annotations \subseteq DOMAIN old.Annotations
                               /\ \A k \in DOMAIN kept :
                                    k \in DOMAIN i.Annotations /\ i.Annotations[k] = kept[k]
    BY DEF AddressKept
  <2>1. PICK m \in mm : SameAddress(c, m)
    BY DEF HandoverInv
  <2>2. Installed(m) /\ m.Name = c.Name
    BY <2>1 DEF ClusterInv, Complete, ReconciledInv, SameAddress
  <2>3. \E s \in Found("Service", c.Name) :
            LET old == CI!GenerateService(c, c.Name, c.Name)
            IN s.Type = old.Type /\ s.Ports = old.Ports
    <3>1. PICK s : s = ApplyToService(m, GenerateServiceV1Beta(m))
      OBVIOUS
    <3>2. InPlace(s) /\ Key(s) = <<"Service", c.Name>>
      BY <2>2, <3>1, ServiceIs DEF Installed, Key
    <3>3. s \in Found("Service", c.Name)
      BY <3>2 DEF InPlace, Found
    <3> QED BY <2>1, <3>1, <3>3, ServiceAsBefore
  <2>4. ASSUME ~c.Spec.UseServiceLoadBalancer
        PROVE  \E i \in Found("Ingress", c.Name) :
                    LET old == CI!GenerateIngress(c, c.Name, c.Spec.IngressName,
                                                  MainIngressAnnotations(c))
                        kept == sanitizeIngressAnnotations(old.Annotations)
                    IN /\ i.Rules = old.Rules /\ i.TLS = old.TLS
                       /\ DOMAIN i.Annotations \subseteq DOMAIN old.Annotations
                       /\ \A k \in DOMAIN kept :
                            k \in DOMAIN i.Annotations /\ i.Annotations[k] = kept[k]
    <3>1. PICK i : i = GenerateIngressV1Beta(m)
      OBVIOUS
    <3>2. i \in checkMattermostIngress(m)
      BY <2>1, <3>1 DEF SameAddress, checkMattermostIngress, AWSLoadBalancerEnabled, IngressEnabled
    <3>3. ~m.Spec.UseServiceLoadBalancer
      BY <2>1, <2>4 DEF SameAddress
    <3>4. InPlace(i) /\ Key(i) = <<"Ingress", c.Name>>
      BY <2>2, <3>2, <3>3, IngressIs DEF Installed, Key
    <3>5. i \in Found("Ingress", c.Name)
      BY <3>4 DEF InPlace, Found
    <3>6. PICK annotations : annotations = MainIngressAnnotations(c)
      OBVIOUS
    <3>7. PICK old : old = CI!GenerateIngress(c, c.Name, c.Spec.IngressName, annotations)
      OBVIOUS
    <3>8. old.Annotations = annotations
      BY <3>7 DEF CI!GenerateIngress
    <3>9. HostWritten(c) /\ c.Spec.IngressName # Unset
      BY SameVocabulary DEF HandoverInv, CI!SetDefaultsFails
    <3>10. i.Rules = old.Rules /\ i.TLS = old.TLS
      BY <2>1, <3>1, <3>7, <3>9, HostsAsBefore
    <3>11. PICK kept : kept = sanitizeIngressAnnotations(annotations)
      OBVIOUS
    <3>12. /\ DOMAIN i.Annotations \subseteq DOMAIN annotations
           /\ \A k \in DOMAIN kept : k \in DOMAIN i.Annotations /\ i.Annotations[k] = kept[k]
      BY <2>1, <3>1, <3>6, <3>11, AnnotationsAsBefore
    <3> QED BY <3>5, <3>6, <3>7, <3>8, <3>10, <3>11, <3>12
  <2> QED BY <2>3, <2>4
<1> QED
  BY <1>1, ClusterInvariant, HandoverInvariant, PTL DEF Spec

-----------------------------------------------------------------------------
(* What a migration leaves of the database and of MinIO. *)

(* The numbers of replicas of a ClusterInstallation are numbers. *)
Counted(c) ==
    /\ c.Spec.Replicas \in Int
    /\ c.Spec.Minio.Replicas \in Int
    /\ c.Spec.Database.Replicas \in Int

(* A Mattermost has the database and the file store of the                 *)
(* ClusterInstallation that it was made from: what a pass could fill in of *)
(* them was filled in before.                                              *)
SameStores(c, m) ==
    /\ m.Spec.Size = Unset
    /\ \/ DatabaseIsExternal(m.Spec.Database)
       \/ /\ ManagedDatabase(m.Spec.Database).Type = c.Spec.Database.Type
          /\ c.Spec.Database.Type = "mysql" /\ c.Spec.Database.Replicas > 0 =>
                m.Spec.Database = convertToOperatorManagedDB(c)
    /\ \/ FileStoreIsExternal(m.Spec.FileStore)
       \/ c.Spec.Minio.Replicas > 0 => m.Spec.FileStore = convertToOperatorManagedMinio(c)

(* The kinds of the objects that keep the data of an installation. *)
StoreKinds == {"MysqlCluster", "MinIOInstance"}

(* Such an object of the Mattermost is what the ClusterInstallation had. *)
TakenOver(o, c, m) ==
    o.Owner = OwnedBy(m) /\ ~SecretDropped(c, m) =>
        /\ o.Kind = "MysqlCluster" /\ c.Spec.Database.Replicas > 0 =>
                Anonymous(o) = Anonymous(CI!Cluster(c))
        /\ o.Kind = "MinIOInstance" /\ c.Spec.Minio.Replicas > 0 =>
                Anonymous(o) = Anonymous(CI!Instance(c))

(* Beside a ClusterInstallation no Mattermost owns a database or a MinIO,  *)
(* and afterwards those that one owns are taken over.                      *)
StoresInv ==
    /\ \A c \in ci \cup origin : Counted(c)
    /\ ci # {} => \A k \in DOMAIN objects :
        objects[k].Kind \in StoreKinds => objects[k].Owner[1] # "Mattermost"
    /\ \A c \in origin : \A m \in mm :
        SameStores(c, m) /\ \A k \in DOMAIN objects : TakenOver(objects[k], c, m)

(* The database that a conversion writes, field by field, *)
LEMMA ConvertedDatabase ==
    ASSUME NEW c, NEW db, db = convertToOperatorManagedDB(c)
    PROVE  /\ ShapedDatabase(db) /\ ~DatabaseIsExternal(db)
           /\ db.OperatorManaged = {ManagedDatabase(db)}
           /\ ManagedDatabase(db).Replicas = convertReplicas(c.Spec.Database.Replicas)
           /\ \A f \in ManagedDatabaseFields \ {"Replicas"} :
                ManagedDatabase(db)[f] = c.Spec.Database[f]
<1>1. PICK old : old = c.Spec.Database
  OBVIOUS
<1>2. PICK r : r = [Type |-> old.Type, StorageSize |-> old.StorageSize,
                    Replicas |-> convertReplicas(old.Replicas), Resources |-> old.Resources,
                    InitBucketURL |-> old.InitBucketURL, Backup |-> old.Backup,
                    BackupRestoreSecretName |-> old.BackupRestoreSecretName,
                    Version |-> old.Version]
  OBVIOUS
<1>3. /\ IsRecord(r, ManagedDatabaseFields)
      /\ r.Replicas = convertReplicas(old.Replicas)
      /\ \A f \in ManagedDatabaseFields \ {"Replicas"} : r[f] = old[f]
  BY <1>2 DEF IsRecord, ManagedDatabaseFields
<1>4. db = [NoDatabase EXCEPT !.OperatorManaged = {r}]
  BY <1>1, <1>2 DEF convertToOperatorManagedDB
<1>5. IsRecord(db, DatabaseFields) /\ db.OperatorManaged = {r} /\ db.External = {}
  BY <1>4 DEF NoDatabase, IsRecord, DatabaseFields
<1>6. ManagedDatabase(db) = r
  BY <1>5, DerefOne DEF ManagedDatabase
<1>7. ShapedDatabase(db) /\ ~DatabaseIsExternal(db)
  BY <1>3, <1>5 DEF ShapedDatabase, Pointer, DatabaseIsExternal
<1> QED
  BY <1>1, <1>3, <1>5, <1>6, <1>7

(* and the MinIO. *)
LEMMA ConvertedMinio ==
    ASSUME NEW c, NEW fs, fs = convertToOperatorManagedMinio(c)
    PROVE  /\ ShapedFileStore(fs) /\ ~isAnyExceptOperatorManaged(fs)
           /\ fs.OperatorManaged = {ManagedMinio(fs)}
           /\ ManagedMinio(fs).Replicas = convertReplicas(c.Spec.Minio.Replicas)
           /\ ManagedMinio(fs).StorageSize = c.Spec.Minio.StorageSize
           /\ ManagedMinio(fs).Resources = c.Spec.Minio.Resources
<1>1. PICK old : old = c.Spec.Minio
  OBVIOUS
<1>2. PICK r : r = [StorageSize |-> old.StorageSize, Replicas |-> convertReplicas(old.Replicas),
                    Resources |-> old.Resources]
  OBVIOUS
<1>3. /\ IsRecord(r, ManagedMinioFields)
      /\ r.Replicas = convertReplicas(old.Replicas)
      /\ r.StorageSize = old.StorageSize /\ r.Resources = old.Resources
  BY <1>2 DEF IsRecord, ManagedMinioFields
<1>4. fs = [External |-> {}, ExternalVolume |-> {}, Local |-> {}, OperatorManaged |-> {r}]
  BY <1>1, <1>2 DEF convertToOperatorManagedMinio
<1>5. /\ IsRecord(fs, FileStoreFields) /\ fs.OperatorManaged = {r}
      /\ fs.External = {} /\ fs.ExternalVolume = {} /\ fs.Local = {}
  BY <1>4 DEF IsRecord, FileStoreFields
<1>6. ManagedMinio(fs) = r
  BY <1>5, DerefOne DEF ManagedMinio
<1>7. ShapedFileStore(fs) /\ ~isAnyExceptOperatorManaged(fs)
  BY <1>3, <1>5 DEF ShapedFileStore, Pointer, isAnyExceptOperatorManaged, FileStoreIsExternal,
                    IsExternalVolume, IsLocal
<1> QED
  BY <1>1, <1>3, <1>5, <1>6, <1>7

(* Positive replicas are converted to themselves. *)
LEMMA ReplicasConverted ==
    ASSUME NEW n \in Int, n > 0
    PROVE  convertReplicas(n) = {n}
  BY DEF convertReplicas

(* The defaults have nothing to fill in of either. *)
LEMMA ConvertedSettled ==
    ASSUME NEW c, CISettled(c), Counted(c)
    PROVE  /\ c.Spec.Database.Type = "mysql" /\ c.Spec.Database.Replicas > 0 =>
                DatabaseSettled(convertToOperatorManagedDB(c))
           /\ c.Spec.Minio.Replicas > 0 => FileStoreSettled(convertToOperatorManagedMinio(c))
<1>1. ASSUME c.Spec.Database.Type = "mysql", c.Spec.Database.Replicas > 0
      PROVE  DatabaseSettled(convertToOperatorManagedDB(c))
  <2>1. PICK db : db = convertToOperatorManagedDB(c)
    OBVIOUS
  <2>2. PICK omd : omd = ManagedDatabase(db)
    OBVIOUS
  <2>3. /\ db.OperatorManaged = {omd}
        /\ omd.Replicas = convertReplicas(c.Spec.Database.Replicas)
        /\ \A f \in ManagedDatabaseFields \ {"Replicas"} : omd[f] = c.Spec.Database[f]
    BY <2>1, <2>2, ConvertedDatabase
  <2>4. /\ omd.Type = c.Spec.Database.Type /\ omd.StorageSize = c.Spec.Database.StorageSize
        /\ omd.Version = c.Spec.Database.Version /\ omd.Resources = c.Spec.Database.Resources
    BY <2>3 DEF ManagedDatabaseFields
  <2>5. omd.Replicas # {}
    BY <1>1, <2>3, ReplicasConverted DEF Counted
  <2>6. /\ c.Spec.Database.Type # Unset /\ c.Spec.Database.StorageSize # Unset
        /\ c.Spec.Database.Version # Unset /\ c.Spec.Database.Resources # NoResources
    BY <1>1 DEF CISettled, CIDatabaseSettled, CI!DefaultMattermostDatabaseType
  <2> QED BY <2>1, <2>3, <2>4, <2>5, <2>6 DEF DatabaseSettled
<1>2. ASSUME c.Spec.Minio.Replicas > 0
      PROVE  FileStoreSettled(convertToOperatorManagedMinio(c))
  <2>1. PICK fs : fs = convertToOperatorManagedMinio(c)
    OBVIOUS
  <2>2. PICK omm : omm = ManagedMinio(fs)
    OBVIOUS
  <2>3. /\ fs.OperatorManaged = {omm}
        /\ omm.Replicas = convertReplicas(c.Spec.Minio.Replicas)
        /\ omm.StorageSize = c.Spec.Minio.StorageSize
        /\ omm.Resources = c.Spec.Minio.Resources
    BY <2>1, <2>2, ConvertedMinio
  <2>4. omm.Replicas # {}
    BY <1>2, <2>3, ReplicasConverted DEF Counted
  <2> QED BY <2>1, <2>3, <2>4 DEF FileStoreSettled, CISettled, CIMinioSettled
<1> QED
  BY <1>1, <1>2

(* Both stay with the Mattermost that tryToMigrate creates, *)
LEMMA ConvertedStores ==
    ASSUME NEW c, CISettled(c), NEW secret, NEW m \in ConvertToMM(c, secret), NEW labels,
           NEW n, n = [m EXCEPT !.Spec.ResourceLabels = labels]
    PROVE  SameStores(c, n)
<1>1. PICK database \in convertDatabase(c, secret) :
        /\ m.Spec.Size = c.Spec.Size
        /\ m.Spec.Database = database
        /\ m.Spec.FileStore = convertFileStore(c)
  BY DEF ConvertToMM
<1>2. Shaped(m)
  BY ConvertedShaped
<1>3. IsRecord(m, {"Name", "Spec"}) /\ IsRecord(m.Spec, SpecFields)
  BY <1>2 DEF Shaped
<1>4. n.Spec = [m.Spec EXCEPT !.ResourceLabels = labels]
  BY <1>3 DEF IsRecord
<1>5. \A f \in SpecFields \ {"ResourceLabels"} : n.Spec[f] = m.Spec[f]
  BY <1>3, <1>4 DEF IsRecord, SpecFields
<1>6. /\ n.Spec.Size = m.Spec.Size /\ n.Spec.Database = m.Spec.Database
      /\ n.Spec.FileStore = m.Spec.FileStore
  BY <1>5 DEF SpecFields
<1>7. n.Spec.Size = Unset
  BY <1>1, <1>6 DEF CISettled
<1>8. \/ DatabaseIsExternal(n.Spec.Database)
      \/ /\ ManagedDatabase(n.Spec.Database).Type = c.Spec.Database.Type
         /\ n.Spec.Database = convertToOperatorManagedDB(c)
  <2>1. CASE database = convertToOperatorManagedDB(c)
    <3>1. \A f \in ManagedDatabaseFields \ {"Replicas"} :
            ManagedDatabase(database)[f] = c.Spec.Database[f]
      BY <2>1, ConvertedDatabase
    <3>2. ManagedDatabase(database).Type = c.Spec.Database.Type
      BY <3>1 DEF ManagedDatabaseFields
    <3>3. n.Spec.Database = database
      BY <1>1, <1>6
    <3> QED BY <2>1, <3>2, <3>3
  <2>2. CASE database # convertToOperatorManagedDB(c)
    <3>1. /\ c.Spec.Database.Secret # Unset
          /\ database = [NoDatabase EXCEPT !.External = {[Secret |-> c.Spec.Database.Secret]}]
      BY <1>1, <2>2 DEF convertDatabase
    <3>2. database.External = {[Secret |-> c.Spec.Database.Secret]}
      BY <3>1 DEF NoDatabase
    <3>3. DatabaseIsExternal(database)
      BY <3>1, <3>2 DEF DatabaseIsExternal
    <3>4. n.Spec.Database = database
      BY <1>1, <1>6
    <3> QED BY <3>3, <3>4
  <2> QED BY <2>1, <2>2
<1>9. CASE CI!MinioIsExternal(c.Spec.Minio)
  <2>1. c.Spec.Minio.ExternalURL # Unset
    BY <1>9, SameVocabulary DEF CI!MinioIsExternal
  <2>2. PICK e : e = [URL |-> c.Spec.Minio.ExternalURL, Bucket |-> c.Spec.Minio.ExternalBucket,
                      Secret |-> c.Spec.Minio.Secret, UseServiceAccount |-> FALSE]
    OBVIOUS
  <2>3. PICK fs : fs = convertFileStore(c)
    OBVIOUS
  <2>4. fs.External = {e} /\ e.URL # Unset
    BY <1>9, <2>1, <2>2, <2>3 DEF convertFileStore
  <2>5. FileStoreIsExternal(fs)
    BY <2>4 DEF FileStoreIsExternal
  <2>6. n.Spec.FileStore = fs
    BY <1>1, <1>6, <2>3
  <2> QED BY <1>7, <1>8, <2>5, <2>6 DEF SameStores
<1>10. CASE ~CI!MinioIsExternal(c.Spec.Minio)
  <2>1. n.Spec.FileStore = convertToOperatorManagedMinio(c)
    BY <1>1, <1>6, <1>10 DEF convertFileStore
  <2> QED BY <1>7, <1>8, <2>1 DEF SameStores
<1> QED
  BY <1>9, <1>10

(* (a type that is set is not replaced by the default) *)
LEMMA TypeStays ==
    ASSUME NEW db, ShapedDatabase(db), ~DatabaseIsExternal(db), ManagedDatabase(db).Type # Unset,
           NEW new, new = DatabaseSetDefaultReplicasAndResources(DatabaseSetDefaults(db))
    PROVE  ManagedDatabase(new).Type = ManagedDatabase(db).Type
<1>1. PICK o : o = ManagedDatabase(db)
  OBVIOUS
<1>2. PICK n : n = [o EXCEPT !.Type = OrDefault(@, "mysql"),
                             !.StorageSize = OrDefault(@, DefaultStorageSize),
                             !.Version = OrDefault(@, "8.0")]
  OBVIOUS
<1>3. IsRecord(o, ManagedDatabaseFields)
  BY <1>1, ManagedDatabaseRecord
<1>4. IsRecord(n, ManagedDatabaseFields) /\ n.Type = OrDefault(o.Type, "mysql")
  BY <1>2, <1>3 DEF IsRecord, ManagedDatabaseFields
<1>5. PICK d : d = DatabaseSetDefaults(db)
  OBVIOUS
<1>6. d = [db EXCEPT !.OperatorManaged = {n}]
  BY <1>1, <1>2, <1>5 DEF DatabaseSetDefaults
<1>7. ShapedDatabase(d) /\ ManagedDatabase(d) = n /\ ~DatabaseIsExternal(d)
  BY <1>4, <1>6, DatabasePut DEF ShapedDatabase
<1>8. ManagedDatabase(new).Type = n.Type
  BY <1>5, <1>7, DatabaseFilled
<1> QED
  BY <1>1, <1>4, <1>8 DEF OrDefault

(* and the defaults leave them alone. *)
LEMMA NormalisedStores ==
    ASSUME NEW c, CISettled(c), Counted(c), NEW old, Shaped(old), SameStores(c, old),
           NEW m, m = Normalised(old)
    PROVE  /\ SameStores(c, m)
           /\ SecretDropped(c, m) = SecretDropped(c, old)
<1>1. PICK d : d = SetDefaults(old)
  OBVIOUS
<1>2. PICK db, fs : db = old.Spec.Database /\ fs = old.Spec.FileStore
  OBVIOUS
<1>3. ShapedDatabase(db) /\ ShapedFileStore(fs)
  BY <1>2, ShapedParts
<1>4. /\ d.Spec.Size = Unset
      /\ d.Spec.FileStore = FileStoreSetDefaults(fs)
      /\ d.Spec.Database = DatabaseSetDefaults(db)
  BY <1>1, <1>2, SetDefaultsFields DEF SameStores
<1>5. Shaped(d)
  BY <1>1, SetDefaultsFields, ShapedParts, DatabaseDefaulted, FileStoreDefaulted DEF Manages, Keeps
<1>6. m = setDefaultReplicasAndResources(d)
  BY <1>1, <1>4 DEF Normalised, SetReplicasAndResourcesFromSize
<1>7. /\ m.Spec.Size = Unset
      /\ m.Spec.FileStore = FileStoreSetDefaultReplicasAndResources(FileStoreSetDefaults(fs))
      /\ m.Spec.Database = DatabaseSetDefaultReplicasAndResources(DatabaseSetDefaults(db))
  BY <1>4, <1>5, <1>6, DefaultSizeFields
<1>8. PICK db1, fs1 : db1 = DatabaseSetDefaults(db) /\ fs1 = FileStoreSetDefaults(fs)
  OBVIOUS
<1>9. PICK db2, fs2 : /\ db2 = DatabaseSetDefaultReplicasAndResources(db1)
                      /\ fs2 = FileStoreSetDefaultReplicasAndResources(fs1)
  OBVIOUS
<1>10. m.Spec.Database = db2 /\ m.Spec.FileStore = fs2
  BY <1>7, <1>8, <1>9
<1>11. DatabaseIsExternal(db2) = DatabaseIsExternal(db)
  <2>1. Manages(db, db1)
    BY <1>3, <1>8, DatabaseDefaulted
  <2>2. Manages(db1, db2)
    BY <1>9, <2>1, DatabaseFilled DEF Manages
  <2> QED BY <2>1, <2>2 DEF Manages
<1>12. /\ FileStoreIsExternal(fs2) = FileStoreIsExternal(fs)
       /\ isAnyExceptOperatorManaged(fs) => fs2 = fs
  <2>1. Keeps(fs, fs1)
    BY <1>3, <1>8, FileStoreDefaulted
  <2>2. Keeps(fs1, fs2)
    BY <1>9, <2>1, FileStoreFilled DEF Keeps
  <2>3. fs2.External = fs.External
    BY <2>1, <2>2 DEF Keeps, FileStoreFields
  <2> QED BY <2>1, <2>2, <2>3 DEF Keeps, FileStoreIsExternal
<1>13. \/ DatabaseIsExternal(db2)
       \/ /\ ManagedDatabase(db2).Type = c.Spec.Database.Type
          /\ c.Spec.Database.Type = "mysql" /\ c.Spec.Database.Replicas > 0 =>
                db2 = convertToOperatorManagedDB(c)
  <2> SUFFICES ASSUME ~DatabaseIsExternal(db)
               PROVE  /\ ManagedDatabase(db2).Type = c.Spec.Database.Type
                      /\ c.Spec.Database.Type = "mysql" /\ c.Spec.Database.Replicas > 0 =>
                            db2 = convertToOperatorManagedDB(c)
    BY <1>11
  <2>1. /\ ManagedDatabase(db).Type = c.Spec.Database.Type
        /\ c.Spec.Database.Type = "mysql" /\ c.Spec.Database.Replicas > 0 =>
                db = convertToOperatorManagedDB(c)
    BY <1>2 DEF SameStores
  <2>2. c.Spec.Database.Type # Unset
    BY DEF CISettled, CIDatabaseSettled
  <2>3. ManagedDatabase(db2).Type = c.Spec.Database.Type
    BY <1>3, <1>8, <1>9, <2>1, <2>2, TypeStays
  <2>4. ASSUME c.Spec.Database.Type = "mysql", c.Spec.Database.Replicas > 0
        PROVE  db2 = convertToOperatorManagedDB(c)
    <3>1. DatabaseSettled(db)
      BY <2>1, <2>4, ConvertedSettled
    <3>2. db1 = db
      BY <1>3, <1>8, <3>1, DatabaseFixed
    <3>3. db2 = db
      BY <1>3, <1>9, <3>1, <3>2, DatabaseFixed
    <3> QED BY <2>1, <2>4, <3>3
  <2> QED BY <2>3, <2>4
<1>14. \/ FileStoreIsExternal(fs2)
       \/ c.Spec.Minio.Replicas > 0 => fs2 = convertToOperatorManagedMinio(c)
  <2> SUFFICES ASSUME ~FileStoreIsExternal(fs), c.Spec.Minio.Replicas > 0
               PROVE  fs2 = convertToOperatorManagedMinio(c)
    BY <1>12
  <2>1. fs = convertToOperatorManagedMinio(c)
    BY <1>2 DEF SameStores
  <2>2. FileStoreSettled(fs)
    BY <2>1, ConvertedSettled
  <2>3. fs1 = fs
    BY <1>3, <1>8, <2>2, FileStoreFixed
  <2>4. fs2 = fs
    BY <1>3, <1>9, <2>2, <2>3, FileStoreFixed
  <2> QED BY <2>1, <2>4
<1>15. SameStores(c, m)
  BY <1>7, <1>10, <1>13, <1>14 DEF SameStores
<1>16. SecretDropped(c, m) = SecretDropped(c, old)
  BY <1>2, <1>10, <1>11, <1>12 DEF SecretDropped
<1> QED
  BY <1>15, <1>16

(* The replicas stay numbers, in a pass *)
LEMMA CountedNormalised ==
    ASSUME NEW c, CIShaped(c), Counted(c), NEW n, n = CINormalised(c)
    PROVE  Counted(n)
<1>1. PICK d : d = CI!SetDefaults(c)
  OBVIOUS
<1>2. CIShaped(d)
  BY <1>1, CIDefaulted
<1>3. IsRecord(d.Spec.Minio, CIMinioFields) /\ IsRecord(d.Spec.Database, CIDatabaseFields)
  BY <1>2 DEF CIShaped
<1>4. Counted(d)
  <2>1. /\ d.Spec.Minio = CI!MinioSetDefaults(c.Spec.Minio)
        /\ d.Spec.Database = CI!DatabaseSetDefaults(c.Spec.Database)
        /\ d.Spec.Replicas = c.Spec.Replicas
    BY <1>1, CISetDefaultsFields
  <2>2. \A f \in CIMinioFields \ {"StorageSize"} : d.Spec.Minio[f] = c.Spec.Minio[f]
    BY <2>1, CIMinioDefaulted DEF CIShaped
  <2>3. \A f \in CIDatabaseFields \ {"Type", "StorageSize", "Version"} :
            d.Spec.Database[f] = c.Spec.Database[f]
    BY <2>1, CIDatabaseDefaulted DEF CIShaped
  <2> QED BY <2>1, <2>2, <2>3 DEF Counted, CIMinioFields, CIDatabaseFields
<1>5. PICK size : size = CI!Deref(CI!GetClusterSize(d.Spec.Size), CI!DefaultSize)
  OBVIOUS
<1>6. size \in SizeType
  <2>1. size = Deref(GetClusterSize(d.Spec.Size), DefaultSize)
    BY <1>5, SameVocabulary
  <2>2. CASE GetClusterSize(d.Spec.Size) = {}
    BY <2>1, <2>2, SizesTyped DEF Deref
  <2>3. CASE GetClusterSize(d.Spec.Size) # {}
    BY <2>1, <2>3, SizesTyped DEF Deref
  <2> QED BY <2>2, <2>3
<1>7. \/ n = CI!setDefaultReplicasAndResources(d)
      \/ n = CI!overrideReplicasAndResourcesFromSize(d, size)
  BY <1>1, <1>5 DEF CINormalised, CI!SetReplicasAndResourcesFromSize
<1>8. CASE n = CI!setDefaultReplicasAndResources(d)
  <2>1. /\ CI!DefaultSize.App.Replicas \in Nat /\ CI!DefaultSize.Minio.Replicas \in Nat
        /\ CI!DefaultSize.Database.Replicas \in Nat
    BY SameVocabulary, SizesTyped DEF SizeType, ComponentSize
  <2>2. /\ n.Spec.Minio = [d.Spec.Minio EXCEPT
                !.Replicas = CI!OrReplicas(@, CI!DefaultSize.Minio.Replicas),
                !.Resources = CI!OrResources(@, CI!DefaultSize.Minio.Resources)]
        /\ n.Spec.Database = [d.Spec.Database EXCEPT
                !.Replicas = IF d.Spec.Database.InitBucketURL = CI!Unset
                             THEN CI!OrReplicas(@, CI!DefaultSize.Database.Replicas) ELSE @,
                !.Resources = CI!OrResources(@, CI!DefaultSize.Database.Resources)]
        /\ n.Spec.Replicas = CI!OrReplicas(d.Spec.Replicas, CI!DefaultSize.App.Replicas)
    BY <1>2, <1>8, CIDefaultSizeFields
  <2>3. /\ n.Spec.Replicas \in {d.Spec.Replicas, CI!DefaultSize.App.Replicas}
        /\ n.Spec.Minio.Replicas \in {d.Spec.Minio.Replicas, CI!DefaultSize.Minio.Replicas}
        /\ n.Spec.Database.Replicas \in {d.Spec.Database.Replicas, CI!DefaultSize.Database.Replicas}
    BY <1>3, <2>2 DEF IsRecord, CIMinioFields, CIDatabaseFields, CI!OrReplicas
  <2> QED BY <1>4, <2>1, <2>3 DEF Counted
<1>9. CASE n = CI!overrideReplicasAndResourcesFromSize(d, size)
  <2>1. /\ n.Spec.Minio = CISizedPart(d.Spec.Minio, size.Minio)
        /\ n.Spec.Database = CISizedPart(d.Spec.Database, size.Database)
        /\ n.Spec.Replicas = size.App.Replicas
    BY <1>2, <1>9, CIOverrideFields
  <2>2. /\ n.Spec.Minio.Replicas = size.Minio.Replicas
        /\ n.Spec.Database.Replicas = size.Database.Replicas
    BY <1>3, <2>1 DEF IsRecord, CIMinioFields, CIDatabaseFields, CISizedPart
  <2> QED BY <1>6, <2>1, <2>2 DEF Counted, SizeType, ComponentSize
<1> QED
  BY <1>7, <1>8, <1>9

(* (a ClusterInstallation that passes its schema has numbers) *)
LEMMA TypedCounted ==
    ASSUME NEW c \in CI!ClusterInstallation
    PROVE  Counted(c)
<1>1. /\ c.Spec.Replicas \in Int
      /\ c.Spec.Minio \in CI!Minio /\ c.Spec.Database \in CI!Database
  BY DEF CI!ClusterInstallation, CI!ClusterInstallationSpecType
<1> QED
  BY <1>1 DEF CI!Minio, CI!Database, Counted

(* and in an edit. *)
LEMMA CountedOfEdit ==
    ASSUME NEW c, CIShaped(c), Counted(c), NEW f \in DOMAIN InstallationChoices,
           NEW v \in InstallationChoices[f], NEW n, n = [c EXCEPT !.Spec[f] = v]
    PROVE  Counted(n)
<1>1. PICK b : b = [BaseInstallation EXCEPT !.Spec[f] = v]
  OBVIOUS
<1>2. b \in CI!ClusterInstallation /\ BaseInstallation \in CI!ClusterInstallation
  BY <1>1, SpecsTyped
<1>3. CIShaped(BaseInstallation) /\ Counted(b)
  BY <1>2, CITypedShaped, TypedCounted
<1>4. f \in CISpecFields
  BY ChoiceFields
<1>5. b.Spec[f] = v
  BY <1>1, <1>3, <1>4 DEF CIShaped, IsRecord
<1>6. IsRecord(c, {"Name", "Spec"}) /\ IsRecord(c.Spec, CISpecFields)
  BY DEF CIShaped
<1>7. n.Spec = [c.Spec EXCEPT ![f] = v]
  BY <1>6 DEF IsRecord
<1>8. n.Spec[f] = v /\ \A g \in CISpecFields \ {f} : n.Spec[g] = c.Spec[g]
  BY <1>4, <1>6, <1>7 DEF IsRecord
<1>9. /\ n.Spec.Minio = c.Spec.Minio \/ n.Spec.Minio = b.Spec.Minio
      /\ n.Spec.Database = c.Spec.Database \/ n.Spec.Database = b.Spec.Database
      /\ n.Spec.Replicas = c.Spec.Replicas \/ n.Spec.Replicas = b.Spec.Replicas
  BY <1>5, <1>8 DEF CISpecFields
<1> QED
  BY <1>3, <1>9 DEF Counted

(* Neither kind is among the objects of the app, *)
LEMMA AppNoStore ==
    ASSUME NEW m, MattermostLeaves(m.Spec), NEW db, NEW store
    PROVE  \A o \in checkMattermost(m, db, store) : o.Kind \notin StoreKinds
<1> DEFINE Goal(o) == o.Kind \notin StoreKinds
<1>1. \A o \in checkMattermostService(m) : Goal(o)
  BY ServiceIs DEF checkMattermostService, StoreKinds
<1>2. \A o \in checkMattermostRBAC(m) : Goal(o)
  BY DEF checkMattermostRBAC, checkMattermostSA, GenerateServiceAccountV1Beta, GenerateRoleV1Beta,
         GenerateRoleBindingV1Beta, Bare, StoreKinds
<1>3. \A o \in checkMattermostIngressClass(m) : Goal(o)
  BY DEF checkMattermostIngressClass, GenerateALBIngressClassV1Beta, StoreKinds
<1>4. \A o \in checkMattermostIngress(m) : Goal(o)
  BY IngressIs DEF StoreKinds
<1>5. \A o \in checkMattermostDeployment(m, db, store) : Goal(o)
  <2>1. PICK g : g = GenerateDeploymentV1Beta(m, db, store, m.Name, GetIngressHost(m), m.Name,
                                              GetImageName(m))
    OBVIOUS
  <2>2. PICK d : d = ApplyToDeployment(m, g)
    OBVIOUS
  <2>3. d.Kind = "Deployment"
    BY <2>1, <2>2, AppIs
  <2>4. checkMattermostDeployment(m, db, store) = {d}
    BY <2>1, <2>2 DEF checkMattermostDeployment
  <2> QED BY <2>3, <2>4 DEF StoreKinds
<1>6. \A o \in checkMattermostJobServer(m, db, store) : Goal(o)
  <2>1. PICK g : g = GenerateJobServerDeploymentV1Beta(m, db, store, m.Name, GetIngressHost(m),
                                                       m.Name, GetImageName(m))
    OBVIOUS
  <2>2. PICK d : d = ApplyToDeployment(m, g)
    OBVIOUS
  <2>3. d.Kind = "Deployment"
    BY <2>1, <2>2, JobServerIs
  <2>4. checkMattermostJobServer(m, db, store) \subseteq {d}
    BY <2>1, <2>2 DEF checkMattermostJobServer
  <2> QED BY <2>3, <2>4 DEF StoreKinds
<1> HIDE DEF Goal
<1>7. \A o \in checkMattermost(m, db, store) : Goal(o)
  BY <1>1, <1>2, <1>3, <1>4, <1>5, <1>6 DEF checkMattermost
<1> QED
  BY <1>7 DEF Goal

(* a pass over a Mattermost asks for one of each at most, *)
LEMMA PreparedStores ==
    ASSUME Keyed, NEW m, NEW o \in checkDatabase(m).ensured \cup checkFileStore(m).ensured
    PROVE  /\ o.Kind = "MysqlCluster" =>
                /\ o = ClusterV1Beta(m)
                /\ ~DatabaseIsExternal(m.Spec.Database)
                /\ ManagedDatabase(m.Spec.Database).Type = "mysql"
           /\ o.Kind = "MinIOInstance" =>
                o = InstanceV1Beta(m) /\ ~FileStoreIsExternal(m.Spec.FileStore)
<1>1. CASE o \in checkDatabase(m).ensured
  <2>1. PICK secret : secret = GetOrCreateMySQLSecrets(OwnedBy(m), m.Name \o "-mysql-root-password")
    OBVIOUS
  <2>2. secret.Kind = "Secret"
    BY <2>1, MySQLSecretKind
  <2>3. /\ ~DatabaseIsExternal(m.Spec.Database)
        /\ ManagedDatabase(m.Spec.Database).Type = "mysql"
        /\ o \in {ClusterV1Beta(m), secret}
    BY <1>1, <2>1 DEF checkDatabase, checkOperatorManagedMySQL, Stage
  <2>4. ClusterV1Beta(m).Kind = "MysqlCluster"
    BY DEF ClusterV1Beta
  <2> QED BY <2>2, <2>3, <2>4
<1>2. CASE o \in checkFileStore(m).ensured
  <2>1. checkExternalFileStore(m).ensured = {} /\ checkExternalVolumeFileStore(m).ensured = {}
    BY DEF checkExternalFileStore, checkExternalVolumeFileStore, Stage
  <2>2. \/ o \in checkLocalFileStore(m).ensured
        \/ /\ o \in checkOperatorManagedMinio(m).ensured
           /\ ~FileStoreIsExternal(m.Spec.FileStore)
    BY <1>2, <2>1 DEF checkFileStore
  <2>3. CASE o \in checkLocalFileStore(m).ensured
    BY <2>3, LocalKinds
  <2>4. CASE /\ o \in checkOperatorManagedMinio(m).ensured
             /\ ~FileStoreIsExternal(m.Spec.FileStore)
    <3>1. PICK secret : secret = CreateOrUpdateMinioSecret(SecretV1Beta(m))
      OBVIOUS
    <3>2. secret.Kind = "Secret"
      BY <3>1, MinioSecretKind
    <3>3. o \in {secret, InstanceV1Beta(m)}
      BY <2>4, <3>1 DEF checkOperatorManagedMinio, Stage
    <3>4. InstanceV1Beta(m).Kind = "MinIOInstance"
      BY DEF InstanceV1Beta, newMinioInstance
    <3> QED BY <2>4, <3>2, <3>3, <3>4
  <2> QED BY <2>2, <2>3, <2>4
<1> QED
  BY <1>1, <1>2

(* and those of a ClusterInstallation are its own. *)
LEMMA CIStoresOwned ==
    ASSUME Keyed, NEW c, NEW o \in CIEnsured(c), o.Kind \in StoreKinds
    PROVE  o.Owner[1] # "Mattermost"
<1> DEFINE Goal(x) == x.Kind \in StoreKinds => x.Owner = CI!ClusterInstallationOwnerReference(c)
<1>1. \A x \in checkCIDatabase(c).ensured : Goal(x)
  <2>1. checkCIDatabase(c).ensured \in {{}, {CI!Cluster(c)}}
    BY DEF checkCIDatabase, Stage
  <2>2. CI!Cluster(c).Owner = CI!ClusterInstallationOwnerReference(c)
    BY DEF CI!Cluster
  <2> QED BY <2>1, <2>2
<1>2. \A x \in checkMinio(c).ensured : Goal(x)
  <2> DEFINE secret == CreateOrUpdateMinioSecret(CI!Secret(c))
  <2>1. secret.Kind = "Secret"
    BY MinioSecretKind
  <2>2. CI!Instance(c).Owner = CI!ClusterInstallationOwnerReference(c)
    BY DEF CI!Instance, CI!newMinioInstance
  <2>3. checkMinioSecret(c).ensured \in {{}, {secret}}
    BY DEF checkMinioSecret, Stage
  <2> HIDE DEF secret
  <2>4. checkMinio(c).ensured \subseteq checkMinioSecret(c).ensured \cup {CI!Instance(c)}
    BY DEF checkMinio, Stage
  <2> QED BY <2>1, <2>2, <2>3, <2>4 DEF StoreKinds
<1>3. \A x \in checkCIMattermost(c).ensured : Goal(x)
  <2> DEFINE service == CI!GenerateService(c, c.Name, CI!GetProductionDeploymentName(c))
             ingress == CI!GenerateIngress(c, c.Name, c.Spec.IngressName, MainIngressAnnotations(c))
             others == {CI!GenerateServiceAccount(c, c.Name), CI!GenerateRole(c, c.Name),
                        CI!GenerateRoleBinding(c, c.Name, c.Name)}
             main == checkCIDeployment(c, c.Name, c.Spec.IngressName, CI!GetImageName(c))
  <2>1. service.Kind = "Service" /\ ingress.Kind = "Ingress"
    BY CIServiceIs, CIIngressIs
  <2>2. \A x \in others : x.Kind \notin StoreKinds
    BY DEF CI!GenerateServiceAccount, CI!GenerateRole, CI!GenerateRoleBinding, StoreKinds
  <2>3. \A x \in main.ensured : x.Kind \in {"Secret", "Deployment"}
    BY CIDeploymentKinds
  <2>4. checkCIMattermost(c).ensured \subseteq {service, ingress} \cup others \cup main.ensured
    BY DEF checkCIMattermost, Stage
  <2> HIDE DEF service, ingress, others, main
  <2> QED BY <2>1, <2>2, <2>3, <2>4 DEF StoreKinds
<1>4. \A x \in checkBlueGreen(c).ensured : Goal(x)
  <2> DEFINE FrontEnd(d) == FrontOf(c, d.Name, d.IngressName, c.Spec.IngressAnnotations,
                                    ~c.Spec.UseServiceLoadBalancer)
             Deployed(d) == checkCIDeployment(c, d.Name, d.IngressName,
                                              CI!GetDeploymentImageName(d)).ensured
             blue == c.Spec.BlueGreen.Blue
             green == c.Spec.BlueGreen.Green
  <2>1. \A d : \A x \in FrontEnd(d) : x.Kind \in {"Service", "Ingress"}
    BY FrontIs
  <2>2. \A d : \A x \in Deployed(d) : x.Kind \in {"Secret", "Deployment"}
    BY CIDeploymentKinds
  <2>3. checkBlueGreen(c).ensured \subseteq
            FrontEnd(blue) \cup Deployed(blue) \cup FrontEnd(green) \cup Deployed(green)
    BY DEF checkBlueGreen, Stage
  <2> HIDE DEF FrontEnd, Deployed
  <2> QED BY <2>1, <2>2, <2>3 DEF StoreKinds
<1>5. \A x \in checkCanary(c).ensured : Goal(x)
  <2> DEFINE d == c.Spec.Canary.Deployment
             cookie == [k \in {ingressClassAnnotation, "nginx.ingress.kubernetes.io/canary",
                               "nginx.ingress.kubernetes.io/canary-by-cookie"} |-> Plain("canary")]
             one == checkCIDeployment(c, d.Name, c.Spec.IngressName, CI!GetDeploymentImageName(d))
             front == FrontOf(c, d.Name, c.Spec.IngressName, cookie, TRUE)
  <2>1. \A x \in front : x.Kind \in {"Service", "Ingress"}
    BY FrontIs
  <2>2. \A x \in one.ensured : x.Kind \in {"Secret", "Deployment"}
    BY CIDeploymentKinds
  <2>3. checkCanary(c).ensured \in {{}, front \cup one.ensured}
    BY DEF checkCanary, Stage
  <2> HIDE DEF front, one
  <2> QED BY <2>1, <2>2, <2>3 DEF StoreKinds
<1> HIDE DEF Goal
<1>6. Goal(o)
  BY <1>1, <1>2, <1>3, <1>4, <1>5 DEF CIEnsured
<1>7. o.Owner[1] = "ClusterInstallation"
  BY <1>6 DEF Goal, CI!ClusterInstallationOwnerReference
<1> QED
  BY <1>7

(* Without their owners and labels, objects that agree on the rest are the *)
(* same.                                                                   *)
LEMMA AnonymousAlike ==
    ASSUME NEW fields, NEW r, IsRecord(r, fields), NEW t, IsRecord(t, fields),
           \A f \in fields \ {"Owner", "Labels"} : r[f] = t[f]
    PROVE  Anonymous(r) = Anonymous(t)
<1>1. PICK nobody, none : nobody = Nobody /\ none = EmptyMap
  OBVIOUS
<1>2. PICK a : a = [r EXCEPT !.Owner = nobody, !.Labels = none]
  OBVIOUS
<1>3. PICK b : b = [t EXCEPT !.Owner = nobody, !.Labels = none]
  OBVIOUS
<1>4. /\ IsRecord(a, fields)
      /\ \A f \in fields : a[f] = IF f = "Owner" THEN nobody
                                ELSE IF f = "Labels" THEN none ELSE r[f]
  BY <1>2 DEF IsRecord
<1>5. /\ IsRecord(b, fields)
      /\ \A f \in fields : b[f] = IF f = "Owner" THEN nobody
                                ELSE IF f = "Labels" THEN none ELSE t[f]
  BY <1>3 DEF IsRecord
<1>6. a = b
  BY <1>4, <1>5, RecordsEqual
<1> QED
  BY <1>1, <1>2, <1>3, <1>6 DEF Anonymous

(* The cluster that a Mattermost asks for is the one that the              *)
(* ClusterInstallation had,                                                *)
LEMMA ClusterTakenOver ==
    ASSUME NEW c, Counted(c), NEW m, m.Name = c.Name, SameStores(c, m), ~SecretDropped(c, m),
           c.Spec.Database.Replicas > 0, ~DatabaseIsExternal(m.Spec.Database),
           ManagedDatabase(m.Spec.Database).Type = "mysql"
    PROVE  Anonymous(ClusterV1Beta(m)) = Anonymous(CI!Cluster(c))
<1>1. PICK db : db = m.Spec.Database
  OBVIOUS
<1>2. PICK omd : omd = ManagedDatabase(db)
  OBVIOUS
<1>3. PICK old : old = c.Spec.Database
  OBVIOUS
<1>4. db = convertToOperatorManagedDB(c)
  BY <1>1 DEF SameStores
<1>5. /\ omd.Replicas = convertReplicas(old.Replicas)
      /\ \A f \in ManagedDatabaseFields \ {"Replicas"} : omd[f] = old[f]
  BY <1>2, <1>3, <1>4, ConvertedDatabase
<1>6. omd.Replicas = {old.Replicas}
  BY <1>3, <1>5, ReplicasConverted DEF Counted
<1>7. /\ omd.Version = old.Version /\ omd.StorageSize = old.StorageSize
      /\ omd.InitBucketURL = old.InitBucketURL /\ omd.Backup = old.Backup
      /\ omd.BackupRestoreSecretName = old.BackupRestoreSecretName
  BY <1>5 DEF ManagedDatabaseFields
<1>8. CI!OrDefault(old.Secret, CI!DefaultDatabaseSecretName(c.Name))
        = m.Name \o "-mysql-root-password"
  BY <1>1, <1>3, SameVocabulary DEF SecretDropped, OrDefault, CI!DefaultDatabaseSecretName
<1>9. PICK name, secret, backup, bucket :
        /\ name = "db-" \o m.Name
        /\ secret = m.Name \o "-mysql-root-password"
        /\ backup = <<omd.Backup, omd.BackupRestoreSecretName>>
        /\ bucket = IF omd.InitBucketURL # Unset /\ omd.BackupRestoreSecretName # Unset
                    THEN <<omd.InitBucketURL, omd.BackupRestoreSecretName>> ELSE <<>>
  OBVIOUS
<1>10. ClusterV1Beta(m) = [Kind |-> "MysqlCluster", Name |-> name, Owner |-> OwnedBy(m),
        Labels |-> MattermostResourceLabels(m.Name), MysqlVersion |-> omd.Version,
        Replicas |-> omd.Replicas, SecretName |-> secret, Storage |-> omd.StorageSize,
        Backup |-> backup, InitBucket |-> bucket]
  BY <1>1, <1>2, <1>9 DEF ClusterV1Beta
<1>11. CI!Cluster(c) = [Kind |-> "MysqlCluster", Name |-> name,
        Owner |-> CI!ClusterInstallationOwnerReference(c),
        Labels |-> CI!ClusterInstallationResourceLabels(c.Name), MysqlVersion |-> omd.Version,
        Replicas |-> omd.Replicas, SecretName |-> secret, Storage |-> omd.StorageSize,
        Backup |-> backup, InitBucket |-> bucket]
  BY <1>3, <1>6, <1>7, <1>8, <1>9, SameVocabulary DEF CI!Cluster
<1>12. PICK fields : fields = {"Kind", "Name", "Owner", "Labels", "MysqlVersion", "Replicas",
                               "SecretName", "Storage", "Backup", "InitBucket"}
  OBVIOUS
<1>13. IsRecord(ClusterV1Beta(m), fields) /\ IsRecord(CI!Cluster(c), fields)
  BY <1>10, <1>11, <1>12 DEF IsRecord
<1>14. \A f \in fields \ {"Owner", "Labels"} : ClusterV1Beta(m)[f] = CI!Cluster(c)[f]
  BY <1>10, <1>11, <1>12
<1> QED
  BY <1>13, <1>14, AnonymousAlike

(* and so is the MinIO. *)
LEMMA InstanceTakenOver ==
    ASSUME NEW c, Counted(c), NEW m, m.Name = c.Name, SameStores(c, m), ~SecretDropped(c, m),
           c.Spec.Minio.Replicas > 0, ~FileStoreIsExternal(m.Spec.FileStore)
    PROVE  Anonymous(InstanceV1Beta(m)) = Anonymous(CI!Instance(c))
<1>1. PICK fs : fs = m.Spec.FileStore
  OBVIOUS
<1>2. PICK omm : omm = ManagedMinio(fs)
  OBVIOUS
<1>3. PICK old : old = c.Spec.Minio
  OBVIOUS
<1>4. fs = convertToOperatorManagedMinio(c)
  BY <1>1 DEF SameStores
<1>5. omm.Replicas = convertReplicas(old.Replicas) /\ omm.StorageSize = old.StorageSize
  BY <1>2, <1>3, <1>4, ConvertedMinio
<1>6. Deref(omm.Replicas, 0) = old.Replicas
  <2>1. old.Replicas \in Int /\ old.Replicas > 0
    BY <1>3 DEF Counted
  <2>2. omm.Replicas = {old.Replicas}
    BY <1>5, <2>1, ReplicasConverted
  <2> QED BY <2>2, DerefOne
<1>7. CI!MinioName(c) = m.Name \o "-minio"
  BY SameVocabulary DEF SecretDropped, OrDefault, CI!MinioName, CI!DefaultMinioSecretName
<1>8. PICK name : name = m.Name \o "-minio"
  OBVIOUS
<1>9. InstanceV1Beta(m) = newMinioInstance(OwnedBy(m), name, MattermostResourceLabels(m.Name),
                                           old.Replicas, old.StorageSize)
  BY <1>1, <1>2, <1>5, <1>6, <1>8 DEF InstanceV1Beta
<1>10. CI!Instance(c) = CI!newMinioInstance(CI!ClusterInstallationOwnerReference(c), name,
            CI!ClusterInstallationResourceLabels(c.Name), old.Replicas, old.StorageSize)
  BY <1>3, <1>7, <1>8 DEF CI!Instance
<1>11. PICK fields : fields = {"Kind", "Name", "Owner", "Labels", "Replicas", "CredsSecret",
                               "Storage"}
  OBVIOUS
<1>12. IsRecord(InstanceV1Beta(m), fields) /\ IsRecord(CI!Instance(c), fields)
  BY <1>9, <1>10, <1>11 DEF IsRecord, newMinioInstance, CI!newMinioInstance
<1>13. \A f \in fields \ {"Owner", "Labels"} : InstanceV1Beta(m)[f] = CI!Instance(c)[f]
  BY <1>9, <1>10, <1>11 DEF newMinioInstance, CI!newMinioInstance
<1> QED
  BY <1>12, <1>13, AnonymousAlike

(* What a pass over a Mattermost writes of either is what was there.       *)
LEMMA PassTakesOver ==
    ASSUME Keyed, NEW c, Counted(c), NEW m, m.Name = c.Name, SameStores(c, m),
           NEW o \in checkDatabase(m).ensured \cup checkFileStore(m).ensured
    PROVE  TakenOver(o, c, m)
<1>1. ASSUME ~SecretDropped(c, m), o.Kind = "MysqlCluster", c.Spec.Database.Replicas > 0
      PROVE  Anonymous(o) = Anonymous(CI!Cluster(c))
  <2>1. /\ o = ClusterV1Beta(m)
        /\ ~DatabaseIsExternal(m.Spec.Database)
        /\ ManagedDatabase(m.Spec.Database).Type = "mysql"
    BY <1>1, PreparedStores
  <2> QED BY <1>1, <2>1, ClusterTakenOver
<1>2. ASSUME ~SecretDropped(c, m), o.Kind = "MinIOInstance", c.Spec.Minio.Replicas > 0
      PROVE  Anonymous(o) = Anonymous(CI!Instance(c))
  <2>1. o = InstanceV1Beta(m) /\ ~FileStoreIsExternal(m.Spec.FileStore)
    BY <1>2, PreparedStores
  <2> QED BY <1>2, <2>1, InstanceTakenOver
<1> QED
  BY <1>1, <1>2 DEF TakenOver

(* A pass over the Mattermost keeps that, *)
LEMMA StoresOfPass ==
    ASSUME SpecInv, ObjectsInv, HandoverInv, StoresInv, ReconcileMattermost
    PROVE  StoresInv'
<1>1. PICK old, m, prepared, app, removed :
        /\ old \in mm
        /\ m = Normalised(old)
        /\ mm' = {m} /\ ci' = ci
        /\ prepared \subseteq checkDatabase(m).ensured \cup checkFileStore(m).ensured
        /\ app = {} \/ \E db, store : app = checkMattermost(m, db, store)
        /\ removed \subseteq Unwanted(m)
        /\ objects' = Left(prepared \cup app, removed)
  BY MattermostPass
<1>2. origin' = origin
  BY DEF ReconcileMattermost
<1>3. Shaped(old) /\ ci = {}
  BY <1>1 DEF SpecInv
<1>4. Keyed /\ MattermostLeaves(m.Spec)
  BY <1>1, <1>3, NormalisedLeaves DEF ObjectsInv
<1>5. m.Name = old.Name
  BY <1>1, <1>3, NormalisedSettled
<1>6. \A o \in app : o.Kind \notin StoreKinds
  <2>1. CASE app = {}
    BY <2>1
  <2>2. CASE app # {}
    <3>1. PICK db, store : app = checkMattermost(m, db, store)
      BY <1>1, <2>2
    <3> QED BY <1>4, <3>1, AppNoStore
  <2> QED BY <2>1, <2>2
<1>7. PICK ensured : ensured = prepared \cup app
  OBVIOUS
<1>8. \A k \in DOMAIN objects' :
        \/ k \in DOMAIN objects /\ objects'[k] = objects[k]
        \/ objects'[k] \in ensured /\ Key(objects'[k]) = k
  BY <1>1, <1>7, LeftFrom
<1>9. ASSUME NEW c \in origin
      PROVE  SameStores(c, m) /\ \A k \in DOMAIN objects' : TakenOver(objects'[k], c, m)
  <2>1. /\ CISettled(c) /\ Counted(c)
        /\ SameStores(c, old) /\ old.Name = c.Name
        /\ \A k \in DOMAIN objects : TakenOver(objects[k], c, old)
    BY <1>1 DEF HandoverInv, StoresInv, SameAddress
  <2>2. SameStores(c, m) /\ SecretDropped(c, m) = SecretDropped(c, old)
    BY <1>1, <1>3, <2>1, NormalisedStores
  <2>3. OwnedBy(m) = OwnedBy(old)
    BY <1>5 DEF OwnedBy
  <2>4. \A k \in DOMAIN objects : TakenOver(objects[k], c, m)
    BY <2>1, <2>2, <2>3 DEF TakenOver
  <2>5. \A o \in prepared : TakenOver(o, c, m)
    BY <1>1, <1>4, <1>5, <2>1, <2>2, PassTakesOver
  <2>6. \A o \in app : TakenOver(o, c, m)
    BY <1>6 DEF TakenOver, StoreKinds
  <2> QED BY <1>7, <1>8, <2>2, <2>4, <2>5, <2>6
<1> QED
  BY <1>1, <1>2, <1>3, <1>9 DEF StoresInv

(* the migration makes it so, *)
LEMMA StoresOfMigration ==
    ASSUME SpecInv, ObjectsInv, StoresInv, Migrate
    PROVE  StoresInv'
<1>1. PICK c \in ci : \E m \in ConvertToMM(c, Found("Secret", c.Spec.Database.Secret)) :
        \E d \in Found("Deployment", c.Name) :
            /\ mm' = {[m EXCEPT !.Spec.ResourceLabels = {MattermostLabels(m, m.Name) : l \in @}]}
            /\ objects' = [objects EXCEPT ![Key(d)] = Relabelled(d, m)]
            /\ ci' = {}
            /\ origin' = IF pass = "done" THEN {c} ELSE {}
  BY DEF Migrate, Relabelled
<1>2. PICK m \in ConvertToMM(c, Found("Secret", c.Spec.Database.Secret)) :
        \E d \in Found("Deployment", c.Name) :
            /\ mm' = {[m EXCEPT !.Spec.ResourceLabels = {MattermostLabels(m, m.Name) : l \in @}]}
            /\ objects' = [objects EXCEPT ![Key(d)] = Relabelled(d, m)]
  BY <1>1
<1>3. PICK d \in Found("Deployment", c.Name) :
            objects' = [objects EXCEPT ![Key(d)] = Relabelled(d, m)]
  BY <1>2
<1>4. PICK labels : labels = {MattermostLabels(m, m.Name) : l \in m.Spec.ResourceLabels}
  OBVIOUS
<1>5. PICK n : n = [m EXCEPT !.Spec.ResourceLabels = labels]
  OBVIOUS
<1>6. mm' = {n}
  BY <1>2, <1>4, <1>5
<1>7. PICK e : e = Relabelled(d, m)
  OBVIOUS
<1>8. /\ Key(d) \in DOMAIN objects /\ d = objects[Key(d)]
      /\ Proper(d) /\ d.Kind = "Deployment"
  BY <1>3 DEF ObjectsInv, Keyed, Found, Key
<1>9. e.Kind = "Deployment"
  BY <1>7, <1>8 DEF Proper, SelectsOwn, Relabelled
<1>10. /\ DOMAIN objects' = DOMAIN objects
       /\ \A k \in DOMAIN objects : objects'[k] = IF k = Key(d) THEN e ELSE objects[k]
  BY <1>3, <1>7, <1>8
<1>11. \A k \in DOMAIN objects' : objects'[k].Kind \in StoreKinds =>
            objects'[k].Owner[1] # "Mattermost"
  BY <1>9, <1>10 DEF StoresInv, StoreKinds
<1>12. OwnedBy(n)[1] = "Mattermost"
  BY DEF OwnedBy
<1>13. \A k \in DOMAIN objects' : TakenOver(objects'[k], c, n)
  BY <1>11, <1>12 DEF TakenOver, StoreKinds
<1>14. pass = "done" => Counted(c) /\ SameStores(c, n)
  BY <1>5, ConvertedStores DEF SpecInv, StoresInv
<1> QED
  BY <1>1, <1>6, <1>13, <1>14 DEF StoresInv

(* and every other step keeps it. *)
LEMMA StoresNext ==
    ASSUME SpecInv, ObjectsInv, HandoverInv, StoresInv, [Next]_vars
    PROVE  StoresInv'
<1>1. CASE ReconcileMattermost
  BY <1>1, StoresOfPass
<1>2. CASE ReconcileClusterInstallation
  <2>1. PICK old, c, ensured, removed :
            /\ old \in ci
            /\ c = CINormalised(old)
            /\ ci' = {c} /\ mm' = mm
            /\ ensured \subseteq CIEnsured(c) /\ removed \subseteq BlueGreenRemoves(c)
            /\ objects' = Left(ensured, removed)
    BY <1>2, CIPass
  <2>2. origin' = origin
    BY <1>2 DEF ReconcileClusterInstallation
  <2>3. CIShaped(old) /\ mm = {} /\ Keyed
    BY <2>1 DEF SpecInv, ObjectsInv
  <2>4. Counted(c)
    BY <2>1, <2>3, CountedNormalised DEF StoresInv
  <2>5. \A o \in ensured : o.Kind \in StoreKinds => o.Owner[1] # "Mattermost"
    BY <2>1, <2>3, CIStoresOwned
  <2>6. \A k \in DOMAIN objects' :
            \/ k \in DOMAIN objects /\ objects'[k] = objects[k]
            \/ objects'[k] \in ensured /\ Key(objects'[k]) = k
    BY <2>1, LeftFrom
  <2>7. \A k \in DOMAIN objects' :
            objects'[k].Kind \in StoreKinds => objects'[k].Owner[1] # "Mattermost"
    BY <2>1, <2>5, <2>6 DEF StoresInv
  <2> QED BY <2>1, <2>2, <2>3, <2>4, <2>7 DEF StoresInv
<1>3. CASE Migrate
  BY <1>3, StoresOfMigration
<1>4. CASE EditMattermost
  <2>1. objects' = objects /\ ci' = ci /\ origin' = {}
    BY <1>4 DEF EditMattermost, Wrote
  <2> QED BY <2>1 DEF StoresInv
<1>5. CASE EditInstallation
  <2>1. PICK c \in ci, f \in DOMAIN InstallationChoices : \E v \in InstallationChoices[f] :
            /\ ci' = {[c EXCEPT !.Spec[f] = v]} /\ objects' = objects /\ origin' = {}
    BY <1>5 DEF EditInstallation, Wrote
  <2>2. PICK v \in InstallationChoices[f] : ci' = {[c EXCEPT !.Spec[f] = v]}
    BY <2>1
  <2>3. PICK n : n = [c EXCEPT !.Spec[f] = v]
    OBVIOUS
  <2>4. Counted(n)
    BY <2>3, CountedOfEdit DEF SpecInv, StoresInv
  <2>5. ci # {} /\ ci' = {n}
    BY <2>2, <2>3
  <2> QED BY <2>1, <2>4, <2>5 DEF StoresInv
<1>6. CASE RemoveInstallation
  <2>1. /\ DOMAIN objects' \subseteq DOMAIN objects
        /\ \A k \in DOMAIN objects' : objects'[k] = objects[k]
        /\ mm' = mm /\ ci' = ci /\ origin' = origin
    BY <1>6 DEF RemoveInstallation, Restrict
  <2> QED BY <2>1 DEF StoresInv
<1>7. CASE MinioOperator
  <2>1. PICK h : /\ h.Kind = "Service"
                 /\ DOMAIN objects' = DOMAIN objects \cup {Key(h)}
                 /\ \A k \in DOMAIN objects' :
                        objects'[k] = IF k = Key(h) THEN h ELSE objects[k]
    BY <1>7, MinioOperatorAdds
  <2>2. mm' = mm /\ ci' = ci /\ origin' = origin
    BY <1>7 DEF MinioOperator
  <2>3. h.Kind \notin StoreKinds /\ \A c, m : TakenOver(h, c, m)
    BY <2>1 DEF StoreKinds, TakenOver
  <2> QED BY <2>1, <2>2, <2>3 DEF StoresInv
<1>8. CASE RejectMattermost \/ RejectClusterInstallation \/ UNCHANGED vars
  <2>1. objects' = objects /\ mm' = mm /\ ci' = ci /\ origin' = origin
    BY <1>8 DEF RejectMattermost, RejectClusterInstallation, vars
  <2> QED BY <2>1 DEF StoresInv
<1> QED
  BY <1>1, <1>2, <1>3, <1>4, <1>5, <1>6, <1>7, <1>8 DEF Next

(* So it holds throughout. *)
LEMMA StoresInvariant == Spec => []StoresInv
<1>1. Init => StoresInv
  <2> SUFFICES ASSUME Init PROVE StoresInv
    OBVIOUS
  <2>1. origin = {} /\ \A c \in ci : c = BaseInstallation
    BY DEF Init
  <2>2. Counted(BaseInstallation)
    BY SpecsTyped, TypedCounted
  <2>3. \A k \in DOMAIN objects : objects[k] \in UserObjects
    BY DEF Init, Store
  <2>4. \A o \in UserObjects : o.Kind \in StoreKinds => o.Owner[1] # "Mattermost"
    BY UserObjectsNamed DEF StoreKinds
  <2> QED BY <2>1, <2>2, <2>3, <2>4 DEF StoresInv
<1>2. ClusterInv /\ HandoverInv /\ StoresInv /\ [Next]_vars => StoresInv'
  BY StoresNext DEF ClusterInv
<1> QED
  BY <1>1, <1>2, ClusterInvariant, HandoverInvariant, PTL DEF Spec

(* The database and the MinIO that a Mattermost takes over from the        *)
(* ClusterInstallation that it was made from are asked for as they were:   *)
(* convertDatabase and convertFileStore write what SetDefaults leaves      *)
(* alone, and ClusterV1Beta and InstanceV1Beta make the same of it.        *)
THEOREM StoresStay == Spec => []StoresKept
<1>1. StoresInv => StoresKept
  <2> SUFFICES ASSUME StoresInv PROVE StoresKept
    OBVIOUS
  <2>1. \A c \in origin : \A m \in mm : \A o \in Range(objects) : TakenOver(o, c, m)
    BY DEF StoresInv, Range
  <2> QED BY <2>1 DEF TakenOver, StoresKept
<1> QED
  BY <1>1, StoresInvariant, PTL

-----------------------------------------------------------------------------
(* What a migration leaves of the pods. *)

(* A Mattermost asks for the pods of the ClusterInstallation that it was   *)
(* made from.                                                              *)
SamePods(c, m) ==
    /\ m.Spec.Size = Unset
    /\ m.Spec.Replicas = convertReplicas(c.Spec.Replicas)
    /\ m.Spec.Image = c.Spec.Image /\ m.Spec.Version = c.Spec.Version
    /\ m.Spec.ImagePullPolicy = c.Spec.ImagePullPolicy
    /\ m.Spec.Scheduling = convertScheduling(c.Spec)
    /\ m.Spec.Probes = convertProbes(c.Spec)
    /\ m.Spec.LicenseSecret = c.Spec.MattermostLicenseSecret
    /\ m.Spec.ImagePullSecrets = Unset /\ m.Spec.DNS = Unset
    /\ m.Spec.PodTemplate = {} /\ m.Spec.DeploymentTemplate = {} /\ m.Spec.ResourcePatch = {}
    /\ m.Spec.PodExtensions = [InitContainers |-> <<>>, SidecarContainers |-> <<>>,
                               ContainerPorts |-> <<>>]

(* It does so until the next edit. *)
PodsInv == \A c \in origin : \A m \in mm : SamePods(c, m)

(* What tryToMigrate creates does, *)
LEMMA ConvertedPods ==
    ASSUME NEW c, CISettled(c), NEW secret, NEW m \in ConvertToMM(c, secret), NEW labels,
           NEW n, n = [m EXCEPT !.Spec.ResourceLabels = labels]
    PROVE  SamePods(c, n)
<1>1. /\ m.Spec.Size = c.Spec.Size
      /\ m.Spec.Replicas = convertReplicas(c.Spec.Replicas)
      /\ m.Spec.Image = c.Spec.Image /\ m.Spec.Version = c.Spec.Version
      /\ m.Spec.ImagePullPolicy = c.Spec.ImagePullPolicy
      /\ m.Spec.Scheduling = convertScheduling(c.Spec)
      /\ m.Spec.Probes = convertProbes(c.Spec)
      /\ m.Spec.LicenseSecret = c.Spec.MattermostLicenseSecret
      /\ m.Spec.ImagePullSecrets = Unset /\ m.Spec.DNS = Unset
      /\ m.Spec.PodTemplate = {} /\ m.Spec.DeploymentTemplate = {} /\ m.Spec.ResourcePatch = {}
      /\ m.Spec.PodExtensions = [InitContainers |-> <<>>, SidecarContainers |-> <<>>,
                                 ContainerPorts |-> <<>>]
  BY DEF ConvertToMM
<1>2. SamePods(c, m)
  BY <1>1 DEF SamePods, CISettled
<1>3. Shaped(m)
  BY ConvertedShaped
<1>4. IsRecord(m, {"Name", "Spec"}) /\ IsRecord(m.Spec, SpecFields)
  BY <1>3 DEF Shaped
<1>5. n.Spec = [m.Spec EXCEPT !.ResourceLabels = labels]
  BY <1>4 DEF IsRecord
<1>6. \A f \in SpecFields \ {"ResourceLabels"} : n.Spec[f] = m.Spec[f]
  BY <1>4, <1>5 DEF IsRecord, SpecFields
<1>7. /\ n.Spec.Size = m.Spec.Size /\ n.Spec.Replicas = m.Spec.Replicas
      /\ n.Spec.Image = m.Spec.Image /\ n.Spec.Version = m.Spec.Version
      /\ n.Spec.ImagePullPolicy = m.Spec.ImagePullPolicy
      /\ n.Spec.Scheduling = m.Spec.Scheduling /\ n.Spec.Probes = m.Spec.Probes
      /\ n.Spec.LicenseSecret = m.Spec.LicenseSecret
      /\ n.Spec.ImagePullSecrets = m.Spec.ImagePullSecrets /\ n.Spec.DNS = m.Spec.DNS
      /\ n.Spec.PodTemplate = m.Spec.PodTemplate
      /\ n.Spec.DeploymentTemplate = m.Spec.DeploymentTemplate
      /\ n.Spec.ResourcePatch = m.Spec.ResourcePatch
      /\ n.Spec.PodExtensions = m.Spec.PodExtensions
  BY <1>6 DEF SpecFields
<1> QED
  BY <1>2, <1>7 DEF SamePods

(* and a pass has nothing to fill in of it. *)
LEMMA NormalisedPods ==
    ASSUME NEW c, CISettled(c), Counted(c), NEW old, Shaped(old), SamePods(c, old),
           NEW m, m = Normalised(old)
    PROVE  SamePods(c, m)
<1>1. PICK d : d = SetDefaults(old)
  OBVIOUS
<1>2. old.Spec.Image # Unset /\ old.Spec.Version # Unset /\ old.Spec.ImagePullPolicy # Unset
  BY DEF SamePods, CISettled
<1>3. /\ d.Spec.Size = Unset
      /\ d.Spec.Image = old.Spec.Image /\ d.Spec.Version = old.Spec.Version
      /\ d.Spec.ImagePullPolicy = old.Spec.ImagePullPolicy
      /\ d.Spec.Replicas = old.Spec.Replicas /\ d.Spec.Scheduling = old.Spec.Scheduling
  BY <1>1, <1>2, SetDefaultsFields DEF SamePods, OrDefault
<1>4. Shaped(d)
  BY <1>1, SetDefaultsFields, ShapedParts, DatabaseDefaulted, FileStoreDefaulted DEF Manages, Keeps
<1>5. m = setDefaultReplicasAndResources(d)
  BY <1>1, <1>3 DEF Normalised, SetReplicasAndResourcesFromSize
<1>6. /\ m.Spec.Size = Unset
      /\ m.Spec.Image = old.Spec.Image /\ m.Spec.Version = old.Spec.Version
      /\ m.Spec.ImagePullPolicy = old.Spec.ImagePullPolicy
      /\ m.Spec.Replicas = OrSize(old.Spec.Replicas, DefaultSize.App.Replicas)
      /\ m.Spec.Scheduling = [old.Spec.Scheduling EXCEPT !.Resources =
                                OrResources(@, DefaultSize.App.Resources)]
  BY <1>3, <1>4, <1>5, DefaultSizeFields
<1>7. m.Spec.Replicas = old.Spec.Replicas
  <2>1. c.Spec.Replicas \in Int /\ c.Spec.Replicas # 0
    BY DEF Counted, CISettled
  <2>2. convertReplicas(c.Spec.Replicas) # {}
    BY <2>1 DEF convertReplicas
  <2> QED BY <1>6, <2>2 DEF SamePods, OrSize
<1>8. m.Spec.Scheduling = old.Spec.Scheduling
  <2>1. PICK scheduling : scheduling = convertScheduling(c.Spec)
    OBVIOUS
  <2>2. scheduling.Resources # NoResources
    BY <2>1 DEF convertScheduling, CISettled
  <2>3. OrResources(scheduling.Resources, DefaultSize.App.Resources) = scheduling.Resources
    BY <2>2 DEF OrResources
  <2>4. IsRecord(scheduling, {"Resources", "Placement"})
    BY <2>1 DEF convertScheduling, IsRecord
  <2>5. old.Spec.Scheduling = scheduling
    BY <2>1 DEF SamePods
  <2>6. m.Spec.Scheduling = [scheduling EXCEPT !.Resources = scheduling.Resources]
    BY <1>6, <2>3, <2>5
  <2>7. [scheduling EXCEPT !.Resources = scheduling.Resources] = scheduling
    BY <2>4 DEF IsRecord
  <2> QED BY <2>5, <2>6, <2>7
<1>9. \A f \in SpecFields \ FilledIn : m.Spec[f] = old.Spec[f]
  BY NormalisedSettled
<1>10. /\ m.Spec.Probes = old.Spec.Probes /\ m.Spec.LicenseSecret = old.Spec.LicenseSecret
       /\ m.Spec.ImagePullSecrets = old.Spec.ImagePullSecrets /\ m.Spec.DNS = old.Spec.DNS
       /\ m.Spec.PodTemplate = old.Spec.PodTemplate
       /\ m.Spec.DeploymentTemplate = old.Spec.DeploymentTemplate
       /\ m.Spec.ResourcePatch = old.Spec.ResourcePatch
       /\ m.Spec.PodExtensions = old.Spec.PodExtensions
  BY <1>9 DEF SpecFields, FilledIn
<1> QED
  BY <1>6, <1>7, <1>8, <1>10 DEF SamePods

(* Every step keeps it. *)
LEMMA PodsNext ==
    ASSUME SpecInv, HandoverInv, StoresInv, PodsInv, [Next]_vars
    PROVE  PodsInv'
<1>1. CASE ReconcileMattermost
  <2>1. PICK old, m : /\ old \in mm /\ m = Normalised(old) /\ mm' = {m} /\ origin' = origin
    BY <1>1 DEF ReconcileMattermost
  <2>2. Shaped(old)
    BY <2>1 DEF SpecInv
  <2>3. \A c \in origin : CISettled(c) /\ Counted(c) /\ SamePods(c, old)
    BY <2>1 DEF HandoverInv, StoresInv, PodsInv
  <2>4. \A c \in origin : SamePods(c, m)
    BY <2>1, <2>2, <2>3, NormalisedPods
  <2> QED BY <2>1, <2>4 DEF PodsInv
<1>2. CASE Migrate
  <2>1. PICK c \in ci : \E m \in ConvertToMM(c, Found("Secret", c.Spec.Database.Secret)) :
            /\ mm' = {[m EXCEPT !.Spec.ResourceLabels = {MattermostLabels(m, m.Name) : l \in @}]}
            /\ origin' = IF pass = "done" THEN {c} ELSE {}
    BY <1>2 DEF Migrate
  <2>2. PICK m \in ConvertToMM(c, Found("Secret", c.Spec.Database.Secret)) :
            mm' = {[m EXCEPT !.Spec.ResourceLabels = {MattermostLabels(m, m.Name) : l \in @}]}
    BY <2>1
  <2>3. PICK labels : labels = {MattermostLabels(m, m.Name) : l \in m.Spec.ResourceLabels}
    OBVIOUS
  <2>4. PICK n : n = [m EXCEPT !.Spec.ResourceLabels = labels]
    OBVIOUS
  <2>5. mm' = {n}
    BY <2>2, <2>3, <2>4
  <2>6. pass = "done" => SamePods(c, n)
    BY <2>4, ConvertedPods DEF SpecInv
  <2> QED BY <2>1, <2>5, <2>6 DEF PodsInv
<1>3. CASE EditMattermost \/ EditInstallation
  <2>1. origin' = {}
    BY <1>3 DEF EditMattermost, EditInstallation, Wrote
  <2> QED BY <2>1 DEF PodsInv
<1>4. CASE \/ ReconcileClusterInstallation \/ RejectMattermost \/ RejectClusterInstallation
           \/ RemoveInstallation \/ MinioOperator \/ UNCHANGED vars
  <2>1. mm' = mm /\ origin' = origin
    BY <1>4 DEF ReconcileClusterInstallation, RejectMattermost, RejectClusterInstallation,
                RemoveInstallation, MinioOperator, vars
  <2> QED BY <2>1 DEF PodsInv
<1> QED
  BY <1>1, <1>2, <1>3, <1>4 DEF Next

(* What both kinds of installation make of a licence, of probes and of an  *)
(* image is the same.                                                      *)
LEMMA SamePodParts ==
    /\ \A secret : CI!mattermostLicenceConfig(secret).Annotations
                    = mattermostLicenceConfig(secret).Annotations
    /\ \A live, ready : CI!setProbes(live, ready) = setProbes(live, ready)
    /\ CI!AppPorts = AppPorts
    /\ CI!MattermostAppContainerName = MattermostAppContainerName
    /\ \A c, m : m.Spec.Image = c.Spec.Image /\ m.Spec.Version = c.Spec.Version =>
            CI!GetImageName(c) = GetImageName(m)
<1>1. \A secret : CI!mattermostLicenceConfig(secret).Annotations
                    = mattermostLicenceConfig(secret).Annotations
  BY SameVocabulary DEF CI!mattermostLicenceConfig, mattermostLicenceConfig, CI!EmptyMap, EmptyMap
<1>2. \A p, f : CI!PingProbe(p, f) = PingProbe(p, f)
  BY DEF CI!PingProbe, PingProbe
<1>3. \A default, custom : CI!OverProbe(default, custom) = OverProbe(default, custom)
  BY SameVocabulary DEF CI!OverProbe, OverProbe
<1>4. \A live, ready : CI!setProbes(live, ready) = setProbes(live, ready)
  BY <1>2, <1>3 DEF CI!setProbes, setProbes
<1>5. CI!AppPorts = AppPorts /\ CI!MattermostAppContainerName = MattermostAppContainerName
  BY DEF CI!AppPorts, AppPorts, CI!MattermostAppContainerName, MattermostAppContainerName
<1>6. \A c, m : m.Spec.Image = c.Spec.Image /\ m.Spec.Version = c.Spec.Version =>
            CI!GetImageName(c) = GetImageName(m)
  BY DEF CI!GetImageName, GetImageName, CI!DigestVersions, DigestVersions, CI!ImageAtDigest,
         ImageAtDigest, CI!ImageAndTag, ImageAndTag
<1> QED
  BY <1>1, <1>4, <1>5, <1>6

(* Without a template of the user's, the annotations of the pods are those *)
(* of the licence.                                                         *)
LEMMA LicenceAnnotations ==
    ASSUME NEW m, m.Spec.PodTemplate = {}
    PROVE  PodAnnotations(m) = mattermostLicenceConfig(m.Spec.LicenseSecret).Annotations
<1>1. PICK a : a = mattermostLicenceConfig(m.Spec.LicenseSecret).Annotations
  OBVIOUS
<1>2. a = [k \in DOMAIN a |-> a[k]]
  BY <1>1 DEF mattermostLicenceConfig, EmptyMap
<1>3. Deref(UNION {t.ExtraAnnotations : t \in m.Spec.PodTemplate}, EmptyMap) = EmptyMap
  BY DerefNone
<1>4. PodAnnotations(m) = mergeStringMaps(EmptyMap, a)
  BY <1>1, <1>3 DEF PodAnnotations
<1>5. mergeStringMaps(EmptyMap, a) = a
  BY <1>2 DEF mergeStringMaps, EmptyMap
<1> QED
  BY <1>1, <1>4, <1>5

(* A Mattermost that asks for the pods of a ClusterInstallation gets them. *)
LEMMA PodsAsBefore ==
    ASSUME NEW c, CISettled(c), Counted(c), NEW m, m.Name = c.Name, SamePods(c, m),
           NEW db, NEW store, NEW d, d = App(m, db, store), NEW info, NEW url,
           NEW old, old = CI!GenerateDeployment(c, info, c.Name, c.Spec.IngressName, c.Name,
                                                CI!GetImageName(c), url)
    PROVE  /\ \A f \in {"Replicas", "PodAnnotations", "Copied", "ServiceAccountName", "Sidecars",
                        "Strategy", "RevisionHistoryLimit"} : d[f] = old[f]
           /\ \A f \in {"Name", "Image", "Command", "Ports", "Probes", "Resources"} :
                d.App[f] = old.App[f]
<1>1. d = GenerateDeploymentV1Beta(m, db, store, m.Name, GetIngressHost(m), m.Name,
                                   GetImageName(m))
  <2>1. DeploymentPatch(m) = {}
    BY DEF SamePods, DeploymentPatch, Active
  <2> QED BY <2>1 DEF App, ApplyToDeployment
<1>2. PICK x : x = d.App
  OBVIOUS
<1>3. PICK y : y = old.App
  OBVIOUS
<1>4. /\ d.Replicas = m.Spec.Replicas /\ d.PodAnnotations = PodAnnotations(m)
      /\ d.ServiceAccountName = m.Name /\ d.Strategy = Strategy(m)
      /\ d.RevisionHistoryLimit = RevisionHistoryLimit(m)
      /\ d.Sidecars = m.Spec.PodExtensions.SidecarContainers
      /\ d.Copied = <<m.Spec.ImagePullPolicy, m.Spec.ImagePullSecrets, m.Spec.DNS,
                      m.Spec.Scheduling.Placement,
                      Deref({t.SecurityContexts : t \in m.Spec.PodTemplate}, Unset)>>
      /\ x = AppContainer(m, db, store, GetIngressHost(m), GetImageName(m))
  BY <1>1, <1>2 DEF GenerateDeploymentV1Beta
<1>5. /\ old.Replicas = {IF c.Spec.Replicas < 0 THEN 0 ELSE c.Spec.Replicas}
      /\ old.PodAnnotations = CI!mattermostLicenceConfig(c.Spec.MattermostLicenseSecret).Annotations
      /\ old.ServiceAccountName = c.Name /\ old.Strategy = "RollingUpdate"
      /\ old.RevisionHistoryLimit = 5 /\ old.Sidecars = <<>>
      /\ old.Copied = <<c.Spec.ImagePullPolicy, CI!Unset, CI!Unset, c.Spec.Placement, CI!Unset>>
      /\ y.Name = CI!MattermostAppContainerName /\ y.Image = CI!GetImageName(c)
      /\ y.Command = "mattermost" /\ y.Ports = CI!AppPorts
      /\ y.Probes = {CI!setProbes(c.Spec.LivenessProbe, c.Spec.ReadinessProbe)}
      /\ y.Resources = c.Spec.Resources
  BY <1>3 DEF CI!GenerateDeployment
<1>6. d.Replicas = old.Replicas
  <2>1. c.Spec.Replicas \in Int /\ c.Spec.Replicas # 0
    BY DEF Counted, CISettled
  <2>2. convertReplicas(c.Spec.Replicas) = {IF c.Spec.Replicas < 0 THEN 0 ELSE c.Spec.Replicas}
    BY <2>1 DEF convertReplicas
  <2> QED BY <1>4, <1>5, <2>2 DEF SamePods
<1>7. d.PodAnnotations = old.PodAnnotations
  BY <1>4, <1>5, LicenceAnnotations, SamePodParts DEF SamePods
<1>8. /\ d.Strategy = old.Strategy /\ d.RevisionHistoryLimit = old.RevisionHistoryLimit
      /\ d.ServiceAccountName = old.ServiceAccountName /\ d.Sidecars = old.Sidecars
  <2>1. Strategy(m) = "RollingUpdate"
    BY DEF SamePods, Strategy
  <2>2. UNION {t.RevisionHistoryLimit : t \in m.Spec.DeploymentTemplate} = {}
    BY DEF SamePods
  <2>3. RevisionHistoryLimit(m) = 5
    BY <2>2, DerefNone DEF RevisionHistoryLimit
  <2>4. m.Spec.PodExtensions.SidecarContainers = <<>>
    BY DEF SamePods
  <2> QED BY <1>4, <1>5, <2>1, <2>3, <2>4
<1>9. d.Copied = old.Copied
  <2>1. m.Spec.Scheduling.Placement = c.Spec.Placement
    BY DEF SamePods, convertScheduling
  <2>2. Deref({t.SecurityContexts : t \in m.Spec.PodTemplate}, Unset) = Unset
    BY DerefNone DEF SamePods
  <2>3. CI!Unset = Unset
    BY SameVocabulary
  <2> QED BY <1>4, <1>5, <2>1, <2>2, <2>3 DEF SamePods
<1>10. x.Name = y.Name /\ x.Image = y.Image /\ x.Command = y.Command
  <2>1. x.Name = MattermostAppContainerName /\ x.Image = GetImageName(m)
    BY <1>4 DEF AppContainer
  <2>2. x.Command = Deref(UNION {t.Command : t \in m.Spec.PodTemplate}, "mattermost")
    BY <1>4 DEF AppContainer
  <2>3. x.Command = "mattermost"
    BY <2>2, DerefNone DEF SamePods
  <2>4. CI!GetImageName(c) = GetImageName(m)
    BY SamePodParts DEF SamePods
  <2> QED BY <1>5, <2>1, <2>3, <2>4, SamePodParts
<1>11. x.Ports = y.Ports
  <2>1. x.Ports = AppPorts \o m.Spec.PodExtensions.ContainerPorts
    BY <1>4 DEF AppContainer
  <2>2. m.Spec.PodExtensions.ContainerPorts = <<>>
    BY DEF SamePods
  <2>3. AppPorts \in Seq({"app", "metrics"})
    BY DEF AppPorts
  <2>4. AppPorts \o <<>> = AppPorts
    BY <2>3, ConcatEmptySeq
  <2> QED BY <1>5, <2>1, <2>2, <2>4, SamePodParts
<1>12. x.Probes = y.Probes
  <2>1. x.Probes = {setProbes(m.Spec.Probes.LivenessProbe, m.Spec.Probes.ReadinessProbe)}
    BY <1>4 DEF AppContainer
  <2>2. /\ m.Spec.Probes.LivenessProbe = c.Spec.LivenessProbe
        /\ m.Spec.Probes.ReadinessProbe = c.Spec.ReadinessProbe
    BY DEF SamePods, convertProbes
  <2> QED BY <1>5, <2>1, <2>2, SamePodParts
<1>13. x.Resources = y.Resources
  <2>1. x.Resources = m.Spec.Scheduling.Resources
    BY <1>4 DEF AppContainer
  <2> QED BY <1>5, <2>1 DEF SamePods, convertScheduling
<1> QED
  BY <1>2, <1>3, <1>6, <1>7, <1>8, <1>9, <1>10, <1>11, <1>12, <1>13

(* The pods of a migrated installation run as they did, for any image,     *)
(* replicas, resources, probes and placement, and through every pass until *)
(* the ClusterInstallation is removed: ConvertToMM carries over what       *)
(* GenerateDeploymentV1Beta reads, and SetDefaults leaves it alone.        *)
THEOREM PodsStay == Spec => []PodsKept
<1>1. Init => PodsInv
  BY DEF Init, PodsInv
<1>2. ClusterInv /\ HandoverInv /\ StoresInv /\ PodsInv /\ [Next]_vars => PodsInv'
  BY PodsNext DEF ClusterInv
<1>3. ClusterInv /\ HandoverInv /\ StoresInv /\ PodsInv => PodsKept
  <2> SUFFICES ASSUME ClusterInv, HandoverInv, StoresInv, PodsInv, Complete,
                      handover = "waiting", NEW c \in origin,
                      NEW d \in Found("Deployment", c.Name), NEW old \in DeploymentBefore(c)
               PROVE  /\ \A f \in {"Replicas", "PodAnnotations", "Copied", "ServiceAccountName",
                                   "Sidecars", "Strategy", "RevisionHistoryLimit"} : d[f] = old[f]
                      /\ \A f \in {"Name", "Image", "Command", "Ports", "Probes", "Resources"} :
                            d.App[f] = old.App[f]
    BY DEF PodsKept
  <2>1. CISettled(c) /\ Counted(c)
    BY DEF HandoverInv, StoresInv
  <2>2. PICK m \in mm : m.Name = c.Name /\ SamePods(c, m)
    BY DEF HandoverInv, SameAddress, PodsInv
  <2>3. Installed(m)
    BY <2>2 DEF ClusterInv, Complete, ReconciledInv
  <2>4. PICK db, store : InPlace(App(m, db, store))
    BY <2>3 DEF Installed
  <2>5. PICK e : e = App(m, db, store)
    OBVIOUS
  <2>6. PICK g : g = GenerateDeploymentV1Beta(m, db, store, m.Name, GetIngressHost(m), m.Name,
                                              GetImageName(m))
    OBVIOUS
  <2>7. e.Kind = "Deployment" /\ e.Name = c.Name
    BY <2>2, <2>5, <2>6, AppIs DEF App
  <2>8. d = e
    BY <2>4, <2>5, <2>7 DEF Found, InPlace, Key
  <2>9. PICK info, url : old = CI!GenerateDeployment(c, info, c.Name, c.Spec.IngressName, c.Name,
                                                     CI!GetImageName(c), url)
    BY DEF DeploymentBefore, checkCIDeployment, Stage
  <2> QED BY <2>1, <2>2, <2>5, <2>8, <2>9, PodsAsBefore
<1> QED
  BY <1>1, <1>2, <1>3, ClusterInvariant, HandoverInvariant, StoresInvariant, PTL DEF Spec

=============================================================================
