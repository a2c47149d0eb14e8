--------------------------- MODULE ManifestsProofs ---------------------------
(***************************************************************************)
(* Proofs about the specs in Manifests, for any base spec, any values that *)
(* users may write and any number of edits: defaults settle, and what a    *)
(* user writes sticks.                                                     *)
(*                                                                         *)
(* Both theorems rest on what DefaultsProofs shows of one pass. SpecInv    *)
(* says what the specs look like between the passes; EditInv, which is     *)
(* about the last edit, needs it to know that the spec that was edited had *)
(* no size left to be applied.                                             *)
(***************************************************************************)
EXTENDS DefaultsProofs

(* What every state has of the specs in it.  One of the two resources is   *)
(* there; it has the fields of its schema, whatever users write and        *)
(* whatever a migration makes of it; and after a pass that got through it  *)
(* has no gaps left and is accepted.                                       *)
SpecInv ==
    /\ mm = {} \/ ci = {}
    /\ \A m \in mm : Shaped(m)
    /\ \A c \in ci : CIShaped(c)
    /\ pass = "done" => /\ \A m \in mm : Settled(m) /\ ~SetDefaultsFails(m)
                        /\ \A c \in ci : CISettled(c) /\ ~CI!SetDefaultsFails(c)

(* Users write fields of the spec. *)
LEMMA ChoiceFields ==
    /\ \A f \in DOMAIN MattermostChoices : \A v \in MattermostChoices[f] : f \in SpecFields
    /\ \A f \in DOMAIN InstallationChoices : \A v \in InstallationChoices[f] : f \in CISpecFields
<1>1. Shaped(BaseMattermost) /\ CIShaped(BaseInstallation)
  BY SpecsTyped, TypedShaped, CITypedShaped
<1>2. DOMAIN BaseMattermost.Spec = SpecFields /\ DOMAIN BaseInstallation.Spec = CISpecFields
  BY <1>1 DEF Shaped, CIShaped, IsRecord
<1> QED
  BY <1>2, SpecsTyped

(* A value that the schema allows for a field fits in any spec. *)
LEMMA EditShaped ==
    ASSUME NEW m, Shaped(m), NEW f \in DOMAIN MattermostChoices, NEW v \in MattermostChoices[f],
           NEW n, n = [m EXCEPT !.Spec[f] = v]
    PROVE  /\ Shaped(n)
           /\ n.Name = m.Name
<1> DEFINE b == [BaseMattermost EXCEPT !.Spec[f] = v]
<1>1. b \in Mattermost /\ BaseMattermost \in Mattermost
  BY SpecsTyped
<1>2. Shaped(b) /\ Shaped(BaseMattermost)
  BY <1>1, TypedShaped
<1>3. f \in SpecFields
  BY ChoiceFields
<1>4. b.Spec[f] = v
  BY <1>2, <1>3 DEF Shaped, IsRecord
<1> HIDE DEF b
<1>5. /\ IsRecord(m, {"Name", "Spec"})
      /\ IsRecord(m.Spec, SpecFields)
  BY DEF Shaped
<1>6. /\ IsRecord(n, {"Name", "Spec"})
      /\ n.Name = m.Name
      /\ n.Spec = [m.Spec EXCEPT ![f] = v]
  BY <1>5 DEF IsRecord
<1>7. /\ IsRecord(n.Spec, SpecFields)
      /\ n.Spec[f] = v
      /\ \A g \in SpecFields \ {f} : n.Spec[g] = m.Spec[g]
  BY <1>3, <1>5, <1>6 DEF IsRecord
<1>8. \A g \in {"Scheduling", "Database", "FileStore"} :
        n.Spec[g] = m.Spec[g] \/ n.Spec[g] = b.Spec[g]
  BY <1>4, <1>7 DEF SpecFields
<1>9. \A x : Shaped(x) => /\ IsRecord(x.Spec.Scheduling, {"Resources", "Placement"})
                          /\ ShapedDatabase(x.Spec.Database)
                          /\ ShapedFileStore(x.Spec.FileStore)
  BY ShapedParts
<1>10. /\ IsRecord(n.Spec.Scheduling, {"Resources", "Placement"})
       /\ ShapedDatabase(n.Spec.Database)
       /\ ShapedFileStore(n.Spec.FileStore)
  BY <1>2, <1>8, <1>9
<1> QED
  BY <1>3, <1>6, <1>7, <1>10, ShapedParts

(* The same of a ClusterInstallation. *)
LEMMA EditCIShaped ==
    ASSUME NEW c, CIShaped(c), NEW f \in DOMAIN InstallationChoices,
           NEW v \in InstallationChoices[f], NEW n, n = [c EXCEPT !.Spec[f] = v]
    PROVE  /\ CIShaped(n)
           /\ n.Name = c.Name
<1> DEFINE b == [BaseInstallation EXCEPT !.Spec[f] = v]
<1>1. b \in CI!ClusterInstallation /\ BaseInstallation \in CI!ClusterInstallation
  BY SpecsTyped
<1>2. CIShaped(b) /\ CIShaped(BaseInstallation)
  BY <1>1, CITypedShaped
<1>3. f \in CISpecFields
  BY ChoiceFields
<1>4. b.Spec[f] = v
  BY <1>2, <1>3 DEF CIShaped, IsRecord
<1> HIDE DEF b
<1>5. /\ IsRecord(c, {"Name", "Spec"})
      /\ IsRecord(c.Spec, CISpecFields)
  BY DEF CIShaped
<1>6. /\ IsRecord(n, {"Name", "Spec"})
      /\ n.Name = c.Name
      /\ n.Spec = [c.Spec EXCEPT ![f] = v]
  BY <1>5 DEF IsRecord
<1>7. /\ IsRecord(n.Spec, CISpecFields)
      /\ n.Spec[f] = v
      /\ \A g \in CISpecFields \ {f} : n.Spec[g] = c.Spec[g]
  BY <1>3, <1>5, <1>6 DEF IsRecord
<1>8. \A g \in {"Minio", "Database", "BlueGreen", "Canary"} :
        n.Spec[g] = c.Spec[g] \/ n.Spec[g] = b.Spec[g]
  BY <1>4, <1>7 DEF CISpecFields
<1>9. \A x : CIShaped(x) => /\ IsRecord(x.Spec.Minio, CIMinioFields)
                            /\ IsRecord(x.Spec.Database, CIDatabaseFields)
                            /\ ShapedBlueGreen(x.Spec.BlueGreen)
                            /\ ShapedCanary(x.Spec.Canary)
  BY DEF CIShaped
<1>10. /\ IsRecord(n.Spec.Minio, CIMinioFields)
       /\ IsRecord(n.Spec.Database, CIDatabaseFields)
       /\ ShapedBlueGreen(n.Spec.BlueGreen)
       /\ ShapedCanary(n.Spec.Canary)
  BY <1>2, <1>8, <1>9
<1> QED
  BY <1>3, <1>6, <1>7, <1>10 DEF CIShaped

(* What a migration creates has the fields of a Mattermost. *)
LEMMA ConvertedShaped ==
    ASSUME NEW c, NEW secret, NEW m \in ConvertToMM(c, secret)
    PROVE  Shaped(m) /\ m.Name = c.Name
<1>1. PICK database \in convertDatabase(c, secret) :
        /\ IsRecord(m, {"Name", "Spec"})
        /\ m.Name = c.Name
        /\ IsRecord(m.Spec, SpecFields)
        /\ m.Spec.Scheduling = convertScheduling(c.Spec)
        /\ m.Spec.Database = database
        /\ m.Spec.FileStore = convertFileStore(c)
  BY DEF ConvertToMM, IsRecord, SpecFields
<1>2. IsRecord(m.Spec.Scheduling, {"Resources", "Placement"})
  BY <1>1 DEF convertScheduling, IsRecord
<1>3. ShapedFileStore(m.Spec.FileStore)
  <2>1. CASE CI!MinioIsExternal(c.Spec.Minio)
    BY <1>1, <2>1 DEF convertFileStore, ShapedFileStore, IsRecord, FileStoreFields, Pointer
  <2>2. CASE ~CI!MinioIsExternal(c.Spec.Minio)
    <3> DEFINE r == [StorageSize |-> c.Spec.Minio.StorageSize,
                     Replicas |-> convertReplicas(c.Spec.Minio.Replicas),
                     Resources |-> c.Spec.Minio.Resources]
    <3>1. IsRecord(r, ManagedMinioFields)
      BY DEF IsRecord, ManagedMinioFields
    <3>2. IsRecord(m.Spec.FileStore, FileStoreFields) /\ m.Spec.FileStore.OperatorManaged = {r}
      BY <1>1, <2>2 DEF convertFileStore, convertToOperatorManagedMinio, IsRecord, FileStoreFields
    <3> QED BY <3>1, <3>2 DEF ShapedFileStore, Pointer
  <2> QED BY <2>1, <2>2
<1>4. ShapedDatabase(m.Spec.Database)
  <2>1. ShapedDatabase(convertToOperatorManagedDB(c))
    <3> DEFINE db == c.Spec.Database
               r == [Type |-> db.Type, StorageSize |-> db.StorageSize,
                     Replicas |-> convertReplicas(db.Replicas), Resources |-> db.Resources,
                     InitBucketURL |-> db.InitBucketURL, Backup |-> db.Backup,
                     BackupRestoreSecretName |-> db.BackupRestoreSecretName,
                     Version |-> db.Version]
    <3>1. IsRecord(r, ManagedDatabaseFields)
      BY DEF IsRecord, ManagedDatabaseFields
    <3>2. convertToOperatorManagedDB(c) = [NoDatabase EXCEPT !.OperatorManaged = {r}]
      BY DEF convertToOperatorManagedDB
    <3> HIDE DEF r
    <3>3. /\ IsRecord(convertToOperatorManagedDB(c), DatabaseFields)
          /\ convertToOperatorManagedDB(c).OperatorManaged = {r}
      BY <3>2 DEF NoDatabase, IsRecord, DatabaseFields
    <3> QED BY <3>1, <3>3 DEF ShapedDatabase, Pointer
  <2>2. \A e : ShapedDatabase([NoDatabase EXCEPT !.External = e])
    BY DEF NoDatabase, ShapedDatabase, IsRecord, DatabaseFields, Pointer
  <2>3. \/ m.Spec.Database = convertToOperatorManagedDB(c)
        \/ m.Spec.Database = [NoDatabase EXCEPT !.External = {[Secret |-> c.Spec.Database.Secret]}]
    BY <1>1 DEF convertDatabase
  <2> QED BY <2>1, <2>2, <2>3
<1> QED
  BY <1>1, <1>2, <1>3, <1>4, ShapedParts

(* The labels that are stored with it do not change that. *)
LEMMA LabelledShaped ==
    ASSUME NEW m, Shaped(m), NEW labels,
           NEW n, n = [m EXCEPT !.Spec.ResourceLabels = {labels : l \in @}]
    PROVE  Shaped(n) /\ n.Name = m.Name
<1> DEFINE new == {labels : l \in m.Spec.ResourceLabels}
<1>1. n = [m EXCEPT !.Spec.ResourceLabels = new]
  OBVIOUS
<1> HIDE DEF new
<1>2. /\ IsRecord(m, {"Name", "Spec"})
      /\ IsRecord(m.Spec, SpecFields)
  BY DEF Shaped
<1>3. /\ IsRecord(n, {"Name", "Spec"})
      /\ n.Name = m.Name
      /\ n.Spec = [m.Spec EXCEPT !.ResourceLabels = new]
  BY <1>1, <1>2 DEF IsRecord
<1>4. /\ IsRecord(n.Spec, SpecFields)
      /\ n.Spec.Scheduling = m.Spec.Scheduling
      /\ n.Spec.Database = m.Spec.Database
      /\ n.Spec.FileStore = m.Spec.FileStore
  BY <1>2, <1>3 DEF IsRecord, SpecFields
<1> QED
  BY <1>3, <1>4, ShapedParts

-----------------------------------------------------------------------------
(* SpecInv holds of what users start with, *)
LEMMA SpecInvInit == Init => SpecInv
<1> SUFFICES ASSUME Init PROVE SpecInv
  OBVIOUS
<1>1. Shaped(BaseMattermost) /\ CIShaped(BaseInstallation)
  BY SpecsTyped, TypedShaped, CITypedShaped
<1> QED
  BY <1>1 DEF Init, SpecInv

(* and every step keeps it. *)
LEMMA SpecInvNext == SpecInv /\ [Next]_vars => SpecInv'
<1> SUFFICES ASSUME SpecInv, [Next]_vars PROVE SpecInv'
  OBVIOUS
<1> USE DEF SpecInv
<1>1. CASE ReconcileMattermost
  <2>1. PICK old \in mm : /\ ~SetDefaultsFails(old)
                          /\ mm' = {Normalised(old)}
                          /\ ci' = ci
    BY <1>1 DEF ReconcileMattermost
  <2>2. Shaped(old) /\ ci = {}
    BY <2>1
  <2>3. /\ Shaped(Normalised(old)) /\ Settled(Normalised(old))
        /\ ~SetDefaultsFails(Normalised(old))
    BY <2>1, <2>2, NormalisedSettled, NormalisedAccepted
  <2> QED BY <2>1, <2>2, <2>3
<1>2. CASE ReconcileClusterInstallation
  <2>1. PICK old \in ci : /\ ~CI!SetDefaultsFails(old)
                          /\ ci' = {CINormalised(old)}
                          /\ mm' = mm
    BY <1>2 DEF ReconcileClusterInstallation
  <2>2. CIShaped(old) /\ mm = {}
    BY <2>1
  <2>3. /\ CIShaped(CINormalised(old)) /\ CISettled(CINormalised(old))
        /\ ~CI!SetDefaultsFails(CINormalised(old))
    BY <2>1, <2>2, CINormalisedSettled
  <2> QED BY <2>1, <2>2, <2>3
<1>3. CASE RejectMattermost \/ RejectClusterInstallation
  BY <1>3 DEF RejectMattermost, RejectClusterInstallation
<1>4. CASE Migrate
  <2>1. PICK c \in ci : \E m \in ConvertToMM(c, Found("Secret", c.Spec.Database.Secret)) :
            /\ mm' = {[m EXCEPT !.Spec.ResourceLabels = {MattermostLabels(m, m.Name) : l \in @}]}
            /\ ci' = {}
            /\ pass' = "due"
    BY <1>4 DEF Migrate
  <2> PICK m \in ConvertToMM(c, Found("Secret", c.Spec.Database.Secret)) :
            mm' = {[m EXCEPT !.Spec.ResourceLabels = {MattermostLabels(m, m.Name) : l \in @}]}
    BY <2>1
  <2>2. Shaped(m)
    BY ConvertedShaped
  <2>3. Shaped([m EXCEPT !.Spec.ResourceLabels = {MattermostLabels(m, m.Name) : l \in @}])
    BY <2>2, LabelledShaped
  <2> QED BY <2>1, <2>3
<1>5. CASE EditMattermost
  <2>1. PICK m \in mm, f \in DOMAIN MattermostChoices : \E v \in MattermostChoices[f] :
            /\ mm' = {[m EXCEPT !.Spec[f] = v]}
            /\ ci' = ci
            /\ pass' = "due"
    BY <1>5 DEF EditMattermost, Wrote
  <2>2. PICK v \in MattermostChoices[f] : mm' = {[m EXCEPT !.Spec[f] = v]}
    BY <2>1
  <2>3. Shaped([m EXCEPT !.Spec[f] = v])
    BY EditShaped
  <2> QED BY <2>1, <2>2, <2>3
<1>6. CASE EditInstallation
  <2>1. PICK c \in ci, f \in DOMAIN InstallationChoices : \E v \in InstallationChoices[f] :
            /\ ci' = {[c EXCEPT !.Spec[f] = v]}
            /\ mm' = mm
            /\ pass' = "due"
    BY <1>6 DEF EditInstallation, Wrote
  <2>2. PICK v \in InstallationChoices[f] : ci' = {[c EXCEPT !.Spec[f] = v]}
    BY <2>1
  <2>3. CIShaped([c EXCEPT !.Spec[f] = v])
    BY EditCIShaped
  <2> QED BY <2>1, <2>2, <2>3
<1>7. CASE RemoveInstallation \/ MinioOperator
  BY <1>7 DEF RemoveInstallation, MinioOperator
<1>8. CASE UNCHANGED vars
  BY <1>8 DEF vars
<1> QED
  BY <1>1, <1>2, <1>3, <1>4, <1>5, <1>6, <1>7, <1>8 DEF Next

(* Defaults settle, for any spec and any edits: a pass that got through    *)
(* leaves a spec that the next one accepts and does not change (Reconcile  *)
(* of both controllers writes the resource only when it differs).          *)
THEOREM DefaultsSettle == Spec => []SpecSettles
<1>1. SpecInv => SpecSettles
  <2> SUFFICES ASSUME SpecInv PROVE SpecSettles
    OBVIOUS
  <2>1. pass = "done" => \A m \in mm : ~SetDefaultsFails(m) /\ Normalised(m) = m
    BY SettledFixed DEF SpecInv
  <2>2. pass = "done" => \A c \in ci : ~CI!SetDefaultsFails(c) /\ CINormalised(c) = c
    BY CISettledFixed DEF SpecInv
  <2> QED BY <2>1, <2>2 DEF SpecSettles, Complete
<1> QED
  BY <1>1, SpecInvInit, SpecInvNext, PTL DEF Spec

-----------------------------------------------------------------------------
(* Edits. *)

(* What is set in one version and kept by the next two is kept by both. *)
LEMMA KeepsSetTransitive ==
    ASSUME NEW a, NEW b, NEW c, KeepsSet(a, b), KeepsSet(b, c)
    PROVE  KeepsSet(a, c)
  BY DEF KeepsSet

(* The defaults of a database keep what users set in it, *)
LEMMA DatabaseKeepsSet ==
    ASSUME NEW db, ShapedDatabase(db),
           NEW n, n = DatabaseSetDefaultReplicasAndResources(DatabaseSetDefaults(db))
    PROVE  n.External = db.External /\ KeepsSet(db.OperatorManaged, n.OperatorManaged)
<1> DEFINE d == DatabaseSetDefaults(db)
           old == ManagedDatabase(db)
           new == ManagedDatabase(n)
<1>1. /\ Manages(db, d)
      /\ ~DatabaseIsExternal(db) =>
            /\ old.StorageSize # Unset => ManagedDatabase(d).StorageSize = old.StorageSize
            /\ ManagedDatabase(d).Replicas = old.Replicas
            /\ ManagedDatabase(d).Resources = old.Resources
  BY DatabaseDefaulted
<1>2. /\ Manages(d, n)
      /\ ~DatabaseIsExternal(d) =>
            /\ new.StorageSize = ManagedDatabase(d).StorageSize
            /\ ManagedDatabase(d).Replicas # {} => new.Replicas = ManagedDatabase(d).Replicas
            /\ ManagedDatabase(d).Resources # NoResources =>
                    new.Resources = ManagedDatabase(d).Resources
  BY <1>1, DatabaseFilled DEF Manages
<1> HIDE DEF d
<1>3. n.External = db.External
  BY <1>1, <1>2 DEF Manages, DatabaseFields
<1>4. CASE DatabaseIsExternal(db)
  BY <1>1, <1>2, <1>3, <1>4 DEF Manages, KeepsSet
<1>5. CASE ~DatabaseIsExternal(db)
  <2>1. n.OperatorManaged = {new}
    BY <1>1, <1>2, <1>5 DEF Manages
  <2>2. \A o \in db.OperatorManaged : o = old
    BY DerefOne DEF ShapedDatabase, Pointer, ManagedDatabase
  <2>3. /\ old.StorageSize # Unset => new.StorageSize = old.StorageSize
        /\ old.Replicas # {} => new.Replicas = old.Replicas
        /\ old.Resources # NoResources => new.Resources = old.Resources
    BY <1>1, <1>2, <1>5 DEF Manages
  <2> HIDE DEF old, new
  <2> QED BY <1>3, <2>1, <2>2, <2>3 DEF KeepsSet
<1> QED
  BY <1>4, <1>5

(* and so do those of a file store. *)
LEMMA FileStoreKeepsSet ==
    ASSUME NEW fs, ShapedFileStore(fs),
           NEW n, n = FileStoreSetDefaultReplicasAndResources(FileStoreSetDefaults(fs))
    PROVE  /\ \A f \in {"External", "ExternalVolume", "Local"} : n[f] = fs[f]
           /\ KeepsSet(fs.OperatorManaged, n.OperatorManaged)
<1> DEFINE d == FileStoreSetDefaults(fs)
           old == ManagedMinio(fs)
           new == ManagedMinio(n)
<1>1. /\ Keeps(fs, d)
      /\ ~isAnyExceptOperatorManaged(fs) =>
            /\ old.StorageSize # Unset => ManagedMinio(d).StorageSize = old.StorageSize
            /\ ManagedMinio(d).Replicas = old.Replicas
            /\ ManagedMinio(d).Resources = old.Resources
  BY FileStoreDefaulted
<1>2. /\ Keeps(d, n)
      /\ ~isAnyExceptOperatorManaged(d) =>
            /\ new.StorageSize = ManagedMinio(d).StorageSize
            /\ ManagedMinio(d).Replicas # {} => new.Replicas = ManagedMinio(d).Replicas
            /\ ManagedMinio(d).Resources # NoResources =>
                    new.Resources = ManagedMinio(d).Resources
  BY <1>1, FileStoreFilled DEF Keeps
<1> HIDE DEF d
<1>3. \A f \in {"External", "ExternalVolume", "Local"} : n[f] = fs[f]
  BY <1>1, <1>2 DEF Keeps, FileStoreFields
<1>4. CASE isAnyExceptOperatorManaged(fs)
  BY <1>1, <1>2, <1>3, <1>4 DEF Keeps, KeepsSet
<1>5. CASE ~isAnyExceptOperatorManaged(fs)
  <2>1. n.OperatorManaged = {new}
    BY <1>1, <1>2, <1>5 DEF Keeps
  <2>2. \A o \in fs.OperatorManaged : o = old
    BY DerefOne DEF ShapedFileStore, Pointer, ManagedMinio
  <2>3. /\ old.StorageSize # Unset => new.StorageSize = old.StorageSize
        /\ old.Replicas # {} => new.Replicas = old.Replicas
        /\ old.Resources # NoResources => new.Resources = old.Resources
    BY <1>1, <1>2, <1>5 DEF Keeps
  <2> HIDE DEF old, new
  <2> QED BY <1>3, <2>1, <2>2, <2>3 DEF KeepsSet
<1> QED
  BY <1>4, <1>5

(* A pass over a spec without a size keeps what is set. *)
LEMMA SetIsKept ==
    ASSUME NEW m, Shaped(m), m.Spec.Size = Unset, NEW n, n = Normalised(m)
    PROVE  /\ \A f \in {"Image", "Version", "ImagePullPolicy"} :
                m.Spec[f] # Unset => n.Spec[f] = m.Spec[f]
           /\ m.Spec.Replicas # {} => n.Spec.Replicas = m.Spec.Replicas
           /\ n.Spec.Scheduling.Placement = m.Spec.Scheduling.Placement
           /\ m.Spec.Scheduling.Resources # NoResources =>
                n.Spec.Scheduling.Resources = m.Spec.Scheduling.Resources
           /\ n.Spec.Database.External = m.Spec.Database.External
           /\ KeepsSet(m.Spec.Database.OperatorManaged, n.Spec.Database.OperatorManaged)
           /\ \A f \in {"External", "ExternalVolume", "Local"} :
                n.Spec.FileStore[f] = m.Spec.FileStore[f]
           /\ KeepsSet(m.Spec.FileStore.OperatorManaged, n.Spec.FileStore.OperatorManaged)
<1> DEFINE d == SetDefaults(m)
<1>1. /\ IsRecord(d, {"Name", "Spec"})
      /\ IsRecord(d.Spec, SpecFields)
      /\ d.Spec.Image = OrDefault(m.Spec.Image, DefaultMattermostImage)
      /\ d.Spec.Version = OrDefault(m.Spec.Version, DefaultMattermostVersion)
      /\ d.Spec.ImagePullPolicy = OrDefault(m.Spec.ImagePullPolicy, DefaultPullPolicy)
      /\ d.Spec.Size = Unset
      /\ d.Spec.Replicas = m.Spec.Replicas
      /\ d.Spec.Scheduling = m.Spec.Scheduling
  BY SetDefaultsFields
<1>2. /\ d.Spec.FileStore = FileStoreSetDefaults(m.Spec.FileStore)
      /\ d.Spec.Database = DatabaseSetDefaults(m.Spec.Database)
  BY SetDefaultsFields
<1>3. Shaped(d)
  BY <1>1, <1>2, ShapedParts, DatabaseDefaulted, FileStoreDefaulted DEF Manages, Keeps
<1>4. n = setDefaultReplicasAndResources(d)
  BY <1>1 DEF Normalised, SetReplicasAndResourcesFromSize
<1> HIDE DEF d
<1>5. /\ n.Spec.Image = d.Spec.Image
      /\ n.Spec.Version = d.Spec.Version
      /\ n.Spec.ImagePullPolicy = d.Spec.ImagePullPolicy
      /\ n.Spec.Replicas = OrSize(d.Spec.Replicas, DefaultSize.App.Replicas)
      /\ n.Spec.FileStore = FileStoreSetDefaultReplicasAndResources(d.Spec.FileStore)
      /\ n.Spec.Database = DatabaseSetDefaultReplicasAndResources(d.Spec.Database)
  BY <1>3, <1>4, DefaultSizeFields
<1>6. n.Spec.Scheduling = [d.Spec.Scheduling EXCEPT !.Resources =
                                OrResources(@, DefaultSize.App.Resources)]
  BY <1>3, <1>4, DefaultSizeFields
<1>7. IsRecord(m.Spec.Scheduling, {"Resources", "Placement"})
  BY ShapedParts
<1>8. /\ n.Spec.Scheduling.Placement = m.Spec.Scheduling.Placement
      /\ m.Spec.Scheduling.Resources # NoResources =>
            n.Spec.Scheduling.Resources = m.Spec.Scheduling.Resources
  BY <1>1, <1>6, <1>7 DEF IsRecord, OrResources
<1>9. /\ \A f \in {"Image", "Version", "ImagePullPolicy"} :
            m.Spec[f] # Unset => n.Spec[f] = m.Spec[f]
      /\ m.Spec.Replicas # {} => n.Spec.Replicas = m.Spec.Replicas
  BY <1>1, <1>5 DEF OrDefault, OrSize
<1>10. /\ n.Spec.Database.External = m.Spec.Database.External
       /\ KeepsSet(m.Spec.Database.OperatorManaged, n.Spec.Database.OperatorManaged)
  BY <1>2, <1>5, ShapedParts, DatabaseKeepsSet
<1>11. /\ \A f \in {"External", "ExternalVolume", "Local"} :
                n.Spec.FileStore[f] = m.Spec.FileStore[f]
       /\ KeepsSet(m.Spec.FileStore.OperatorManaged, n.Spec.FileStore.OperatorManaged)
  BY <1>2, <1>5, ShapedParts, FileStoreKeepsSet
<1> QED
  BY <1>8, <1>9, <1>10, <1>11

(* A size that is known decides the number of replicas. *)
LEMMA SizeDecides ==
    ASSUME NEW m, Shaped(m), NEW n, n = Normalised(m), NEW s \in GetClusterSize(m.Spec.Size)
    PROVE  n.Spec.Replicas = {s.App.Replicas}
<1> DEFINE d == SetDefaults(m)
<1>1. /\ IsRecord(d, {"Name", "Spec"})
      /\ IsRecord(d.Spec, SpecFields)
      /\ d.Spec.Size = m.Spec.Size
      /\ d.Spec.Scheduling = m.Spec.Scheduling
      /\ d.Spec.FileStore = FileStoreSetDefaults(m.Spec.FileStore)
      /\ d.Spec.Database = DatabaseSetDefaults(m.Spec.Database)
  BY SetDefaultsFields
<1>2. Shaped(d)
  BY <1>1, ShapedParts, DatabaseDefaulted, FileStoreDefaulted DEF Manages, Keeps
<1>3. GetClusterSize(m.Spec.Size) = {s} /\ m.Spec.Size # Unset
  BY DEF GetClusterSize, SizeNames, Unset
<1>4. n = overrideReplicasAndResourcesFromSize(d, s)
  BY <1>1, <1>3, DerefOne DEF Normalised, SetReplicasAndResourcesFromSize
<1> HIDE DEF d
<1>5. /\ n.Spec.Replicas = {s.App.Replicas}
      /\ n.Spec.Scheduling = [d.Spec.Scheduling EXCEPT !.Resources = s.App.Resources]
      /\ n.Spec.FileStore = FileStoreOverrideReplicasAndResources(d.Spec.FileStore, s)
      /\ n.Spec.Database = DatabaseOverrideReplicasAndResources(d.Spec.Database, s)
  BY <1>2, <1>4, OverrideSets
<1> QED
  BY <1>5

(* The same of a ClusterInstallation. *)
LEMMA CISetIsKept ==
    ASSUME NEW c, CIShaped(c), c.Spec.Size = Unset, NEW n, n = CINormalised(c)
    PROVE  /\ \A f \in {"Image", "Version", "ImagePullPolicy"} :
                c.Spec[f] # Unset => n.Spec[f] = c.Spec[f]
           /\ c.Spec.Replicas # 0 => n.Spec.Replicas = c.Spec.Replicas
           /\ c.Spec.Resources # NoResources => n.Spec.Resources = c.Spec.Resources
           /\ \A f \in {"ExternalURL", "ExternalBucket", "Secret"} :
                n.Spec.Minio[f] = c.Spec.Minio[f]
           /\ c.Spec.Minio.Replicas # 0 => n.Spec.Minio.Replicas = c.Spec.Minio.Replicas
           /\ \A f \in {"Secret", "InitBucketURL", "Backup", "BackupRestoreSecretName"} :
                n.Spec.Database[f] = c.Spec.Database[f]
           /\ c.Spec.Database.Replicas # 0 => n.Spec.Database.Replicas = c.Spec.Database.Replicas
           /\ n.Spec.BlueGreen.Enable = c.Spec.BlueGreen.Enable
           /\ n.Spec.Canary.Enable = c.Spec.Canary.Enable
<1> DEFINE d == CI!SetDefaults(c)
<1>1. CIShaped(d)
  BY CIDefaulted
<1>2. /\ IsRecord(d, {"Name", "Spec"})
      /\ d.Name = c.Name
      /\ IsRecord(d.Spec, CISpecFields)
      /\ d.Spec.Image = CI!OrDefault(c.Spec.Image, CI!DefaultMattermostImage)
      /\ d.Spec.Version = CI!OrDefault(c.Spec.Version, CI!DefaultMattermostVersion)
      /\ d.Spec.ImagePullPolicy = CI!OrDefault(c.Spec.ImagePullPolicy, CI!DefaultPullPolicy)
      /\ d.Spec.Minio = CI!MinioSetDefaults(c.Spec.Minio)
      /\ d.Spec.Database = CI!DatabaseSetDefaults(c.Spec.Database)
      /\ d.Spec.BlueGreen = CI!BlueGreenSetDefaults(c.Spec.BlueGreen, c)
      /\ d.Spec.Canary = CI!CanarySetDefaults(c.Spec.Canary, c)
      /\ d.Spec.Size = c.Spec.Size
      /\ d.Spec.Replicas = c.Spec.Replicas
      /\ d.Spec.Resources = c.Spec.Resources
  BY CISetDefaultsFields
<1>3. n = CI!setDefaultReplicasAndResources(d)
  BY <1>2, SameVocabulary DEF CINormalised, CI!SetReplicasAndResourcesFromSize
<1> HIDE DEF d
<1>4. /\ CIKept(n, d)
      /\ n.Spec.Replicas = CI!OrReplicas(d.Spec.Replicas, CI!DefaultSize.App.Replicas)
      /\ n.Spec.Resources = CI!OrResources(d.Spec.Resources, CI!DefaultSize.App.Resources)
  BY <1>1, <1>3, CIDefaultSizeFields
<1>5. /\ \A f \in {"Image", "Version", "ImagePullPolicy"} :
            c.Spec[f] # Unset => n.Spec[f] = c.Spec[f]
      /\ c.Spec.Replicas # 0 => n.Spec.Replicas = c.Spec.Replicas
      /\ c.Spec.Resources # NoResources => n.Spec.Resources = c.Spec.Resources
  BY <1>2, <1>4, SameVocabulary DEF CIKept, OrDefault, CI!OrReplicas, OrResources
<1>6. /\ \A f \in {"ExternalURL", "ExternalBucket", "Secret"} :
            n.Spec.Minio[f] = c.Spec.Minio[f]
      /\ c.Spec.Minio.Replicas # 0 => n.Spec.Minio.Replicas = c.Spec.Minio.Replicas
  <2>1. n.Spec.Minio = [d.Spec.Minio EXCEPT
            !.Replicas = CI!OrReplicas(@, CI!DefaultSize.Minio.Replicas),
            !.Resources = CI!OrResources(@, CI!DefaultSize.Minio.Resources)]
    BY <1>1, <1>3, CIDefaultSizeFields
  <2>2. /\ IsRecord(d.Spec.Minio, CIMinioFields)
        /\ \A f \in CIMinioFields \ {"StorageSize"} : d.Spec.Minio[f] = c.Spec.Minio[f]
    BY <1>2, CIMinioDefaulted DEF CIShaped
  <2> QED BY <2>1, <2>2 DEF IsRecord, CIMinioFields, CI!OrReplicas
<1>7. /\ \A f \in {"Secret", "InitBucketURL", "Backup", "BackupRestoreSecretName"} :
            n.Spec.Database[f] = c.Spec.Database[f]
      /\ c.Spec.Database.Replicas # 0 => n.Spec.Database.Replicas = c.Spec.Database.Replicas
  <2>1. n.Spec.Database = [d.Spec.Database EXCEPT
            !.Replicas = IF d.Spec.Database.InitBucketURL = CI!Unset
                         THEN CI!OrReplicas(@, CI!DefaultSize.Database.Replicas)
                         ELSE @,
            !.Resources = CI!OrResources(@, CI!DefaultSize.Database.Resources)]
    BY <1>1, <1>3, CIDefaultSizeFields
  <2>2. /\ IsRecord(d.Spec.Database, CIDatabaseFields)
        /\ \A f \in CIDatabaseFields \ {"Type", "StorageSize", "Version"} :
                d.Spec.Database[f] = c.Spec.Database[f]
    BY <1>2, CIDatabaseDefaulted DEF CIShaped
  <2>3. /\ \A f \in CIDatabaseFields \ {"Replicas", "Resources"} :
                n.Spec.Database[f] = d.Spec.Database[f]
        /\ d.Spec.Database.Replicas # 0 => n.Spec.Database.Replicas = d.Spec.Database.Replicas
    BY <2>1, <2>2 DEF IsRecord, CIDatabaseFields, CI!OrReplicas
  <2> QED BY <2>2, <2>3 DEF CIDatabaseFields
<1>8. ShapedBlueGreen(c.Spec.BlueGreen) /\ ShapedCanary(c.Spec.Canary)
  BY DEF CIShaped
<1>9. /\ n.Spec.BlueGreen = CI!BlueGreenSetDefaults(c.Spec.BlueGreen, c)
      /\ n.Spec.Canary = CI!CanarySetDefaults(c.Spec.Canary, c)
  BY <1>2, <1>4 DEF CIKept
<1>10. n.Spec.BlueGreen.Enable = c.Spec.BlueGreen.Enable
  BY <1>8, <1>9, BlueGreenDefaulted
<1>11. n.Spec.Canary.Enable = c.Spec.Canary.Enable
  BY <1>8, <1>9, CanaryDefaulted
<1> QED
  BY <1>5, <1>6, <1>7, <1>10, <1>11

(* The same of a ClusterInstallation. *)
LEMMA CISizeDecides ==
    ASSUME NEW c, CIShaped(c), NEW n, n = CINormalised(c), NEW s \in GetClusterSize(c.Spec.Size)
    PROVE  n.Spec.Replicas = s.App.Replicas
<1> DEFINE d == CI!SetDefaults(c)
<1>1. CIShaped(d)
  BY CIDefaulted
<1>2. d.Spec.Size = c.Spec.Size
  BY CISetDefaultsFields
<1>3. GetClusterSize(c.Spec.Size) = {s} /\ c.Spec.Size # Unset
  BY DEF GetClusterSize, SizeNames, Unset
<1>4. CI!Deref({s}, CI!DefaultSize) = s
  BY SameVocabulary, DerefOne
<1>5. n = CI!overrideReplicasAndResourcesFromSize(d, s)
  BY <1>2, <1>3, <1>4, SameVocabulary DEF CINormalised, CI!SetReplicasAndResourcesFromSize
<1> HIDE DEF d
<1>6. /\ CIKept(n, d)
      /\ n.Spec.Size = CI!Unset
      /\ n.Spec.Replicas = s.App.Replicas
      /\ n.Spec.Resources = s.App.Resources
      /\ n.Spec.Minio = CISizedPart(d.Spec.Minio, s.Minio)
      /\ n.Spec.Database = CISizedPart(d.Spec.Database, s.Database)
  BY <1>1, <1>5, CIOverrideFields
<1> QED
  BY <1>6

(* An edit that a spec has survives a pass over it. *)
LEMMA EditKept ==
    ASSUME NEW edit, NEW m, Shaped(m), m.Spec.Size = Unset, HasEdit(edit, m.Spec),
           edit.field \in SpecFields, NEW n, n = Normalised(m)
    PROVE  HasEdit(edit, n.Spec)
<1>1. /\ \A f \in {"Image", "Version", "ImagePullPolicy"} :
            m.Spec[f] # Unset => n.Spec[f] = m.Spec[f]
      /\ m.Spec.Replicas # {} => n.Spec.Replicas = m.Spec.Replicas
      /\ n.Spec.Scheduling.Placement = m.Spec.Scheduling.Placement
      /\ m.Spec.Scheduling.Resources # NoResources =>
            n.Spec.Scheduling.Resources = m.Spec.Scheduling.Resources
      /\ n.Spec.Database.External = m.Spec.Database.External
      /\ KeepsSet(m.Spec.Database.OperatorManaged, n.Spec.Database.OperatorManaged)
      /\ \A f \in {"External", "ExternalVolume", "Local"} :
            n.Spec.FileStore[f] = m.Spec.FileStore[f]
      /\ KeepsSet(m.Spec.FileStore.OperatorManaged, n.Spec.FileStore.OperatorManaged)
  BY SetIsKept
<1>2. \A f \in SpecFields \ FilledIn : n.Spec[f] = m.Spec[f]
  BY NormalisedSettled
<1>3. CASE edit.field = "Size"
  BY <1>1, <1>3 DEF HasEdit, FilledIn
<1>4. CASE edit.field \in {"Image", "Version", "ImagePullPolicy"}
  BY <1>1, <1>4 DEF HasEdit, FilledIn
<1>5. CASE edit.field = "Replicas"
  BY <1>1, <1>5 DEF HasEdit, FilledIn
<1>6. CASE edit.field = "Scheduling"
  BY <1>1, <1>6 DEF HasEdit, FilledIn
<1>7. CASE edit.field = "Database"
  BY <1>1, <1>7, KeepsSetTransitive DEF HasEdit, FilledIn
<1>8. CASE edit.field = "FileStore"
  BY <1>1, <1>8, KeepsSetTransitive DEF HasEdit, FilledIn
<1>9. CASE edit.field \notin FilledIn
  BY <1>2, <1>9 DEF HasEdit, FilledIn
<1> QED
  BY <1>3, <1>4, <1>5, <1>6, <1>7, <1>8, <1>9 DEF FilledIn

(* The same of a ClusterInstallation. *)
LEMMA CIEditKept ==
    ASSUME NEW edit, NEW c, CIShaped(c), c.Spec.Size = Unset, HasCIEdit(edit, c.Spec),
           edit.field \in CISpecFields, NEW n, n = CINormalised(c)
    PROVE  HasCIEdit(edit, n.Spec)
<1>1. /\ \A f \in {"Image", "Version", "ImagePullPolicy"} :
            c.Spec[f] # Unset => n.Spec[f] = c.Spec[f]
      /\ c.Spec.Replicas # 0 => n.Spec.Replicas = c.Spec.Replicas
      /\ c.Spec.Resources # NoResources => n.Spec.Resources = c.Spec.Resources
      /\ \A f \in {"ExternalURL", "ExternalBucket", "Secret"} :
            n.Spec.Minio[f] = c.Spec.Minio[f]
      /\ c.Spec.Minio.Replicas # 0 => n.Spec.Minio.Replicas = c.Spec.Minio.Replicas
      /\ \A f \in {"Secret", "InitBucketURL", "Backup", "BackupRestoreSecretName"} :
            n.Spec.Database[f] = c.Spec.Database[f]
      /\ c.Spec.Database.Replicas # 0 => n.Spec.Database.Replicas = c.Spec.Database.Replicas
      /\ n.Spec.BlueGreen.Enable = c.Spec.BlueGreen.Enable
      /\ n.Spec.Canary.Enable = c.Spec.Canary.Enable
  BY CISetIsKept
<1>2. \A f \in CISpecFields \ CIFilledIn : n.Spec[f] = c.Spec[f]
  BY CINormalisedSettled
<1>3. CASE edit.field = "Size"
  <2>1. \A size \in GetClusterSize(edit.value) : size.App.Replicas # 0
    BY SizesTyped DEF SizeType, ComponentSize
  <2> QED BY <1>1, <1>3, <2>1 DEF HasCIEdit, CIFilledIn
<1>4. CASE edit.field \in {"Image", "Version", "ImagePullPolicy"}
  BY <1>1, <1>4 DEF HasCIEdit, CIFilledIn
<1>5. CASE edit.field \in {"Replicas", "Resources"}
  BY <1>1, <1>5 DEF HasCIEdit, CIFilledIn
<1>6. CASE edit.field = "Minio"
  BY <1>1, <1>6 DEF HasCIEdit, CIFilledIn
<1>7. CASE edit.field = "Database"
  BY <1>1, <1>7 DEF HasCIEdit, CIFilledIn
<1>8. CASE edit.field \in {"BlueGreen", "Canary"}
  BY <1>1, <1>8 DEF HasCIEdit, CIFilledIn
<1>9. CASE edit.field \notin CIFilledIn
  BY <1>2, <1>9 DEF HasCIEdit, CIFilledIn
<1> QED
  BY <1>3, <1>4, <1>5, <1>6, <1>7, <1>8, <1>9 DEF CIFilledIn

(* Where the last edit is, when it was made after a pass that got through: *)
(* such a pass has erased the size, so the only size that can be pending   *)
(* is the one the edit wrote; once none is pending the edit has its effect.*)
EditInv ==
    last.settled =>
        /\ \A m \in mm :
            /\ last.field \in SpecFields
            /\ IF m.Spec.Size = Unset THEN HasEdit(last, m.Spec)
               ELSE last.field = "Size" /\ m.Spec.Size = last.value
        /\ \A c \in ci :
            /\ last.field \in CISpecFields
            /\ IF c.Spec.Size = Unset THEN HasCIEdit(last, c.Spec)
               ELSE last.field = "Size" /\ c.Spec.Size = last.value

(* What was just written is there; an empty size asks for nothing. *)
LEMMA EditWritten ==
    ASSUME NEW edit, NEW spec, spec[edit.field] = edit.value, spec.Size = Unset
    PROVE  HasEdit(edit, spec) /\ HasCIEdit(edit, spec)
<1>1. GetClusterSize(Unset) = {}
  BY DEF GetClusterSize, SizeNames, Unset
<1>2. \A p : KeepsSet(p, p)
  BY DEF KeepsSet
<1>3. HasEdit(edit, spec)
  BY <1>1, <1>2 DEF HasEdit
<1>4. HasCIEdit(edit, spec)
  BY <1>1 DEF HasCIEdit
<1> QED
  BY <1>3, <1>4

(* Every step keeps EditInv. *)
LEMMA EditInvNext == SpecInv /\ EditInv /\ [Next]_vars => EditInv'
<1> SUFFICES ASSUME SpecInv, EditInv, [Next]_vars, last'.settled PROVE EditInv'
  BY DEF EditInv
<1>1. CASE ReconcileMattermost
  <2>1. PICK old \in mm : mm' = {Normalised(old)} /\ ci' = ci /\ last' = last
    BY <1>1 DEF ReconcileMattermost
  <2>2. Shaped(old) /\ ci = {}
    BY <2>1 DEF SpecInv
  <2> DEFINE n == Normalised(old)
  <2>3. n.Spec.Size = Unset
    BY <2>2, NormalisedSettled DEF Settled
  <2>4. /\ last.field \in SpecFields
        /\ IF old.Spec.Size = Unset THEN HasEdit(last, old.Spec)
           ELSE last.field = "Size" /\ old.Spec.Size = last.value
    BY <2>1 DEF EditInv
  <2>5. HasEdit(last, n.Spec)
    <3>1. CASE old.Spec.Size = Unset
      BY <2>2, <2>4, <3>1, EditKept
    <3>2. CASE old.Spec.Size # Unset
      <4>1. \A s \in GetClusterSize(last.value) : n.Spec.Replicas = {s.App.Replicas}
        BY <2>2, <2>4, <3>2, SizeDecides
      <4> QED BY <2>4, <3>2, <4>1 DEF HasEdit, FilledIn
    <3> QED BY <3>1, <3>2
  <2> HIDE DEF n
  <2> QED BY <2>1, <2>2, <2>3, <2>4, <2>5 DEF EditInv, n
<1>2. CASE ReconcileClusterInstallation
  <2>1. PICK old \in ci : ci' = {CINormalised(old)} /\ mm' = mm /\ last' = last
    BY <1>2 DEF ReconcileClusterInstallation
  <2>2. CIShaped(old) /\ mm = {}
    BY <2>1 DEF SpecInv
  <2> DEFINE n == CINormalised(old)
  <2>3. n.Spec.Size = Unset
    BY <2>2, CINormalisedSettled DEF CISettled
  <2>4. /\ last.field \in CISpecFields
        /\ IF old.Spec.Size = Unset THEN HasCIEdit(last, old.Spec)
           ELSE last.field = "Size" /\ old.Spec.Size = last.value
    BY <2>1 DEF EditInv
  <2>5. HasCIEdit(last, n.Spec)
    <3>1. CASE old.Spec.Size = Unset
      BY <2>2, <2>4, <3>1, CIEditKept
    <3>2. CASE old.Spec.Size # Unset
      <4>1. \A s \in GetClusterSize(last.value) : n.Spec.Replicas = s.App.Replicas
        BY <2>2, <2>4, <3>2, CISizeDecides
      <4> QED BY <2>4, <3>2, <4>1 DEF HasCIEdit, CIFilledIn
    <3> QED BY <3>1, <3>2
  <2> HIDE DEF n
  <2> QED BY <2>1, <2>2, <2>3, <2>4, <2>5 DEF EditInv, n
<1>3. CASE RejectMattermost \/ RejectClusterInstallation \/ RemoveInstallation \/ MinioOperator
  BY <1>3 DEF RejectMattermost, RejectClusterInstallation, RemoveInstallation, MinioOperator, EditInv
<1>4. CASE Migrate
  BY <1>4 DEF Migrate, NoEdit
<1>5. CASE EditMattermost
  <2>1. PICK m \in mm, f \in DOMAIN MattermostChoices : \E v \in MattermostChoices[f] :
            /\ mm' = {[m EXCEPT !.Spec[f] = v]}
            /\ ci' = ci
            /\ last' = [field |-> f, value |-> v, settled |-> pass = "done"]
    BY <1>5 DEF EditMattermost, Wrote
  <2>2. PICK v \in MattermostChoices[f] :
            /\ mm' = {[m EXCEPT !.Spec[f] = v]}
            /\ last' = [field |-> f, value |-> v, settled |-> pass = "done"]
    BY <2>1
  <2>3. PICK n : n = [m EXCEPT !.Spec[f] = v]
    OBVIOUS
  <2>4. Shaped(m) /\ m.Spec.Size = Unset /\ ci = {}
    BY <2>1, <2>2 DEF SpecInv, Settled
  <2>5. f \in SpecFields
    BY ChoiceFields
  <2>6. n.Spec[f] = v /\ (f # "Size" => n.Spec.Size = Unset)
    BY <2>3, <2>4, <2>5 DEF Shaped, IsRecord, SpecFields
  <2>7. last'.field = f /\ last'.value = v
    BY <2>2
  <2>8. n.Spec.Size = Unset => HasEdit(last', n.Spec)
    BY <2>6, <2>7, EditWritten
  <2> QED BY <2>1, <2>2, <2>3, <2>4, <2>5, <2>6, <2>7, <2>8 DEF EditInv
<1>6. CASE EditInstallation
  <2>1. PICK c \in ci, f \in DOMAIN InstallationChoices : \E v \in InstallationChoices[f] :
            /\ ci' = {[c EXCEPT !.Spec[f] = v]}
            /\ mm' = mm
            /\ last' = [field |-> f, value |-> v, settled |-> pass = "done"]
    BY <1>6 DEF EditInstallation, Wrote
  <2>2. PICK v \in InstallationChoices[f] :
            /\ ci' = {[c EXCEPT !.Spec[f] = v]}
            /\ last' = [field |-> f, value |-> v, settled |-> pass = "done"]
    BY <2>1
  <2>3. PICK n : n = [c EXCEPT !.Spec[f] = v]
    OBVIOUS
  <2>4. CIShaped(c) /\ c.Spec.Size = Unset /\ mm = {}
    BY <2>1, <2>2 DEF SpecInv, CISettled
  <2>5. f \in CISpecFields
    BY ChoiceFields
  <2>6. n.Spec[f] = v /\ (f # "Size" => n.Spec.Size = Unset)
    BY <2>3, <2>4, <2>5 DEF CIShaped, IsRecord, CISpecFields
  <2>7. last'.field = f /\ last'.value = v
    BY <2>2
  <2>8. n.Spec.Size = Unset => HasCIEdit(last', n.Spec)
    BY <2>6, <2>7, EditWritten
  <2> QED BY <2>1, <2>2, <2>3, <2>4, <2>5, <2>6, <2>7, <2>8 DEF EditInv
<1>7. CASE UNCHANGED vars
  BY <1>7 DEF vars, EditInv
<1> QED
  BY <1>1, <1>2, <1>3, <1>4, <1>5, <1>6, <1>7 DEF Next

(* What a user writes after a pass that got through is in the spec that    *)
(* the next such pass leaves, for any spec and any values: the size that   *)
(* SetReplicasAndResourcesFromSize has applied is gone by then.            *)
THEOREM EditsStick == Spec => []EditSticks
<1>1. Init => EditInv
  BY DEF Init, EditInv, NoEdit
<1>2. SpecInv /\ EditInv => EditSticks
  BY DEF SpecInv, EditInv, EditSticks, Complete, Settled, CISettled
<1> QED
  BY <1>1, <1>2, SpecInvInit, SpecInvNext, EditInvNext, PTL DEF Spec

=============================================================================
