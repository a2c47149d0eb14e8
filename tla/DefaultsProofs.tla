---------------------------- MODULE DefaultsProofs ----------------------------
(***************************************************************************)
(* What the defaults of both kinds of installation do to a spec, for any   *)
(* spec: SetDefaults and SetReplicasAndResourcesFromSize fill in its gaps, *)
(* leave the fields that are not theirs alone, and do nothing to a spec    *)
(* without gaps.                                                           *)
(*                                                                         *)
(* The lemmas are about the shape of a spec, which is the fields that its  *)
(* records have, and not about its type: that is all the functions rely    *)
(* on, and it is kept by every one of them. A spec is settled when it has  *)
(* no gap that a default would fill in. The three facts that               *)
(* ManifestsProofs rests on come last for each kind: what a pass has       *)
(* filled in is settled (NormalisedSettled, CINormalisedSettled), and      *)
(* accepted when the spec before it was (NormalisedAccepted), and a        *)
(* settled spec is a fixed point (SettledFixed, CISettledFixed).           *)
(***************************************************************************)
EXTENDS Manifests, TLAPS

(* The fields of a Mattermost spec, and of its database and file store. *)
SpecFields ==
    {"Size", "Image", "Version", "Replicas", "MattermostEnv", "LicenseSecret", "IngressName",
     "IngressAnnotations", "UseIngressTLS", "UseServiceLoadBalancer", "ServiceAnnotations",
     "ResourceLabels", "Ingress", "AWSLoadBalancerController", "Volumes", "VolumeMounts",
     "ImagePullPolicy", "ImagePullSecrets", "DNS", "Database", "FileStore", "ElasticSearch",
     "Scheduling", "Probes", "PodTemplate", "DeploymentTemplate", "UpdateJob", "JobServer",
     "PodExtensions", "ResourcePatch"}

DatabaseFields == {"External", "OperatorManaged", "DisableReadinessCheck", "ReadinessCheck"}

ManagedDatabaseFields ==
    {"Type", "StorageSize", "Replicas", "Resources", "InitBucketURL", "Backup",
     "BackupRestoreSecretName", "Version"}

FileStoreFields == {"External", "ExternalVolume", "OperatorManaged", "Local"}

ManagedMinioFields == {"StorageSize", "Replicas", "Resources"}

(* A record with these fields. *)
IsRecord(r, fields) == r = [f \in fields |-> r[f]]

(* A pointer to a record with these fields. *)
Pointer(p, fields) == p = {} \/ \E r : p = {r} /\ IsRecord(r, fields)

(* A Mattermost with the fields of its schema, down to those that the      *)
(* defaults change.                                                        *)
Shaped(m) ==
    /\ IsRecord(m, {"Name", "Spec"})
    /\ IsRecord(m.Spec, SpecFields)
    /\ IsRecord(m.Spec.Scheduling, {"Resources", "Placement"})
    /\ IsRecord(m.Spec.Database, DatabaseFields)
    /\ Pointer(m.Spec.Database.OperatorManaged, ManagedDatabaseFields)
    /\ IsRecord(m.Spec.FileStore, FileStoreFields)
    /\ Pointer(m.Spec.FileStore.OperatorManaged, ManagedMinioFields)

(* A database without gaps: an external one is not looked at. *)
DatabaseSettled(db) ==
    DatabaseIsExternal(db) \/ \E omd :
        /\ db.OperatorManaged = {omd}
        /\ omd.Type # Unset
        /\ omd.StorageSize # Unset
        /\ omd.Version # Unset
        /\ omd.Replicas # {}
        /\ omd.Resources # NoResources

(* A file store without gaps: only the managed one has defaults. *)
FileStoreSettled(fs) ==
    isAnyExceptOperatorManaged(fs) \/ \E omm :
        /\ fs.OperatorManaged = {omm}
        /\ omm.StorageSize # Unset
        /\ omm.Replicas # {}
        /\ omm.Resources # NoResources

(* A Mattermost without gaps. The size is erased once it is applied. *)
Settled(m) ==
    /\ m.Spec.Size = Unset
    /\ m.Spec.Image # Unset
    /\ m.Spec.Version # Unset
    /\ m.Spec.ImagePullPolicy # Unset
    /\ m.Spec.Replicas # {}
    /\ m.Spec.Scheduling.Resources # NoResources
    /\ DatabaseSettled(m.Spec.Database)
    /\ FileStoreSettled(m.Spec.FileStore)

-----------------------------------------------------------------------------
(* No default is itself the unset value. *)
LEMMA DefaultsSet ==
    /\ DefaultMattermostImage # Unset
    /\ DefaultMattermostVersion # Unset
    /\ DefaultPullPolicy # Unset
    /\ DefaultStorageSize # Unset
    /\ "mysql" # Unset
    /\ "8.0" # Unset
  BY DEF Unset, DefaultMattermostImage, DefaultMattermostVersion, DefaultPullPolicy,
         DefaultStorageSize

(* A field that has its default is set, and keeps what it was set to. *)
LEMMA OrDefaultSet ==
    ASSUME NEW value, NEW default, default # Unset
    PROVE  OrDefault(value, default) # Unset
  BY DEF OrDefault

(* A pointer to one value, and one to none. *)
LEMMA DerefOne == ASSUME NEW x, NEW nil PROVE Deref({x}, nil) = x
  BY DEF Deref

LEMMA DerefNone == ASSUME NEW nil PROVE Deref({}, nil) = nil
  BY DEF Deref

(* Every size of the table has a positive number of each. *)
ComponentSize == [Replicas : Nat \ {0}, Resources : ResourceRequirements \ {NoResources}]

(* The sizes of the table (mattermost_sizes). *)
SizeType == [App : ComponentSize, Minio : ComponentSize, Database : ComponentSize]

(* The resources of the table are set. *)
LEMMA LimitedType ==
    ASSUME NEW r \in Nat \ {0}, NEW c \in Nat \ {0}, NEW m \in Nat, NEW cl \in Nat, NEW ml \in Nat
    PROVE  Limited(r, c, m, cl, ml) \in ComponentSize
  BY DEF Limited, ComponentSize, ResourceRequirements, NoResources

(* Those without limits are, too. *)
LEMMA UnlimitedType ==
    ASSUME NEW r \in Nat \ {0}, NEW c \in Nat \ {0}, NEW m \in Nat
    PROVE  Unlimited(r, c, m) \in ComponentSize
  BY LimitedType DEF Unlimited

(* Every size that GetClusterSize finds, and the default one, has them. *)
LEMMA SizesTyped ==
    /\ DefaultSize \in SizeType
    /\ \A key : \A size \in GetClusterSize(key) : size \in SizeType
<1>1. \A a, b, c \in ComponentSize : Sized(a, b, c) \in SizeType
  BY DEF Sized, SizeType
<1>2. cloudSize10 \in SizeType
  <2>1. Limited(2, 10, 150, 2000, 4096) \in ComponentSize BY LimitedType
  <2>2. Unlimited(4, 100, 256) \in ComponentSize BY UnlimitedType
  <2>3. Unlimited(2, 200, 512) \in ComponentSize BY UnlimitedType
  <2> QED BY <1>1, <2>1, <2>2, <2>3 DEF cloudSize10
<1>3. cloudSize100 \in SizeType
  <2>1. Limited(2, 50, 256, 2000, 4096) \in ComponentSize BY LimitedType
  <2>2. Unlimited(4, 100, 256) \in ComponentSize BY UnlimitedType
  <2>3. Unlimited(2, 200, 512) \in ComponentSize BY UnlimitedType
  <2> QED BY <1>1, <2>1, <2>2, <2>3 DEF cloudSize100
<1>4. size100 \in SizeType
  <2>1. Limited(1, 100, 256, 2000, 4096) \in ComponentSize BY LimitedType
  <2>2. Unlimited(1, 100, 256) \in ComponentSize BY UnlimitedType
  <2>3. Unlimited(1, 200, 512) \in ComponentSize BY UnlimitedType
  <2> QED BY <1>1, <2>1, <2>2, <2>3 DEF size100
<1>5. size1000 \in SizeType
  <2>1. Limited(2, 150, 256, 2000, 4096) \in ComponentSize BY LimitedType
  <2>2. Unlimited(4, 150, 512) \in ComponentSize BY UnlimitedType
  <2>3. Unlimited(2, 250, 512) \in ComponentSize BY UnlimitedType
  <2> QED BY <1>1, <2>1, <2>2, <2>3 DEF size1000
<1>6. size5000 \in SizeType
  <2>1. Limited(2, 500, 500, 4000, 8192) \in ComponentSize BY LimitedType
  <2>2. Unlimited(4, 200, 500) \in ComponentSize BY UnlimitedType
  <2>3. Unlimited(3, 500, 500) \in ComponentSize BY UnlimitedType
  <2> QED BY <1>1, <2>1, <2>2, <2>3 DEF size5000
<1>7. size10000 \in SizeType
  <2>1. Limited(2, 500, 500, 4000, 8192) \in ComponentSize BY LimitedType
  <2>2. Unlimited(4, 200, 500) \in ComponentSize BY UnlimitedType
  <2>3. Unlimited(3, 500, 500) \in ComponentSize BY UnlimitedType
  <2> QED BY <1>1, <2>1, <2>2, <2>3 DEF size10000
<1>8. size25000 \in SizeType
  <2>1. Limited(2, 1000, 4096, 4000, 16384) \in ComponentSize BY LimitedType
  <2>2. Unlimited(4, 300, 500) \in ComponentSize BY UnlimitedType
  <2>3. Unlimited(3, 500, 1024) \in ComponentSize BY UnlimitedType
  <2> QED BY <1>1, <2>1, <2>2, <2>3 DEF size25000
<1>9. sizeMiniSingleton \in SizeType
  <2>1. Limited(1, 10, 150, 2000, 4096) \in ComponentSize BY LimitedType
  <2>2. Unlimited(1, 100, 256) \in ComponentSize BY UnlimitedType
  <2>3. Unlimited(1, 200, 512) \in ComponentSize BY UnlimitedType
  <2> QED BY <1>1, <2>1, <2>2, <2>3 DEF sizeMiniSingleton
<1>10. sizeMiniHA \in SizeType
  <2>1. Limited(2, 10, 150, 2000, 4096) \in ComponentSize BY LimitedType
  <2>2. Unlimited(4, 100, 256) \in ComponentSize BY UnlimitedType
  <2>3. Unlimited(2, 200, 512) \in ComponentSize BY UnlimitedType
  <2> QED BY <1>1, <2>1, <2>2, <2>3 DEF sizeMiniHA
<1>11. \A key \in SizeNames : validSizes[key] \in SizeType
  BY <1>2, <1>3, <1>4, <1>5, <1>6, <1>7, <1>8, <1>9, <1>10 DEF validSizes, SizeNames
<1> QED
  BY <1>6, <1>11 DEF DefaultSize, GetClusterSize

(* An optional record is a pointer to one. *)
LEMMA OptionalPointer ==
    ASSUME NEW S, NEW p \in Optional(S), NEW fields, \A r \in S : IsRecord(r, fields)
    PROVE  Pointer(p, fields)
  BY DEF Optional, Pointer

(* A Mattermost that passes its schema has its shape. *)
LEMMA TypedShaped ==
    ASSUME NEW m \in Mattermost
    PROVE  Shaped(m)
<1>1. /\ IsRecord(m, {"Name", "Spec"})
      /\ IsRecord(m.Spec, SpecFields)
  BY DEF IsRecord, Mattermost, MattermostSpecType, SpecFields
<1>2. /\ m.Spec.Database \in Database
      /\ m.Spec.FileStore \in FileStore
      /\ m.Spec.Scheduling \in Scheduling
  BY DEF Mattermost, MattermostSpecType
<1>3. IsRecord(m.Spec.Scheduling, {"Resources", "Placement"})
  BY <1>2 DEF IsRecord, Scheduling
<1>4. IsRecord(m.Spec.Database, DatabaseFields)
  BY <1>2 DEF IsRecord, Database, DatabaseFields
<1>5. Pointer(m.Spec.Database.OperatorManaged, ManagedDatabaseFields)
  <2>1. \A r \in OperatorManagedDatabase : IsRecord(r, ManagedDatabaseFields)
    BY DEF IsRecord, OperatorManagedDatabase, ManagedDatabaseFields
  <2>2. m.Spec.Database.OperatorManaged \in Optional(OperatorManagedDatabase)
    BY <1>2 DEF Database
  <2> QED BY <2>1, <2>2, OptionalPointer
<1>6. IsRecord(m.Spec.FileStore, FileStoreFields)
  BY <1>2 DEF IsRecord, FileStore, FileStoreFields
<1>7. Pointer(m.Spec.FileStore.OperatorManaged, ManagedMinioFields)
  <2>1. \A r \in OperatorManagedMinio : IsRecord(r, ManagedMinioFields)
    BY DEF IsRecord, OperatorManagedMinio, ManagedMinioFields
  <2>2. m.Spec.FileStore.OperatorManaged \in Optional(OperatorManagedMinio)
    BY <1>2 DEF FileStore
  <2> QED BY <2>1, <2>2, OptionalPointer
<1> QED
  BY <1>1, <1>3, <1>4, <1>5, <1>6, <1>7 DEF Shaped

-----------------------------------------------------------------------------
(* The database. *)

(* The shape of a database. *)
ShapedDatabase(db) ==
    IsRecord(db, DatabaseFields) /\ Pointer(db.OperatorManaged, ManagedDatabaseFields)

(* ManagedDatabase is a record of the managed database, set or not. *)
LEMMA ManagedDatabaseRecord ==
    ASSUME NEW db, ShapedDatabase(db)
    PROVE  IsRecord(ManagedDatabase(db), ManagedDatabaseFields)
<1>1. CASE db.OperatorManaged = {}
  <2>1. IsRecord(EmptyDatabase, ManagedDatabaseFields)
    BY DEF EmptyDatabase, IsRecord, ManagedDatabaseFields
  <2> QED BY <1>1, <2>1, DerefNone DEF ManagedDatabase
<1>2. CASE db.OperatorManaged # {}
  BY <1>2, DerefOne DEF ManagedDatabase, ShapedDatabase, Pointer
<1> QED
  BY <1>1, <1>2

(* Another database behind the pointer is all that changes. *)
LEMMA DatabasePut ==
    ASSUME NEW db, IsRecord(db, DatabaseFields), NEW omd, IsRecord(omd, ManagedDatabaseFields)
    PROVE  LET new == [db EXCEPT !.OperatorManaged = {omd}]
           IN /\ ShapedDatabase(new)
              /\ new.OperatorManaged = {omd}
              /\ ManagedDatabase(new) = omd
              /\ \A f \in DatabaseFields \ {"OperatorManaged"} : new[f] = db[f]
              /\ DatabaseIsExternal(new) = DatabaseIsExternal(db)
<1> DEFINE new == [db EXCEPT !.OperatorManaged = {omd}]
<1>1. /\ IsRecord(new, DatabaseFields)
      /\ new.OperatorManaged = {omd}
      /\ \A f \in DatabaseFields \ {"OperatorManaged"} : new[f] = db[f]
  BY DEF IsRecord, DatabaseFields
<1>2. new.External = db.External
  BY <1>1 DEF DatabaseFields
<1> HIDE DEF new
<1>3. ShapedDatabase(new)
  BY <1>1 DEF ShapedDatabase, Pointer
<1>4. ManagedDatabase(new) = omd
  BY <1>1, DerefOne DEF ManagedDatabase
<1>5. DatabaseIsExternal(new) = DatabaseIsExternal(db)
  BY <1>2 DEF DatabaseIsExternal
<1> QED
  BY <1>1, <1>3, <1>4, <1>5 DEF new

(* What each of the three functions makes of the managed database: nothing *)
(* when the database is external, which none of them changes.              *)
Manages(db, new) ==
    /\ ShapedDatabase(new)
    /\ \A f \in DatabaseFields \ {"OperatorManaged"} : new[f] = db[f]
    /\ DatabaseIsExternal(new) = DatabaseIsExternal(db)
    /\ IF DatabaseIsExternal(db) THEN new = db
       ELSE new.OperatorManaged = {ManagedDatabase(new)}

(* Database.SetDefaults fills in the type and the storage of a managed     *)
(* database, and the version of MySQL.                                     *)
LEMMA DatabaseDefaulted ==
    ASSUME NEW db, ShapedDatabase(db)
    PROVE  LET new == DatabaseSetDefaults(db)
               o == ManagedDatabase(db)
               n == ManagedDatabase(new)
           IN /\ Manages(db, new)
              /\ ~DatabaseIsExternal(db) =>
                    /\ n.Type # Unset /\ n.StorageSize # Unset /\ n.Version # Unset
                    /\ o.StorageSize # Unset => n.StorageSize = o.StorageSize
                    /\ n.Replicas = o.Replicas
                    /\ n.Resources = o.Resources
<1>1. CASE DatabaseIsExternal(db)
  BY <1>1 DEF DatabaseSetDefaults, Manages
<1>2. CASE ~DatabaseIsExternal(db)
  <2> DEFINE o == ManagedDatabase(db)
             n == [o EXCEPT !.Type = OrDefault(@, "mysql"),
                            !.StorageSize = OrDefault(@, DefaultStorageSize),
                            !.Version = OrDefault(@, "8.0")]
  <2>1. IsRecord(o, ManagedDatabaseFields)
    BY ManagedDatabaseRecord
  <2>2. /\ IsRecord(n, ManagedDatabaseFields)
        /\ n.Type = OrDefault(o.Type, "mysql")
        /\ n.StorageSize = OrDefault(o.StorageSize, DefaultStorageSize)
        /\ n.Version = OrDefault(o.Version, "8.0")
        /\ n.Replicas = o.Replicas
        /\ n.Resources = o.Resources
    BY <2>1 DEF IsRecord, ManagedDatabaseFields
  <2>3. DatabaseSetDefaults(db) = [db EXCEPT !.OperatorManaged = {n}]
    BY <1>2 DEF DatabaseSetDefaults
  <2> HIDE DEF n, o
  <2>4. n.Type # Unset /\ n.StorageSize # Unset /\ n.Version # Unset
    BY <2>2, OrDefaultSet, DefaultsSet
  <2>5. o.StorageSize # Unset => n.StorageSize = o.StorageSize
    BY <2>2 DEF OrDefault
  <2> QED
    BY <1>2, <2>2, <2>3, <2>4, <2>5, DatabasePut DEF ShapedDatabase, Manages, o
<1> QED
  BY <1>1, <1>2

(* SetDefaultReplicasAndResources fills in its replicas and resources. *)
LEMMA DatabaseFilled ==
    ASSUME NEW db, ShapedDatabase(db)
    PROVE  LET new == DatabaseSetDefaultReplicasAndResources(db)
               o == ManagedDatabase(db)
               n == ManagedDatabase(new)
           IN /\ Manages(db, new)
              /\ ~DatabaseIsExternal(db) =>
                    /\ n.Type = o.Type /\ n.StorageSize = o.StorageSize /\ n.Version = o.Version
                    /\ n.Replicas # {} /\ n.Resources # NoResources
                    /\ o.Replicas # {} => n.Replicas = o.Replicas
                    /\ o.Resources # NoResources => n.Resources = o.Resources
<1>1. CASE DatabaseIsExternal(db)
  BY <1>1 DEF DatabaseSetDefaultReplicasAndResources, Manages
<1>2. CASE ~DatabaseIsExternal(db)
  <2> DEFINE o == ManagedDatabase(db)
             size == DefaultSize.Database
             n == [o EXCEPT !.Replicas = OrSize(@, size.Replicas),
                            !.Resources = OrResources(@, size.Resources)]
  <2>1. IsRecord(o, ManagedDatabaseFields)
    BY ManagedDatabaseRecord
  <2>2. /\ IsRecord(n, ManagedDatabaseFields)
        /\ n.Replicas = OrSize(o.Replicas, size.Replicas)
        /\ n.Resources = OrResources(o.Resources, size.Resources)
        /\ n.Type = o.Type /\ n.StorageSize = o.StorageSize /\ n.Version = o.Version
    BY <2>1 DEF IsRecord, ManagedDatabaseFields
  <2>3. DatabaseSetDefaultReplicasAndResources(db) = [db EXCEPT !.OperatorManaged = {n}]
    BY <1>2 DEF DatabaseSetDefaultReplicasAndResources
  <2>4. size.Resources # NoResources
    BY SizesTyped DEF SizeType, ComponentSize
  <2> HIDE DEF n, o, size
  <2>5. /\ n.Replicas # {} /\ n.Resources # NoResources
        /\ o.Replicas # {} => n.Replicas = o.Replicas
        /\ o.Resources # NoResources => n.Resources = o.Resources
    BY <2>2, <2>4 DEF OrSize, OrResources
  <2> QED
    BY <1>2, <2>2, <2>3, <2>5, DatabasePut DEF ShapedDatabase, Manages, o
<1> QED
  BY <1>1, <1>2

(* OverrideReplicasAndResourcesFromSize writes those of a size over them. *)
LEMMA DatabaseOverridden ==
    ASSUME NEW db, ShapedDatabase(db), NEW size \in SizeType
    PROVE  LET new == DatabaseOverrideReplicasAndResources(db, size)
               o == ManagedDatabase(db)
               n == ManagedDatabase(new)
           IN /\ Manages(db, new)
              /\ ~DatabaseIsExternal(db) =>
                    /\ n.Type = o.Type /\ n.StorageSize = o.StorageSize /\ n.Version = o.Version
                    /\ n.Replicas # {} /\ n.Resources # NoResources
<1>1. CASE DatabaseIsExternal(db)
  BY <1>1 DEF DatabaseOverrideReplicasAndResources, Manages
<1>2. CASE ~DatabaseIsExternal(db)
  <2> DEFINE o == ManagedDatabase(db)
             n == [o EXCEPT !.Replicas = {size.Database.Replicas},
                            !.Resources = size.Database.Resources]
  <2>1. IsRecord(o, ManagedDatabaseFields)
    BY ManagedDatabaseRecord
  <2>2. /\ IsRecord(n, ManagedDatabaseFields)
        /\ n.Replicas = {size.Database.Replicas}
        /\ n.Resources = size.Database.Resources
        /\ n.Type = o.Type /\ n.StorageSize = o.StorageSize /\ n.Version = o.Version
    BY <2>1 DEF IsRecord, ManagedDatabaseFields
  <2>3. DatabaseOverrideReplicasAndResources(db, size) = [db EXCEPT !.OperatorManaged = {n}]
    BY <1>2 DEF DatabaseOverrideReplicasAndResources
  <2>4. size.Database.Resources # NoResources
    BY DEF SizeType, ComponentSize
  <2> HIDE DEF n, o
  <2>5. n.Replicas # {} /\ n.Resources # NoResources
    BY <2>2, <2>4
  <2> QED
    BY <1>2, <2>2, <2>3, <2>5, DatabasePut DEF ShapedDatabase, Manages, o
<1> QED
  BY <1>1, <1>2

(* A database that lacks nothing is left alone. *)
LEMMA DatabaseFixed ==
    ASSUME NEW db, ShapedDatabase(db), DatabaseSettled(db)
    PROVE  /\ DatabaseSetDefaults(db) = db
           /\ DatabaseSetDefaultReplicasAndResources(db) = db
<1>1. CASE DatabaseIsExternal(db)
  BY <1>1 DEF DatabaseSetDefaults, DatabaseSetDefaultReplicasAndResources
<1>2. CASE ~DatabaseIsExternal(db)
  <2>1. PICK omd : /\ db.OperatorManaged = {omd}
                   /\ omd.Type # Unset
                   /\ omd.StorageSize # Unset
                   /\ omd.Version # Unset
                   /\ omd.Replicas # {}
                   /\ omd.Resources # NoResources
    BY <1>2 DEF DatabaseSettled
  <2>2. ManagedDatabase(db) = omd /\ IsRecord(omd, ManagedDatabaseFields)
    <3>1. ManagedDatabase(db) = omd
      BY <2>1, DerefOne DEF ManagedDatabase
    <3> QED BY <3>1, ManagedDatabaseRecord
  <2>3. [omd EXCEPT !.Type = OrDefault(@, "mysql"),
                    !.StorageSize = OrDefault(@, DefaultStorageSize),
                    !.Version = OrDefault(@, "8.0")] = omd
    BY <2>1, <2>2 DEF IsRecord, ManagedDatabaseFields, OrDefault
  <2>4. \A size : [omd EXCEPT !.Replicas = OrSize(@, size.Replicas),
                              !.Resources = OrResources(@, size.Resources)] = omd
    BY <2>1, <2>2 DEF IsRecord, ManagedDatabaseFields, OrSize, OrResources
  <2>5. [db EXCEPT !.OperatorManaged = {omd}] = db
    BY <2>1 DEF ShapedDatabase, IsRecord, DatabaseFields
  <2>6. DatabaseSetDefaults(db) = db
    BY <1>2, <2>2, <2>3, <2>5 DEF DatabaseSetDefaults
  <2>7. DatabaseSetDefaultReplicasAndResources(db) = [db EXCEPT !.OperatorManaged =
            {[omd EXCEPT !.Replicas = OrSize(@, DefaultSize.Database.Replicas),
                         !.Resources = OrResources(@, DefaultSize.Database.Resources)]}]
    BY <1>2, <2>2 DEF DatabaseSetDefaultReplicasAndResources
  <2>8. DatabaseSetDefaultReplicasAndResources(db) = db
    BY <2>4, <2>5, <2>7
  <2> QED
    BY <2>6, <2>8
<1> QED
  BY <1>1, <1>2

-----------------------------------------------------------------------------
(* The file store. *)

(* The shape of a file store. *)
ShapedFileStore(fs) ==
    IsRecord(fs, FileStoreFields) /\ Pointer(fs.OperatorManaged, ManagedMinioFields)

(* ManagedMinio is a record of the managed MinIO, set or not. *)
LEMMA ManagedMinioRecord ==
    ASSUME NEW fs, ShapedFileStore(fs)
    PROVE  IsRecord(ManagedMinio(fs), ManagedMinioFields)
<1>1. CASE fs.OperatorManaged = {}
  <2>1. IsRecord(EmptyMinio, ManagedMinioFields)
    BY DEF EmptyMinio, IsRecord, ManagedMinioFields
  <2> QED BY <1>1, <2>1, DerefNone DEF ManagedMinio
<1>2. CASE fs.OperatorManaged # {}
  BY <1>2, DerefOne DEF ManagedMinio, ShapedFileStore, Pointer
<1> QED
  BY <1>1, <1>2

(* Another MinIO behind the pointer is all that changes. *)
LEMMA FileStorePut ==
    ASSUME NEW fs, IsRecord(fs, FileStoreFields), NEW omm, IsRecord(omm, ManagedMinioFields)
    PROVE  LET new == [fs EXCEPT !.OperatorManaged = {omm}]
           IN /\ ShapedFileStore(new)
              /\ new.OperatorManaged = {omm}
              /\ ManagedMinio(new) = omm
              /\ \A f \in FileStoreFields \ {"OperatorManaged"} : new[f] = fs[f]
              /\ isAnyExceptOperatorManaged(new) = isAnyExceptOperatorManaged(fs)
<1> DEFINE new == [fs EXCEPT !.OperatorManaged = {omm}]
<1>1. /\ IsRecord(new, FileStoreFields)
      /\ new.OperatorManaged = {omm}
      /\ \A f \in FileStoreFields \ {"OperatorManaged"} : new[f] = fs[f]
  BY DEF IsRecord, FileStoreFields
<1>2. /\ new.External = fs.External
      /\ new.ExternalVolume = fs.ExternalVolume
      /\ new.Local = fs.Local
  BY <1>1 DEF FileStoreFields
<1> HIDE DEF new
<1>3. ShapedFileStore(new)
  BY <1>1 DEF ShapedFileStore, Pointer
<1>4. ManagedMinio(new) = omm
  BY <1>1, DerefOne DEF ManagedMinio
<1>5. isAnyExceptOperatorManaged(new) = isAnyExceptOperatorManaged(fs)
  BY <1>2 DEF isAnyExceptOperatorManaged, FileStoreIsExternal, IsExternalVolume, IsLocal
<1> QED
  BY <1>1, <1>3, <1>4, <1>5 DEF new

(* What each of the three functions makes of the managed MinIO: nothing    *)
(* when there is another file store, which none of them changes.           *)
Keeps(fs, new) ==
    /\ ShapedFileStore(new)
    /\ \A f \in FileStoreFields \ {"OperatorManaged"} : new[f] = fs[f]
    /\ isAnyExceptOperatorManaged(new) = isAnyExceptOperatorManaged(fs)
    /\ IF isAnyExceptOperatorManaged(fs) THEN new = fs
       ELSE new.OperatorManaged = {ManagedMinio(new)}

(* FileStore.SetDefaults fills in the storage of a managed MinIO. *)
LEMMA FileStoreDefaulted ==
    ASSUME NEW fs, ShapedFileStore(fs)
    PROVE  LET new == FileStoreSetDefaults(fs)
               o == ManagedMinio(fs)
               n == ManagedMinio(new)
           IN /\ Keeps(fs, new)
              /\ ~isAnyExceptOperatorManaged(fs) =>
                    /\ n.StorageSize # Unset
                    /\ o.StorageSize # Unset => n.StorageSize = o.StorageSize
                    /\ n.Replicas = o.Replicas
                    /\ n.Resources = o.Resources
<1>1. CASE isAnyExceptOperatorManaged(fs)
  BY <1>1 DEF FileStoreSetDefaults, Keeps
<1>2. CASE ~isAnyExceptOperatorManaged(fs)
  <2> DEFINE o == ManagedMinio(fs)
             n == [o EXCEPT !.StorageSize = OrDefault(@, DefaultStorageSize)]
  <2>1. IsRecord(o, ManagedMinioFields)
    BY ManagedMinioRecord
  <2>2. /\ IsRecord(n, ManagedMinioFields)
        /\ n.StorageSize = OrDefault(o.StorageSize, DefaultStorageSize)
        /\ n.Replicas = o.Replicas
        /\ n.Resources = o.Resources
    BY <2>1 DEF IsRecord, ManagedMinioFields
  <2>3. FileStoreSetDefaults(fs) = [fs EXCEPT !.OperatorManaged = {n}]
    BY <1>2 DEF FileStoreSetDefaults
  <2> HIDE DEF n, o
  <2>4. n.StorageSize # Unset
    BY <2>2, OrDefaultSet, DefaultsSet
  <2>5. o.StorageSize # Unset => n.StorageSize = o.StorageSize
    BY <2>2 DEF OrDefault
  <2> QED
    <3>1. /\ ShapedFileStore(FileStoreSetDefaults(fs))
          /\ FileStoreSetDefaults(fs).OperatorManaged = {n}
          /\ ManagedMinio(FileStoreSetDefaults(fs)) = n
          /\ \A f \in FileStoreFields \ {"OperatorManaged"} : FileStoreSetDefaults(fs)[f] = fs[f]
          /\ isAnyExceptOperatorManaged(FileStoreSetDefaults(fs)) = isAnyExceptOperatorManaged(fs)
      BY <2>2, <2>3, FileStorePut DEF ShapedFileStore
    <3> QED BY <1>2, <2>2, <2>4, <2>5, <3>1 DEF Keeps, o
<1> QED
  BY <1>1, <1>2

(* SetDefaultReplicasAndResources fills in its replicas and resources. *)
LEMMA FileStoreFilled ==
    ASSUME NEW fs, ShapedFileStore(fs)
    PROVE  LET new == FileStoreSetDefaultReplicasAndResources(fs)
               o == ManagedMinio(fs)
               n == ManagedMinio(new)
           IN /\ Keeps(fs, new)
              /\ ~isAnyExceptOperatorManaged(fs) =>
                    /\ n.StorageSize = o.StorageSize
                    /\ n.Replicas # {} /\ n.Resources # NoResources
                    /\ o.Replicas # {} => n.Replicas = o.Replicas
                    /\ o.Resources # NoResources => n.Resources = o.Resources
<1>1. CASE isAnyExceptOperatorManaged(fs)
  BY <1>1 DEF FileStoreSetDefaultReplicasAndResources, Keeps
<1>2. CASE ~isAnyExceptOperatorManaged(fs)
  <2> DEFINE o == ManagedMinio(fs)
             size == DefaultSize.Minio
             n == [o EXCEPT !.Replicas = OrSize(@, size.Replicas),
                            !.Resources = OrResources(@, size.Resources)]
  <2>1. IsRecord(o, ManagedMinioFields)
    BY ManagedMinioRecord
  <2>2. /\ IsRecord(n, ManagedMinioFields)
        /\ n.Replicas = OrSize(o.Replicas, size.Replicas)
        /\ n.Resources = OrResources(o.Resources, size.Resources)
        /\ n.StorageSize = o.StorageSize
    BY <2>1 DEF IsRecord, ManagedMinioFields
  <2>3. FileStoreSetDefaultReplicasAndResources(fs) = [fs EXCEPT !.OperatorManaged = {n}]
    BY <1>2 DEF FileStoreSetDefaultReplicasAndResources
  <2>4. size.Resources # NoResources
    BY SizesTyped DEF SizeType, ComponentSize
  <2> HIDE DEF n, o, size
  <2>5. /\ n.Replicas # {} /\ n.Resources # NoResources
        /\ o.Replicas # {} => n.Replicas = o.Replicas
        /\ o.Resources # NoResources => n.Resources = o.Resources
    BY <2>2, <2>4 DEF OrSize, OrResources
  <2> QED
    BY <1>2, <2>2, <2>3, <2>5, FileStorePut DEF ShapedFileStore, Keeps, o
<1> QED
  BY <1>1, <1>2

(* OverrideReplicasAndResourcesFromSize writes those of a size over them. *)
LEMMA FileStoreOverridden ==
    ASSUME NEW fs, ShapedFileStore(fs), NEW size \in SizeType
    PROVE  LET new == FileStoreOverrideReplicasAndResources(fs, size)
               o == ManagedMinio(fs)
               n == ManagedMinio(new)
           IN /\ Keeps(fs, new)
              /\ ~isAnyExceptOperatorManaged(fs) =>
                    /\ n.StorageSize = o.StorageSize
                    /\ n.Replicas # {} /\ n.Resources # NoResources
<1>1. CASE isAnyExceptOperatorManaged(fs)
  BY <1>1 DEF FileStoreOverrideReplicasAndResources, Keeps
<1>2. CASE ~isAnyExceptOperatorManaged(fs)
  <2> DEFINE o == ManagedMinio(fs)
             n == [o EXCEPT !.Replicas = {size.Minio.Replicas},
                            !.Resources = size.Minio.Resources]
  <2>1. IsRecord(o, ManagedMinioFields)
    BY ManagedMinioRecord
  <2>2. /\ IsRecord(n, ManagedMinioFields)
        /\ n.Replicas = {size.Minio.Replicas}
        /\ n.Resources = size.Minio.Resources
        /\ n.StorageSize = o.StorageSize
    BY <2>1 DEF IsRecord, ManagedMinioFields
  <2>3. FileStoreOverrideReplicasAndResources(fs, size) = [fs EXCEPT !.OperatorManaged = {n}]
    BY <1>2 DEF FileStoreOverrideReplicasAndResources
  <2>4. size.Minio.Resources # NoResources
    BY DEF SizeType, ComponentSize
  <2> HIDE DEF n, o
  <2>5. n.Replicas # {} /\ n.Resources # NoResources
    BY <2>2, <2>4
  <2> QED
    BY <1>2, <2>2, <2>3, <2>5, FileStorePut DEF ShapedFileStore, Keeps, o
<1> QED
  BY <1>1, <1>2

(* A file store that lacks nothing is left alone. *)
LEMMA FileStoreFixed ==
    ASSUME NEW fs, ShapedFileStore(fs), FileStoreSettled(fs)
    PROVE  /\ FileStoreSetDefaults(fs) = fs
           /\ FileStoreSetDefaultReplicasAndResources(fs) = fs
<1>1. CASE isAnyExceptOperatorManaged(fs)
  BY <1>1 DEF FileStoreSetDefaults, FileStoreSetDefaultReplicasAndResources
<1>2. CASE ~isAnyExceptOperatorManaged(fs)
  <2>1. PICK omm : /\ fs.OperatorManaged = {omm}
                   /\ omm.StorageSize # Unset
                   /\ omm.Replicas # {}
                   /\ omm.Resources # NoResources
    BY <1>2 DEF FileStoreSettled
  <2>2. ManagedMinio(fs) = omm /\ IsRecord(omm, ManagedMinioFields)
    <3>1. ManagedMinio(fs) = omm
      BY <2>1, DerefOne DEF ManagedMinio
    <3> QED BY <3>1, ManagedMinioRecord
  <2>3. [omm EXCEPT !.StorageSize = OrDefault(@, DefaultStorageSize)] = omm
    BY <2>1, <2>2 DEF IsRecord, ManagedMinioFields, OrDefault
  <2>4. \A size : [omm EXCEPT !.Replicas = OrSize(@, size.Replicas),
                              !.Resources = OrResources(@, size.Resources)] = omm
    BY <2>1, <2>2 DEF IsRecord, ManagedMinioFields, OrSize, OrResources
  <2>5. [fs EXCEPT !.OperatorManaged = {omm}] = fs
    BY <2>1 DEF ShapedFileStore, IsRecord, FileStoreFields
  <2>6. FileStoreSetDefaults(fs) = fs
    BY <1>2, <2>2, <2>3, <2>5 DEF FileStoreSetDefaults
  <2>7. FileStoreSetDefaultReplicasAndResources(fs) = [fs EXCEPT !.OperatorManaged =
            {[omm EXCEPT !.Replicas = OrSize(@, DefaultSize.Minio.Replicas),
                         !.Resources = OrResources(@, DefaultSize.Minio.Resources)]}]
    BY <1>2, <2>2 DEF FileStoreSetDefaultReplicasAndResources
  <2>8. FileStoreSetDefaultReplicasAndResources(fs) = fs
    BY <2>4, <2>5, <2>7
  <2> QED
    BY <2>6, <2>8
<1> QED
  BY <1>1, <1>2

-----------------------------------------------------------------------------
(* The whole spec. *)

(* The fields that defaults and sizes go into. *)
LEMMA ShapedParts ==
    ASSUME NEW m
    PROVE  Shaped(m) <=> /\ IsRecord(m, {"Name", "Spec"})
                         /\ IsRecord(m.Spec, SpecFields)
                         /\ IsRecord(m.Spec.Scheduling, {"Resources", "Placement"})
                         /\ ShapedDatabase(m.Spec.Database)
                         /\ ShapedFileStore(m.Spec.FileStore)
  BY DEF Shaped, ShapedDatabase, ShapedFileStore

(* The spec after SetDefaults, field by field. *)
LEMMA SetDefaultsFields ==
    ASSUME NEW m, Shaped(m)
    PROVE  LET n == SetDefaults(m)
           IN /\ IsRecord(n, {"Name", "Spec"})
              /\ n.Name = m.Name
              /\ IsRecord(n.Spec, SpecFields)
              /\ n.Spec.Image = OrDefault(m.Spec.Image, DefaultMattermostImage)
              /\ n.Spec.Version = OrDefault(m.Spec.Version, DefaultMattermostVersion)
              /\ n.Spec.ImagePullPolicy = OrDefault(m.Spec.ImagePullPolicy, DefaultPullPolicy)
              /\ n.Spec.FileStore = FileStoreSetDefaults(m.Spec.FileStore)
              /\ n.Spec.Database = DatabaseSetDefaults(m.Spec.Database)
              /\ n.Spec.Size = m.Spec.Size
              /\ n.Spec.Replicas = m.Spec.Replicas
              /\ n.Spec.Scheduling = m.Spec.Scheduling
              /\ \A f \in SpecFields \ FilledIn : n.Spec[f] = m.Spec[f]
<1> DEFINE new == [m.Spec EXCEPT !.Image = OrDefault(@, DefaultMattermostImage),
                            !.Version = OrDefault(@, DefaultMattermostVersion),
                            !.ImagePullPolicy = OrDefault(@, DefaultPullPolicy),
                            !.FileStore = FileStoreSetDefaults(@),
                            !.Database = DatabaseSetDefaults(@)]
<1>1. SetDefaults(m) = [m EXCEPT !.Spec = new]
  BY DEF SetDefaults
<1>2. IsRecord(new, SpecFields)
  BY DEF Shaped, IsRecord, SpecFields
<1>3. /\ new.Image = OrDefault(m.Spec.Image, DefaultMattermostImage)
      /\ new.Version = OrDefault(m.Spec.Version, DefaultMattermostVersion)
      /\ new.ImagePullPolicy = OrDefault(m.Spec.ImagePullPolicy, DefaultPullPolicy)
      /\ new.FileStore = FileStoreSetDefaults(m.Spec.FileStore)
      /\ new.Database = DatabaseSetDefaults(m.Spec.Database)
      /\ new.Size = m.Spec.Size
      /\ new.Replicas = m.Spec.Replicas
      /\ new.Scheduling = m.Spec.Scheduling
      /\ \A f \in SpecFields \ FilledIn : new[f] = m.Spec[f]
  BY DEF Shaped, IsRecord, SpecFields, FilledIn
<1> HIDE DEF new
<1>4. LET n == [m EXCEPT !.Spec = new]
      IN IsRecord(n, {"Name", "Spec"}) /\ n.Name = m.Name /\ n.Spec = new
  BY DEF Shaped, IsRecord
<1> QED
  BY <1>1, <1>2, <1>3, <1>4

(* The spec after setDefaultReplicasAndResources, field by field. *)
LEMMA DefaultSizeFields ==
    ASSUME NEW m, Shaped(m)
    PROVE  LET n == setDefaultReplicasAndResources(m)
           IN /\ IsRecord(n, {"Name", "Spec"})
              /\ n.Name = m.Name
              /\ IsRecord(n.Spec, SpecFields)
              /\ n.Spec.Size = Unset
              /\ n.Spec.Replicas = OrSize(m.Spec.Replicas, DefaultSize.App.Replicas)
              /\ n.Spec.Scheduling = [m.Spec.Scheduling EXCEPT !.Resources =
                                        OrResources(@, DefaultSize.App.Resources)]
              /\ n.Spec.FileStore = FileStoreSetDefaultReplicasAndResources(m.Spec.FileStore)
              /\ n.Spec.Database = DatabaseSetDefaultReplicasAndResources(m.Spec.Database)
              /\ n.Spec.Image = m.Spec.Image
              /\ n.Spec.Version = m.Spec.Version
              /\ n.Spec.ImagePullPolicy = m.Spec.ImagePullPolicy
              /\ \A f \in SpecFields \ FilledIn : n.Spec[f] = m.Spec[f]
<1> DEFINE new == [m.Spec EXCEPT
                    !.Size = Unset,
                    !.Replicas = OrSize(@, DefaultSize.App.Replicas),
                    !.Scheduling = [m.Spec.Scheduling EXCEPT !.Resources =
                                        OrResources(@, DefaultSize.App.Resources)],
                    !.FileStore = FileStoreSetDefaultReplicasAndResources(@),
                    !.Database = DatabaseSetDefaultReplicasAndResources(@)]
<1>1. setDefaultReplicasAndResources(m) = [m EXCEPT !.Spec = new]
  BY DEF setDefaultReplicasAndResources
<1>2. IsRecord(new, SpecFields)
  BY DEF Shaped, IsRecord, SpecFields
<1>3. /\ new.Size = Unset
      /\ new.Replicas = OrSize(m.Spec.Replicas, DefaultSize.App.Replicas)
      /\ new.FileStore = FileStoreSetDefaultReplicasAndResources(m.Spec.FileStore)
      /\ new.Database = DatabaseSetDefaultReplicasAndResources(m.Spec.Database)
      /\ new.Image = m.Spec.Image
      /\ new.Version = m.Spec.Version
      /\ new.ImagePullPolicy = m.Spec.ImagePullPolicy
      /\ \A f \in SpecFields \ FilledIn : new[f] = m.Spec[f]
  BY DEF Shaped, IsRecord, SpecFields, FilledIn
<1>5. new.Scheduling = [m.Spec.Scheduling EXCEPT !.Resources =
                            OrResources(@, DefaultSize.App.Resources)]
  BY DEF Shaped, IsRecord, SpecFields
<1> HIDE DEF new
<1>4. LET n == [m EXCEPT !.Spec = new]
      IN IsRecord(n, {"Name", "Spec"}) /\ n.Name = m.Name /\ n.Spec = new
  BY DEF Shaped, IsRecord
<1> QED
  BY <1>1, <1>2, <1>3, <1>4, <1>5

(* What overrideReplicasAndResourcesFromSize writes, *)
LEMMA OverrideSets ==
    ASSUME NEW m, Shaped(m), NEW size, NEW n, n = overrideReplicasAndResourcesFromSize(m, size)
    PROVE  /\ n.Spec.Replicas = {size.App.Replicas}
           /\ n.Spec.Scheduling = [m.Spec.Scheduling EXCEPT !.Resources = size.App.Resources]
           /\ n.Spec.FileStore = FileStoreOverrideReplicasAndResources(m.Spec.FileStore, size)
           /\ n.Spec.Database = DatabaseOverrideReplicasAndResources(m.Spec.Database, size)
<1> DEFINE new == [m.Spec EXCEPT
                    !.Size = Unset,
                    !.Replicas = {size.App.Replicas},
                    !.Scheduling = [m.Spec.Scheduling EXCEPT !.Resources = size.App.Resources],
                    !.FileStore = FileStoreOverrideReplicasAndResources(@, size),
                    !.Database = DatabaseOverrideReplicasAndResources(@, size)]
<1>1. n = [m EXCEPT !.Spec = new]
  BY DEF overrideReplicasAndResourcesFromSize
<1>2. /\ new.Replicas = {size.App.Replicas}
      /\ new.Scheduling = [m.Spec.Scheduling EXCEPT !.Resources = size.App.Resources]
      /\ new.FileStore = FileStoreOverrideReplicasAndResources(m.Spec.FileStore, size)
      /\ new.Database = DatabaseOverrideReplicasAndResources(m.Spec.Database, size)
  BY DEF Shaped, IsRecord, SpecFields
<1> HIDE DEF new
<1>3. n.Spec = new
  BY <1>1 DEF Shaped, IsRecord
<1> QED
  BY <1>2, <1>3

(* and what it leaves alone. *)
LEMMA OverrideKeeps ==
    ASSUME NEW m, Shaped(m), NEW size, NEW n, n = overrideReplicasAndResourcesFromSize(m, size)
    PROVE  /\ IsRecord(n, {"Name", "Spec"})
           /\ n.Name = m.Name
           /\ IsRecord(n.Spec, SpecFields)
           /\ n.Spec.Size = Unset
           /\ n.Spec.Image = m.Spec.Image
           /\ n.Spec.Version = m.Spec.Version
           /\ n.Spec.ImagePullPolicy = m.Spec.ImagePullPolicy
           /\ \A f \in SpecFields \ FilledIn : n.Spec[f] = m.Spec[f]
<1> DEFINE new == [m.Spec EXCEPT
                    !.Size = Unset,
                    !.Replicas = {size.App.Replicas},
                    !.Scheduling = [m.Spec.Scheduling EXCEPT !.Resources = size.App.Resources],
                    !.FileStore = FileStoreOverrideReplicasAndResources(@, size),
                    !.Database = DatabaseOverrideReplicasAndResources(@, size)]
<1>1. n = [m EXCEPT !.Spec = new]
  BY DEF overrideReplicasAndResourcesFromSize
<1>2. /\ IsRecord(new, SpecFields)
      /\ new.Size = Unset
      /\ new.Image = m.Spec.Image
      /\ new.Version = m.Spec.Version
      /\ new.ImagePullPolicy = m.Spec.ImagePullPolicy
      /\ \A f \in SpecFields \ FilledIn : new[f] = m.Spec[f]
  BY DEF Shaped, IsRecord, SpecFields, FilledIn
<1> HIDE DEF new
<1>3. IsRecord(n, {"Name", "Spec"}) /\ n.Name = m.Name /\ n.Spec = new
  BY <1>1 DEF Shaped, IsRecord
<1> QED
  BY <1>2, <1>3

(* With its defaults and its size a database lacks nothing. *)
DatabaseDescribed(db) ==
    DatabaseIsExternal(db) \/
        LET omd == ManagedDatabase(db)
        IN omd.Type # Unset /\ omd.StorageSize # Unset /\ omd.Version # Unset

(* Defaults and a size together leave no gap in the database, *)
LEMMA DatabaseSettles ==
    ASSUME NEW db, ShapedDatabase(db), DatabaseDescribed(db), NEW size \in SizeType, NEW new,
           \/ new = DatabaseSetDefaultReplicasAndResources(db)
           \/ new = DatabaseOverrideReplicasAndResources(db, size)
    PROVE  ShapedDatabase(new) /\ DatabaseSettled(new)
<1>1. Manages(db, new)
  BY DatabaseFilled, DatabaseOverridden
<1>2. CASE DatabaseIsExternal(db)
  BY <1>1, <1>2 DEF Manages, DatabaseSettled
<1>3. CASE ~DatabaseIsExternal(db)
  <2> DEFINE o == ManagedDatabase(db)
             n == ManagedDatabase(new)
  <2>1. /\ n.Type = o.Type /\ n.StorageSize = o.StorageSize /\ n.Version = o.Version
        /\ n.Replicas # {} /\ n.Resources # NoResources
    BY <1>3, DatabaseFilled, DatabaseOverridden
  <2>2. o.Type # Unset /\ o.StorageSize # Unset /\ o.Version # Unset
    BY <1>3 DEF DatabaseDescribed
  <2>3. new.OperatorManaged = {n} /\ ShapedDatabase(new)
    BY <1>1, <1>3 DEF Manages
  <2> HIDE DEF n, o
  <2> QED BY <2>1, <2>2, <2>3 DEF DatabaseSettled
<1> QED
  BY <1>2, <1>3

(* A file store that has its storage, when that is managed. *)
FileStoreDescribed(fs) ==
    isAnyExceptOperatorManaged(fs) \/ ManagedMinio(fs).StorageSize # Unset

(* nor in the file store. *)
LEMMA FileStoreSettles ==
    ASSUME NEW fs, ShapedFileStore(fs), FileStoreDescribed(fs), NEW size \in SizeType, NEW new,
           \/ new = FileStoreSetDefaultReplicasAndResources(fs)
           \/ new = FileStoreOverrideReplicasAndResources(fs, size)
    PROVE  ShapedFileStore(new) /\ FileStoreSettled(new)
<1>1. Keeps(fs, new)
  BY FileStoreFilled, FileStoreOverridden
<1>2. CASE isAnyExceptOperatorManaged(fs)
  BY <1>1, <1>2 DEF Keeps, FileStoreSettled
<1>3. CASE ~isAnyExceptOperatorManaged(fs)
  <2> DEFINE o == ManagedMinio(fs)
             n == ManagedMinio(new)
  <2>1. /\ n.StorageSize = o.StorageSize
        /\ n.Replicas # {} /\ n.Resources # NoResources
    BY <1>3, FileStoreFilled, FileStoreOverridden
  <2>2. o.StorageSize # Unset
    BY <1>3 DEF FileStoreDescribed
  <2>3. new.OperatorManaged = {n} /\ ShapedFileStore(new)
    BY <1>1, <1>3 DEF Keeps
  <2> HIDE DEF n, o
  <2> QED BY <2>1, <2>2, <2>3 DEF FileStoreSettled
<1> QED
  BY <1>2, <1>3

(* What a pass makes of a spec has no gaps, and keeps what is not a        *)
(* matter of defaults.                                                     *)
LEMMA NormalisedSettled ==
    ASSUME NEW m, Shaped(m)
    PROVE  LET n == Normalised(m)
           IN /\ Shaped(n)
              /\ Settled(n)
              /\ n.Name = m.Name
              /\ \A f \in SpecFields \ FilledIn : n.Spec[f] = m.Spec[f]
<1> DEFINE d == SetDefaults(m)
           n == Normalised(m)
           size == Deref(GetClusterSize(d.Spec.Size), DefaultSize)
           ByDefault == d.Spec.Size = Unset \/ GetClusterSize(d.Spec.Size) = {}
<1>1. /\ d.Name = m.Name
      /\ d.Spec.Image # Unset /\ d.Spec.Version # Unset /\ d.Spec.ImagePullPolicy # Unset
      /\ \A f \in SpecFields \ FilledIn : d.Spec[f] = m.Spec[f]
  BY SetDefaultsFields, OrDefaultSet, DefaultsSet
<1>2. Shaped(d)
  BY SetDefaultsFields, ShapedParts, DatabaseDefaulted, FileStoreDefaulted DEF Manages, Keeps
<1>3. ShapedDatabase(d.Spec.Database) /\ DatabaseDescribed(d.Spec.Database)
  BY SetDefaultsFields, ShapedParts, DatabaseDefaulted DEF Manages, DatabaseDescribed
<1>4. ShapedFileStore(d.Spec.FileStore) /\ FileStoreDescribed(d.Spec.FileStore)
  BY SetDefaultsFields, ShapedParts, FileStoreDefaulted DEF Keeps, FileStoreDescribed
<1>5. size \in SizeType
  <2>1. CASE GetClusterSize(d.Spec.Size) = {}
    BY <2>1, SizesTyped DEF Deref
  <2>2. CASE GetClusterSize(d.Spec.Size) # {}
    BY <2>2, SizesTyped DEF Deref
  <2> QED BY <2>1, <2>2
<1>6. n = IF ByDefault THEN setDefaultReplicasAndResources(d)
          ELSE overrideReplicasAndResourcesFromSize(d, size)
  BY DEF Normalised, SetReplicasAndResourcesFromSize
<1> HIDE DEF d, n, size
<1>7. CASE ByDefault
  <2>1. n = setDefaultReplicasAndResources(d)
    BY <1>6, <1>7
  <2>2. /\ ShapedDatabase(n.Spec.Database)
        /\ DatabaseSettled(n.Spec.Database)
    <3>1. n.Spec.Database = DatabaseSetDefaultReplicasAndResources(d.Spec.Database)
      BY <1>2, <2>1, DefaultSizeFields
    <3> QED BY <1>3, <1>5, <3>1, DatabaseSettles
  <2>3. /\ ShapedFileStore(n.Spec.FileStore)
        /\ FileStoreSettled(n.Spec.FileStore)
    <3>1. n.Spec.FileStore = FileStoreSetDefaultReplicasAndResources(d.Spec.FileStore)
      BY <1>2, <2>1, DefaultSizeFields
    <3> QED BY <1>4, <1>5, <3>1, FileStoreSettles
  <2>4. /\ IsRecord(n.Spec.Scheduling, {"Resources", "Placement"})
        /\ n.Spec.Scheduling.Resources # NoResources
    <3>1. DefaultSize.App.Resources # NoResources
      BY SizesTyped DEF SizeType, ComponentSize
    <3>2. n.Spec.Scheduling = [d.Spec.Scheduling EXCEPT !.Resources =
                                OrResources(@, DefaultSize.App.Resources)]
      BY <1>2, <2>1, DefaultSizeFields
    <3>3. IsRecord(d.Spec.Scheduling, {"Resources", "Placement"})
      BY <1>2, ShapedParts
    <3> QED BY <3>1, <3>2, <3>3 DEF IsRecord, OrResources
  <2>5. n.Spec.Replicas # {}
    BY <1>2, <2>1, DefaultSizeFields DEF OrSize
  <2>6. /\ IsRecord(n, {"Name", "Spec"})
        /\ IsRecord(n.Spec, SpecFields)
        /\ n.Name = m.Name
        /\ n.Spec.Size = Unset
        /\ n.Spec.Image # Unset /\ n.Spec.Version # Unset /\ n.Spec.ImagePullPolicy # Unset
        /\ \A f \in SpecFields \ FilledIn : n.Spec[f] = m.Spec[f]
    BY <1>1, <1>2, <2>1, DefaultSizeFields
  <2>7. Shaped(n)
    BY <2>2, <2>3, <2>4, <2>6, ShapedParts
  <2>8. Settled(n)
    BY <2>2, <2>3, <2>4, <2>5, <2>6 DEF Settled
  <2> QED
    BY <2>6, <2>7, <2>8 DEF n
<1>8. CASE ~ByDefault
  <2>1. n = overrideReplicasAndResourcesFromSize(d, size)
    BY <1>6, <1>8
  <2>0. /\ n.Spec.Replicas = {size.App.Replicas}
        /\ n.Spec.Scheduling = [d.Spec.Scheduling EXCEPT !.Resources = size.App.Resources]
        /\ n.Spec.FileStore = FileStoreOverrideReplicasAndResources(d.Spec.FileStore, size)
        /\ n.Spec.Database = DatabaseOverrideReplicasAndResources(d.Spec.Database, size)
    BY <1>2, <2>1, OverrideSets
  <2>2. /\ ShapedDatabase(n.Spec.Database)
        /\ DatabaseSettled(n.Spec.Database)
    BY <1>3, <1>5, <2>0, DatabaseSettles
  <2>3. /\ ShapedFileStore(n.Spec.FileStore)
        /\ FileStoreSettled(n.Spec.FileStore)
    BY <1>4, <1>5, <2>0, FileStoreSettles
  <2>4. /\ IsRecord(n.Spec.Scheduling, {"Resources", "Placement"})
        /\ n.Spec.Scheduling.Resources # NoResources
    <3>1. size.App.Resources # NoResources
      BY <1>5 DEF SizeType, ComponentSize
    <3>3. IsRecord(d.Spec.Scheduling, {"Resources", "Placement"})
      BY <1>2, ShapedParts
    <3> QED BY <2>0, <3>1, <3>3 DEF IsRecord
  <2>5. n.Spec.Replicas # {}
    BY <2>0
  <2>6. /\ IsRecord(n, {"Name", "Spec"})
        /\ IsRecord(n.Spec, SpecFields)
        /\ n.Name = m.Name
        /\ n.Spec.Size = Unset
        /\ n.Spec.Image # Unset /\ n.Spec.Version # Unset /\ n.Spec.ImagePullPolicy # Unset
        /\ \A f \in SpecFields \ FilledIn : n.Spec[f] = m.Spec[f]
    BY <1>1, <1>2, <2>1, OverrideKeeps
  <2>7. Shaped(n)
    BY <2>2, <2>3, <2>4, <2>6, ShapedParts
  <2>8. Settled(n)
    BY <2>2, <2>3, <2>4, <2>5, <2>6 DEF Settled
  <2> QED
    BY <2>6, <2>7, <2>8 DEF n
<1> QED
  BY <1>7, <1>8

(* Records with the same fields and values are equal. *)
LEMMA RecordsEqual ==
    ASSUME NEW fields, NEW r, IsRecord(r, fields), NEW t, IsRecord(t, fields),
           \A f \in fields : r[f] = t[f]
    PROVE  r = t
  BY DEF IsRecord

(* A spec without gaps is left as it is. *)
LEMMA SettledFixed ==
    ASSUME NEW m, Shaped(m), Settled(m)
    PROVE  Normalised(m) = m
<1> DEFINE d == SetDefaults(m)
           n == setDefaultReplicasAndResources(m)
<1>1. d = m
  <2>0. /\ IsRecord(d, {"Name", "Spec"}) /\ d.Name = m.Name
        /\ IsRecord(d.Spec, SpecFields)
        /\ \A f \in SpecFields \ FilledIn : d.Spec[f] = m.Spec[f]
        /\ d.Spec.Size = m.Spec.Size /\ d.Spec.Replicas = m.Spec.Replicas
        /\ d.Spec.Scheduling = m.Spec.Scheduling
    BY SetDefaultsFields
  <2>1. d.Spec.FileStore = m.Spec.FileStore /\ d.Spec.Database = m.Spec.Database
    BY SetDefaultsFields, ShapedParts, DatabaseFixed, FileStoreFixed DEF Settled
  <2>2. /\ d.Spec.Image = m.Spec.Image
        /\ d.Spec.Version = m.Spec.Version
        /\ d.Spec.ImagePullPolicy = m.Spec.ImagePullPolicy
    BY SetDefaultsFields DEF Settled, OrDefault
  <2> HIDE DEF d
  <2>3. \A f \in SpecFields : d.Spec[f] = m.Spec[f]
    BY <2>0, <2>1, <2>2 DEF FilledIn
  <2>4. d.Spec = m.Spec
    BY <2>0, <2>3, ShapedParts, RecordsEqual
  <2>5. IsRecord(m, {"Name", "Spec"})
    BY ShapedParts
  <2> QED
    BY <2>0, <2>4, <2>5 DEF IsRecord
<1>2. n = m
  <2>0. /\ IsRecord(n, {"Name", "Spec"}) /\ n.Name = m.Name
        /\ IsRecord(n.Spec, SpecFields)
        /\ \A f \in SpecFields \ FilledIn : n.Spec[f] = m.Spec[f]
        /\ n.Spec.Image = m.Spec.Image /\ n.Spec.Version = m.Spec.Version
        /\ n.Spec.ImagePullPolicy = m.Spec.ImagePullPolicy
    BY DefaultSizeFields
  <2>1. n.Spec.FileStore = m.Spec.FileStore /\ n.Spec.Database = m.Spec.Database
    BY DefaultSizeFields, ShapedParts, DatabaseFixed, FileStoreFixed DEF Settled
  <2>2. n.Spec.Size = m.Spec.Size /\ n.Spec.Replicas = m.Spec.Replicas
    BY DefaultSizeFields DEF Settled, OrSize
  <2>3. n.Spec.Scheduling = m.Spec.Scheduling
    <3>1. n.Spec.Scheduling = [m.Spec.Scheduling EXCEPT !.Resources =
                                OrResources(@, DefaultSize.App.Resources)]
      BY DefaultSizeFields
    <3>2. IsRecord(m.Spec.Scheduling, {"Resources", "Placement"})
      BY ShapedParts
    <3>3. m.Spec.Scheduling.Resources # NoResources
      BY DEF Settled
    <3> QED BY <3>1, <3>2, <3>3 DEF IsRecord, OrResources
  <2> HIDE DEF n
  <2>4. \A f \in SpecFields : n.Spec[f] = m.Spec[f]
    BY <2>0, <2>1, <2>2, <2>3 DEF FilledIn
  <2>5. n.Spec = m.Spec
    BY <2>0, <2>4, ShapedParts, RecordsEqual
  <2>6. IsRecord(m, {"Name", "Spec"})
    BY ShapedParts
  <2> QED
    BY <2>0, <2>5, <2>6 DEF IsRecord
<1> QED
  BY <1>1, <1>2 DEF Normalised, SetReplicasAndResourcesFromSize, Settled

(* Whether a spec is rejected does not depend on what is filled in. *)
LEMMA NormalisedAccepted ==
    ASSUME NEW m, Shaped(m)
    PROVE  SetDefaultsFails(Normalised(m)) = SetDefaultsFails(m)
<1> DEFINE n == Normalised(m)
<1>1. \A f \in SpecFields \ FilledIn : n.Spec[f] = m.Spec[f]
  BY NormalisedSettled
<1>2. /\ n.Spec.AWSLoadBalancerController = m.Spec.AWSLoadBalancerController
      /\ n.Spec.Ingress = m.Spec.Ingress
      /\ n.Spec.IngressName = m.Spec.IngressName
      /\ n.Spec.Volumes = m.Spec.Volumes
  BY <1>1 DEF SpecFields, FilledIn
<1> HIDE DEF n
<1> QED
  BY <1>2 DEF SetDefaultsFails, AWSLoadBalancerEnabled, GetAWSLoadBalancerHostNames,
              IngressEnabled, GetIngressHost, n

-----------------------------------------------------------------------------
(* The two kinds of installation share the helpers, the vocabulary and the *)
(* table of sizes: what is proved of the one copy holds for the other.     *)
LEMMA SameVocabulary ==
    /\ CI!Unset = Unset
    /\ CI!NoResources = NoResources
    /\ CI!DefaultSize = DefaultSize
    /\ \A key : CI!GetClusterSize(key) = GetClusterSize(key)
    /\ \A x, y : CI!OrDefault(x, y) = OrDefault(x, y)
    /\ \A x, y : CI!OrResources(x, y) = OrResources(x, y)
    /\ \A x, y : CI!Deref(x, y) = Deref(x, y)
<1>1. \A r, c, m, cl, ml : CI!Limited(r, c, m, cl, ml) = Limited(r, c, m, cl, ml)
  BY DEF CI!Limited, Limited
<1>2. \A r, c, m : CI!Unlimited(r, c, m) = Unlimited(r, c, m)
  BY <1>1 DEF CI!Unlimited, Unlimited
<1>3. \A a, b, c : CI!Sized(a, b, c) = Sized(a, b, c)
  BY DEF CI!Sized, Sized
<1>4. /\ CI!cloudSize10 = cloudSize10 /\ CI!cloudSize100 = cloudSize100
      /\ CI!size100 = size100 /\ CI!size1000 = size1000 /\ CI!size5000 = size5000
      /\ CI!size10000 = size10000 /\ CI!size25000 = size25000
      /\ CI!sizeMiniSingleton = sizeMiniSingleton /\ CI!sizeMiniHA = sizeMiniHA
  BY <1>1, <1>2, <1>3
     DEF CI!cloudSize10, cloudSize10, CI!cloudSize100, cloudSize100, CI!size100, size100,
         CI!size1000, size1000, CI!size5000, size5000, CI!size10000, size10000,
         CI!size25000, size25000, CI!sizeMiniSingleton, sizeMiniSingleton, CI!sizeMiniHA, sizeMiniHA
<1>5. CI!validSizes = validSizes
  BY <1>4 DEF CI!validSizes, validSizes, CI!SizeNames, SizeNames
<1>6. \A key : CI!GetClusterSize(key) = GetClusterSize(key)
  BY <1>5 DEF CI!GetClusterSize, GetClusterSize, CI!SizeNames, SizeNames
<1>7. CI!DefaultSize = DefaultSize
  BY <1>4 DEF CI!DefaultSize, DefaultSize
<1>8. CI!Unset = Unset
  BY DEF CI!Unset, Unset
<1>9. CI!NoResources = NoResources
  BY DEF CI!NoResources, NoResources
<1>10. \A x, y : CI!OrDefault(x, y) = OrDefault(x, y)
  BY <1>8 DEF CI!OrDefault, OrDefault
<1>11. \A x, y : CI!OrResources(x, y) = OrResources(x, y)
  BY <1>9 DEF CI!OrResources, OrResources
<1>12. \A x, y : CI!Deref(x, y) = Deref(x, y)
  BY DEF CI!Deref, Deref
<1> QED
  BY <1>6, <1>7, <1>8, <1>9, <1>10, <1>11, <1>12

(* The fields of a ClusterInstallation spec and of its parts. *)
CISpecFields ==
    {"Image", "Version", "Size", "Replicas", "Resources", "IngressName",
     "MattermostLicenseSecret", "Placement", "Minio", "Database", "BlueGreen", "Canary",
     "ElasticSearch", "UseServiceLoadBalancer", "ServiceAnnotations", "UseIngressTLS",
     "ResourceLabels", "IngressAnnotations", "MattermostEnv", "LivenessProbe",
     "ReadinessProbe", "ImagePullPolicy"}

CIMinioFields ==
    {"StorageSize", "Replicas", "Resources", "ExternalURL", "ExternalBucket", "Secret"}

CIDatabaseFields ==
    {"Type", "Secret", "StorageSize", "Replicas", "Resources", "InitBucketURL", "Backup",
     "BackupRestoreSecretName", "Version"}

AppFields == {"Name", "IngressName", "Image", "Version", "ResourceLabels"}

(* The shape of the two deployments of blue/green and of the canary. *)
ShapedBlueGreen(bg) ==
    /\ IsRecord(bg, {"ProductionDeployment", "Enable", "Blue", "Green"})
    /\ IsRecord(bg.Blue, AppFields)
    /\ IsRecord(bg.Green, AppFields)

ShapedCanary(canary) ==
    /\ IsRecord(canary, {"Enable", "Deployment"})
    /\ IsRecord(canary.Deployment, AppFields)

(* A ClusterInstallation with the fields of its schema. *)
CIShaped(c) ==
    /\ IsRecord(c, {"Name", "Spec"})
    /\ IsRecord(c.Spec, CISpecFields)
    /\ IsRecord(c.Spec.Minio, CIMinioFields)
    /\ IsRecord(c.Spec.Database, CIDatabaseFields)
    /\ ShapedBlueGreen(c.Spec.BlueGreen)
    /\ ShapedCanary(c.Spec.Canary)

(* A MinIO, a database and a ClusterInstallation without gaps. A database  *)
(* that starts from a backup may keep its 0 replicas.                      *)
CIMinioSettled(mi) ==
    mi.StorageSize # Unset /\ mi.Replicas # 0 /\ mi.Resources # NoResources

CIDatabaseSettled(db) ==
    /\ db.Type # Unset
    /\ db.StorageSize # Unset
    /\ db.Type = CI!DefaultMattermostDatabaseType => db.Version # Unset
    /\ db.InitBucketURL = Unset => db.Replicas # 0
    /\ db.Resources # NoResources

CISettled(c) ==
    /\ c.Spec.Size = Unset
    /\ c.Spec.Image # Unset
    /\ c.Spec.Version # Unset
    /\ c.Spec.ImagePullPolicy # Unset
    /\ c.Spec.Replicas # 0
    /\ c.Spec.Resources # NoResources
    /\ CIMinioSettled(c.Spec.Minio)
    /\ CIDatabaseSettled(c.Spec.Database)
    /\ CI!BlueGreenSetDefaults(c.Spec.BlueGreen, c) = c.Spec.BlueGreen
    /\ CI!CanarySetDefaults(c.Spec.Canary, c) = c.Spec.Canary

(* A ClusterInstallation that passes its schema has its shape. *)
LEMMA CITypedShaped ==
    ASSUME NEW c \in CI!ClusterInstallation
    PROVE  CIShaped(c)
<1>1. /\ IsRecord(c, {"Name", "Spec"})
      /\ IsRecord(c.Spec, CISpecFields)
  BY DEF IsRecord, CI!ClusterInstallation, CI!ClusterInstallationSpecType, CISpecFields
<1>2. /\ c.Spec.Minio \in CI!Minio
      /\ c.Spec.Database \in CI!Database
      /\ c.Spec.BlueGreen \in CI!BlueGreen
      /\ c.Spec.Canary \in CI!Canary
  BY DEF CI!ClusterInstallation, CI!ClusterInstallationSpecType
<1>3. IsRecord(c.Spec.Minio, CIMinioFields)
  BY <1>2 DEF IsRecord, CI!Minio, CIMinioFields
<1>4. IsRecord(c.Spec.Database, CIDatabaseFields)
  BY <1>2 DEF IsRecord, CI!Database, CIDatabaseFields
<1>5. \A d \in CI!AppDeployment : IsRecord(d, AppFields)
  BY DEF IsRecord, CI!AppDeployment, AppFields
<1>6. ShapedBlueGreen(c.Spec.BlueGreen)
  <2>1. /\ c.Spec.BlueGreen.Blue \in CI!AppDeployment
        /\ c.Spec.BlueGreen.Green \in CI!AppDeployment
        /\ IsRecord(c.Spec.BlueGreen, {"ProductionDeployment", "Enable", "Blue", "Green"})
    BY <1>2 DEF CI!BlueGreen, IsRecord
  <2> QED BY <1>5, <2>1 DEF ShapedBlueGreen
<1>7. ShapedCanary(c.Spec.Canary)
  <2>1. /\ c.Spec.Canary.Deployment \in CI!AppDeployment
        /\ IsRecord(c.Spec.Canary, {"Enable", "Deployment"})
    BY <1>2 DEF CI!Canary, IsRecord
  <2> QED BY <1>5, <2>1 DEF ShapedCanary
<1> QED
  BY <1>1, <1>3, <1>4, <1>6, <1>7 DEF CIShaped

(* The names of blue, green and the canary are made up once: what is       *)
(* filled in depends on the name and the host of the installation only.    *)
LEMMA OrDefaultTwice ==
    ASSUME NEW value, NEW default
    PROVE  CI!OrDefault(CI!OrDefault(value, default), default) = CI!OrDefault(value, default)
  BY DEF CI!OrDefault

(* A name in lower case stays as it is. *)
LEMMA ToLowerTwice ==
    ASSUME NEW name
    PROVE  CI!ToLower(CI!ToLower(name)) = CI!ToLower(name)
<1>1. CASE name \in {"blue", "Blue", "BLUE"}
  BY <1>1 DEF CI!ToLower, CI!BlueName
<1>2. CASE name \in {"green", "Green", "GREEN"}
  BY <1>2 DEF CI!ToLower, CI!GreenName
<1>3. CASE name \notin {"blue", "Blue", "BLUE", "green", "Green", "GREEN"}
  BY <1>3 DEF CI!ToLower
<1> QED
  BY <1>1, <1>2, <1>3

(* BlueGreen.SetDefaults done twice is done once, also when the rest of    *)
(* the spec has been filled in between, and its checks have the same       *)
(* result.                                                                 *)
LEMMA BlueGreenDefaulted ==
    ASSUME NEW bg, ShapedBlueGreen(bg), NEW c, NEW d,
           d.Name = c.Name, d.Spec.IngressName = c.Spec.IngressName
    PROVE  LET new == CI!BlueGreenSetDefaults(bg, c)
           IN /\ ShapedBlueGreen(new)
              /\ CI!BlueGreenSetDefaults(new, d) = new
              /\ CI!BlueGreenSetDefaultsFails(new) = CI!BlueGreenSetDefaultsFails(bg)
              /\ new.Enable = bg.Enable
<1> DEFINE green == [bg.Green EXCEPT
                        !.Name = CI!OrDefault(@, c.Name \o "-green"),
                        !.IngressName = CI!OrDefault(@, "green." \o c.Spec.IngressName)]
           blue == [bg.Blue EXCEPT
                        !.Name = CI!OrDefault(@, c.Name \o "-blue"),
                        !.IngressName = CI!OrDefault(@, "blue." \o c.Spec.IngressName)]
           new == [bg EXCEPT !.ProductionDeployment = CI!ToLower(@),
                             !.Green = green,
                             !.Blue = blue]
<1>1. CASE ~bg.Enable
  BY <1>1 DEF CI!BlueGreenSetDefaults
<1>2. CASE bg.Enable
  <2>1. CI!BlueGreenSetDefaults(bg, c) = new
    BY <1>2 DEF CI!BlueGreenSetDefaults
  <2>2. /\ IsRecord(green, AppFields)
        /\ green.Name = CI!OrDefault(bg.Green.Name, c.Name \o "-green")
        /\ green.IngressName = CI!OrDefault(bg.Green.IngressName, "green." \o c.Spec.IngressName)
        /\ green.Image = bg.Green.Image /\ green.Version = bg.Green.Version
    BY DEF ShapedBlueGreen, IsRecord, AppFields
  <2>3. /\ IsRecord(blue, AppFields)
        /\ blue.Name = CI!OrDefault(bg.Blue.Name, c.Name \o "-blue")
        /\ blue.IngressName = CI!OrDefault(bg.Blue.IngressName, "blue." \o c.Spec.IngressName)
        /\ blue.Image = bg.Blue.Image /\ blue.Version = bg.Blue.Version
    BY DEF ShapedBlueGreen, IsRecord, AppFields
  <2> HIDE DEF green, blue
  <2>4. /\ IsRecord(new, {"ProductionDeployment", "Enable", "Blue", "Green"})
        /\ new.ProductionDeployment = CI!ToLower(bg.ProductionDeployment)
        /\ new.Enable = bg.Enable
        /\ new.Green = green /\ new.Blue = blue
    BY DEF ShapedBlueGreen, IsRecord
  <2> HIDE DEF new
  <2>5. ShapedBlueGreen(new)
    BY <2>2, <2>3, <2>4 DEF ShapedBlueGreen
  <2>6. CI!BlueGreenSetDefaultsFails(new) = CI!BlueGreenSetDefaultsFails(bg)
    BY <1>2, <2>2, <2>3, <2>4, ToLowerTwice DEF CI!BlueGreenSetDefaultsFails
  <2>7. CI!BlueGreenSetDefaults(new, d) = new
    <3>1. [green EXCEPT
            !.Name = CI!OrDefault(@, d.Name \o "-green"),
            !.IngressName = CI!OrDefault(@, "green." \o d.Spec.IngressName)] = green
      <4>1. CI!OrDefault(green.Name, d.Name \o "-green") = green.Name
        BY <2>2, OrDefaultTwice
      <4>2. CI!OrDefault(green.IngressName, "green." \o d.Spec.IngressName) = green.IngressName
        BY <2>2, OrDefaultTwice
      <4> QED BY <2>2, <4>1, <4>2 DEF IsRecord, AppFields
    <3>2. [blue EXCEPT
            !.Name = CI!OrDefault(@, d.Name \o "-blue"),
            !.IngressName = CI!OrDefault(@, "blue." \o d.Spec.IngressName)] = blue
      <4>1. CI!OrDefault(blue.Name, d.Name \o "-blue") = blue.Name
        BY <2>3, OrDefaultTwice
      <4>2. CI!OrDefault(blue.IngressName, "blue." \o d.Spec.IngressName) = blue.IngressName
        BY <2>3, OrDefaultTwice
      <4> QED BY <2>3, <4>1, <4>2 DEF IsRecord, AppFields
    <3>3. CI!ToLower(new.ProductionDeployment) = new.ProductionDeployment
      BY <2>4, ToLowerTwice
    <3>4. CI!BlueGreenSetDefaults(new, d) =
            [new EXCEPT !.ProductionDeployment = new.ProductionDeployment,
                        !.Green = green,
                        !.Blue = blue]
      BY <1>2, <2>4, <3>1, <3>2, <3>3 DEF CI!BlueGreenSetDefaults
    <3> QED BY <2>4, <3>4 DEF IsRecord
  <2> QED
    BY <2>1, <2>4, <2>5, <2>6, <2>7
<1> QED
  BY <1>1, <1>2

(* The same of Canary.SetDefaults. *)
LEMMA CanaryDefaulted ==
    ASSUME NEW canary, ShapedCanary(canary), NEW c, NEW d, d.Name = c.Name
    PROVE  LET new == CI!CanarySetDefaults(canary, c)
           IN /\ ShapedCanary(new)
              /\ CI!CanarySetDefaults(new, d) = new
              /\ CI!CanarySetDefaultsFails(new) = CI!CanarySetDefaultsFails(canary)
              /\ new.Enable = canary.Enable
<1> DEFINE app == [canary.Deployment EXCEPT !.Name = CI!OrDefault(@, c.Name \o "-canary")]
           new == [canary EXCEPT !.Deployment = app]
<1>1. CASE ~canary.Enable
  BY <1>1 DEF CI!CanarySetDefaults
<1>2. CASE canary.Enable
  <2>1. CI!CanarySetDefaults(canary, c) = new
    BY <1>2 DEF CI!CanarySetDefaults
  <2>2. /\ IsRecord(app, AppFields)
        /\ app.Name = CI!OrDefault(canary.Deployment.Name, c.Name \o "-canary")
        /\ app.Image = canary.Deployment.Image /\ app.Version = canary.Deployment.Version
    BY DEF ShapedCanary, IsRecord, AppFields
  <2> HIDE DEF app
  <2>3. /\ IsRecord(new, {"Enable", "Deployment"})
        /\ new.Enable = canary.Enable
        /\ new.Deployment = app
    BY DEF ShapedCanary, IsRecord
  <2> HIDE DEF new
  <2>4. ShapedCanary(new)
    BY <2>2, <2>3 DEF ShapedCanary
  <2>5. CI!CanarySetDefaultsFails(new) = CI!CanarySetDefaultsFails(canary)
    BY <2>2, <2>3 DEF CI!CanarySetDefaultsFails
  <2>6. CI!CanarySetDefaults(new, d) = new
    <3>1. [app EXCEPT !.Name = CI!OrDefault(@, d.Name \o "-canary")] = app
      BY <2>2, OrDefaultTwice DEF IsRecord, AppFields
    <3>2. CI!CanarySetDefaults(new, d) = [new EXCEPT !.Deployment = app]
      BY <1>2, <2>3, <3>1 DEF CI!CanarySetDefaults
    <3> QED BY <2>3, <3>2 DEF IsRecord
  <2> QED
    BY <2>1, <2>3, <2>4, <2>5, <2>6
<1> QED
  BY <1>1, <1>2

-----------------------------------------------------------------------------
(* The database and MinIO. *)

(* Minio.SetDefaults fills in the storage. *)
LEMMA CIMinioDefaulted ==
    ASSUME NEW mi, IsRecord(mi, CIMinioFields), NEW n, n = CI!MinioSetDefaults(mi)
    PROVE  /\ IsRecord(n, CIMinioFields)
           /\ n.StorageSize # Unset
           /\ \A f \in CIMinioFields \ {"StorageSize"} : n[f] = mi[f]
<1>1. n.StorageSize # Unset
  <2>1. n.StorageSize = CI!OrDefault(mi.StorageSize, CI!DefaultMinioStorageSize)
    BY DEF IsRecord, CIMinioFields, CI!MinioSetDefaults
  <2>2. CI!DefaultMinioStorageSize # Unset
    BY DEF CI!DefaultMinioStorageSize, Unset
  <2> QED BY <2>1, <2>2, SameVocabulary, OrDefaultSet
<1> QED
  BY <1>1 DEF IsRecord, CIMinioFields, CI!MinioSetDefaults

(* A database that has its type, its storage and the version of MySQL. *)
CIDatabaseDescribed(db) ==
    /\ db.Type # Unset
    /\ db.StorageSize # Unset
    /\ db.Type = CI!DefaultMattermostDatabaseType => db.Version # Unset

(* Database.SetDefaults fills them in. *)
LEMMA CIDatabaseDefaulted ==
    ASSUME NEW db, IsRecord(db, CIDatabaseFields), NEW n, n = CI!DatabaseSetDefaults(db)
    PROVE  /\ IsRecord(n, CIDatabaseFields)
           /\ CIDatabaseDescribed(n)
           /\ \A f \in CIDatabaseFields \ {"Type", "StorageSize", "Version"} : n[f] = db[f]
<1>1. /\ n.Type = CI!OrDefault(db.Type, CI!DefaultMattermostDatabaseType)
      /\ n.StorageSize = CI!OrDefault(db.StorageSize, CI!DefaultStorageSize)
      /\ n.Version = IF n.Type = CI!DefaultMattermostDatabaseType
                     THEN CI!OrDefault(db.Version, CI!DefaultMysqlDatabaseVersion)
                     ELSE db.Version
  BY DEF IsRecord, CIDatabaseFields, CI!DatabaseSetDefaults
<1>2. /\ CI!DefaultMattermostDatabaseType # Unset
      /\ CI!DefaultStorageSize # Unset
      /\ CI!DefaultMysqlDatabaseVersion # Unset
  BY DEF CI!DefaultMattermostDatabaseType, CI!DefaultStorageSize,
         CI!DefaultMysqlDatabaseVersion, Unset
<1>3. CIDatabaseDescribed(n)
  BY <1>1, <1>2, SameVocabulary, OrDefaultSet DEF CIDatabaseDescribed
<1> QED
  BY <1>3 DEF IsRecord, CIDatabaseFields, CI!DatabaseSetDefaults

(* The defaults of a MinIO without gaps change nothing, *)
LEMMA CIMinioFixed ==
    ASSUME NEW mi, IsRecord(mi, CIMinioFields), CIMinioSettled(mi)
    PROVE  CI!MinioSetDefaults(mi) = mi
<1>1. CI!OrDefault(mi.StorageSize, CI!DefaultMinioStorageSize) = mi.StorageSize
  BY SameVocabulary DEF CI!OrDefault, CIMinioSettled
<1> QED
  BY <1>1 DEF IsRecord, CIMinioFields, CI!MinioSetDefaults

(* nor do those of a database. *)
LEMMA CIDatabaseFixed ==
    ASSUME NEW db, IsRecord(db, CIDatabaseFields), CIDatabaseSettled(db)
    PROVE  CI!DatabaseSetDefaults(db) = db
<1>1. /\ CI!OrDefault(db.Type, CI!DefaultMattermostDatabaseType) = db.Type
      /\ CI!OrDefault(db.StorageSize, CI!DefaultStorageSize) = db.StorageSize
      /\ db.Type = CI!DefaultMattermostDatabaseType =>
            CI!OrDefault(db.Version, CI!DefaultMysqlDatabaseVersion) = db.Version
  BY SameVocabulary DEF CI!OrDefault, CIDatabaseSettled
<1> QED
  BY <1>1 DEF IsRecord, CIDatabaseFields, CI!DatabaseSetDefaults

-----------------------------------------------------------------------------
(* The whole spec. *)

(* The spec after SetDefaults, field by field. *)
LEMMA CISetDefaultsFields ==
    ASSUME NEW c, CIShaped(c), NEW n, n = CI!SetDefaults(c)
    PROVE  /\ IsRecord(n, {"Name", "Spec"})
           /\ n.Name = c.Name
           /\ IsRecord(n.Spec, CISpecFields)
           /\ n.Spec.Image = CI!OrDefault(c.Spec.Image, CI!DefaultMattermostImage)
           /\ n.Spec.Version = CI!OrDefault(c.Spec.Version, CI!DefaultMattermostVersion)
           /\ n.Spec.ImagePullPolicy = CI!OrDefault(c.Spec.ImagePullPolicy, CI!DefaultPullPolicy)
           /\ n.Spec.Minio = CI!MinioSetDefaults(c.Spec.Minio)
           /\ n.Spec.Database = CI!DatabaseSetDefaults(c.Spec.Database)
           /\ n.Spec.BlueGreen = CI!BlueGreenSetDefaults(c.Spec.BlueGreen, c)
           /\ n.Spec.Canary = CI!CanarySetDefaults(c.Spec.Canary, c)
           /\ n.Spec.Size = c.Spec.Size
           /\ n.Spec.Replicas = c.Spec.Replicas
           /\ n.Spec.Resources = c.Spec.Resources
           /\ \A f \in CISpecFields \ CIFilledIn : n.Spec[f] = c.Spec[f]
<1> DEFINE new == [c.Spec EXCEPT !.Image = CI!OrDefault(@, CI!DefaultMattermostImage),
                            !.Version = CI!OrDefault(@, CI!DefaultMattermostVersion),
                            !.ImagePullPolicy = CI!OrDefault(@, CI!DefaultPullPolicy),
                            !.Minio = CI!MinioSetDefaults(@),
                            !.Database = CI!DatabaseSetDefaults(@),
                            !.BlueGreen = CI!BlueGreenSetDefaults(@, c),
                            !.Canary = CI!CanarySetDefaults(@, c)]
<1>1. n = [c EXCEPT !.Spec = new]
  BY DEF CI!SetDefaults
<1>2. IsRecord(new, CISpecFields)
  BY DEF CIShaped, IsRecord, CISpecFields
<1>3. /\ new.Image = CI!OrDefault(c.Spec.Image, CI!DefaultMattermostImage)
      /\ new.Version = CI!OrDefault(c.Spec.Version, CI!DefaultMattermostVersion)
      /\ new.ImagePullPolicy = CI!OrDefault(c.Spec.ImagePullPolicy, CI!DefaultPullPolicy)
      /\ new.Minio = CI!MinioSetDefaults(c.Spec.Minio)
      /\ new.Database = CI!DatabaseSetDefaults(c.Spec.Database)
      /\ new.BlueGreen = CI!BlueGreenSetDefaults(c.Spec.BlueGreen, c)
      /\ new.Canary = CI!CanarySetDefaults(c.Spec.Canary, c)
      /\ new.Size = c.Spec.Size
      /\ new.Replicas = c.Spec.Replicas
      /\ new.Resources = c.Spec.Resources
  BY DEF CIShaped, IsRecord, CISpecFields
<1>4. \A f \in CISpecFields \ CIFilledIn : new[f] = c.Spec[f]
  BY DEF CIShaped, IsRecord, CISpecFields, CIFilledIn
<1> HIDE DEF new
<1>5. IsRecord(n, {"Name", "Spec"}) /\ n.Name = c.Name /\ n.Spec = new
  BY <1>1 DEF CIShaped, IsRecord
<1> QED
  BY <1>2, <1>3, <1>4, <1>5

(* What neither way of sizing an installation changes. *)
CIKept(n, c) ==
    /\ IsRecord(n, {"Name", "Spec"})
    /\ n.Name = c.Name
    /\ IsRecord(n.Spec, CISpecFields)
    /\ n.Spec.Image = c.Spec.Image
    /\ n.Spec.Version = c.Spec.Version
    /\ n.Spec.ImagePullPolicy = c.Spec.ImagePullPolicy
    /\ n.Spec.BlueGreen = c.Spec.BlueGreen
    /\ n.Spec.Canary = c.Spec.Canary
    /\ \A f \in CISpecFields \ CIFilledIn : n.Spec[f] = c.Spec[f]

(* The spec after setDefaultReplicasAndResources, field by field. *)
LEMMA CIDefaultSizeFields ==
    ASSUME NEW c, CIShaped(c), NEW n, n = CI!setDefaultReplicasAndResources(c)
    PROVE  /\ CIKept(n, c)
           /\ n.Spec.Size = CI!Unset
           /\ n.Spec.Replicas = CI!OrReplicas(c.Spec.Replicas, CI!DefaultSize.App.Replicas)
           /\ n.Spec.Resources = CI!OrResources(c.Spec.Resources, CI!DefaultSize.App.Resources)
           /\ n.Spec.Minio = [c.Spec.Minio EXCEPT
               !.Replicas = CI!OrReplicas(@, CI!DefaultSize.Minio.Replicas),
               !.Resources = CI!OrResources(@, CI!DefaultSize.Minio.Resources)]
           /\ n.Spec.Database = [c.Spec.Database EXCEPT
               !.Replicas = IF c.Spec.Database.InitBucketURL = CI!Unset
                            THEN CI!OrReplicas(@, CI!DefaultSize.Database.Replicas)
                            ELSE @,
               !.Resources = CI!OrResources(@, CI!DefaultSize.Database.Resources)]
<1> DEFINE new == [c.Spec EXCEPT
                    !.Size = CI!Unset,
                    !.Replicas = CI!OrReplicas(@, CI!DefaultSize.App.Replicas),
                    !.Resources = CI!OrResources(@, CI!DefaultSize.App.Resources),
                    !.Minio = [c.Spec.Minio EXCEPT
                        !.Replicas = CI!OrReplicas(@, CI!DefaultSize.Minio.Replicas),
                        !.Resources = CI!OrResources(@, CI!DefaultSize.Minio.Resources)],
                    !.Database = [c.Spec.Database EXCEPT
                        !.Replicas = IF c.Spec.Database.InitBucketURL = CI!Unset
                                     THEN CI!OrReplicas(@, CI!DefaultSize.Database.Replicas)
                                     ELSE @,
                        !.Resources = CI!OrResources(@, CI!DefaultSize.Database.Resources)]]
<1>1. n = [c EXCEPT !.Spec = new]
  BY DEF CI!setDefaultReplicasAndResources
<1>2. IsRecord(new, CISpecFields)
  BY DEF CIShaped, IsRecord, CISpecFields
<1>3. /\ new.Size = CI!Unset
      /\ new.Replicas = CI!OrReplicas(c.Spec.Replicas, CI!DefaultSize.App.Replicas)
      /\ new.Resources = CI!OrResources(c.Spec.Resources, CI!DefaultSize.App.Resources)
      /\ new.Minio = [c.Spec.Minio EXCEPT
          !.Replicas = CI!OrReplicas(@, CI!DefaultSize.Minio.Replicas),
          !.Resources = CI!OrResources(@, CI!DefaultSize.Minio.Resources)]
      /\ new.Database = [c.Spec.Database EXCEPT
          !.Replicas = IF c.Spec.Database.InitBucketURL = CI!Unset
                       THEN CI!OrReplicas(@, CI!DefaultSize.Database.Replicas)
                       ELSE @,
          !.Resources = CI!OrResources(@, CI!DefaultSize.Database.Resources)]
      /\ new.Image = c.Spec.Image
      /\ new.Version = c.Spec.Version
      /\ new.ImagePullPolicy = c.Spec.ImagePullPolicy
      /\ new.BlueGreen = c.Spec.BlueGreen
      /\ new.Canary = c.Spec.Canary
  BY DEF CIShaped, IsRecord, CISpecFields
<1>4. \A f \in CISpecFields \ CIFilledIn : new[f] = c.Spec[f]
  BY DEF CIShaped, IsRecord, CISpecFields, CIFilledIn
<1> HIDE DEF new
<1>5. IsRecord(n, {"Name", "Spec"}) /\ n.Name = c.Name /\ n.Spec = new
  BY <1>1 DEF CIShaped, IsRecord
<1>6. CIKept(n, c)
  BY <1>2, <1>3, <1>4, <1>5 DEF CIKept
<1> QED
  BY <1>3, <1>5, <1>6

(* A part of the spec with the replicas and the resources of a size. *)
CISizedPart(part, size) ==
    [part EXCEPT !.Replicas = size.Replicas, !.Resources = size.Resources]

(* The spec after overrideReplicasAndResourcesFromSize, field by field. *)
LEMMA CIOverrideFields ==
    ASSUME NEW c, NEW size, NEW n, CIShaped(c), n = CI!overrideReplicasAndResourcesFromSize(c, size)
    PROVE  /\ CIKept(n, c)
           /\ n.Spec.Size = CI!Unset
           /\ n.Spec.Replicas = size.App.Replicas
           /\ n.Spec.Resources = size.App.Resources
           /\ n.Spec.Minio = CISizedPart(c.Spec.Minio, size.Minio)
           /\ n.Spec.Database = CISizedPart(c.Spec.Database, size.Database)
<1> DEFINE new == [c.Spec EXCEPT
                    !.Size = CI!Unset,
                    !.Replicas = size.App.Replicas,
                    !.Resources = size.App.Resources,
                    !.Minio = [c.Spec.Minio EXCEPT !.Replicas = size.Minio.Replicas,
                                                   !.Resources = size.Minio.Resources],
                    !.Database = [c.Spec.Database EXCEPT !.Replicas = size.Database.Replicas,
                                                         !.Resources = size.Database.Resources]]
<1>1. n = [c EXCEPT !.Spec = new]
  BY DEF CI!overrideReplicasAndResourcesFromSize
<1>2. IsRecord(new, CISpecFields)
  BY DEF CIShaped, IsRecord, CISpecFields
<1>3. /\ new.Size = CI!Unset
      /\ new.Replicas = size.App.Replicas
      /\ new.Resources = size.App.Resources
      /\ new.Minio = [c.Spec.Minio EXCEPT !.Replicas = size.Minio.Replicas,
          !.Resources = size.Minio.Resources]
      /\ new.Database = [c.Spec.Database EXCEPT !.Replicas = size.Database.Replicas,
          !.Resources = size.Database.Resources]
      /\ new.Image = c.Spec.Image
      /\ new.Version = c.Spec.Version
      /\ new.ImagePullPolicy = c.Spec.ImagePullPolicy
      /\ new.BlueGreen = c.Spec.BlueGreen
      /\ new.Canary = c.Spec.Canary
  BY DEF CIShaped, IsRecord, CISpecFields
<1>4. \A f \in CISpecFields \ CIFilledIn : new[f] = c.Spec[f]
  BY DEF CIShaped, IsRecord, CISpecFields, CIFilledIn
<1> HIDE DEF new
<1>5. IsRecord(n, {"Name", "Spec"}) /\ n.Name = c.Name /\ n.Spec = new
  BY <1>1 DEF CIShaped, IsRecord
<1>6. CIKept(n, c)
  BY <1>2, <1>3, <1>4, <1>5 DEF CIKept
<1> QED
  BY <1>3, <1>5, <1>6 DEF CISizedPart

(* SetDefaults leaves a spec that lacks only what depends on the size, *)
LEMMA CIDefaulted ==
    ASSUME NEW c, CIShaped(c), NEW d, d = CI!SetDefaults(c)
    PROVE  /\ CIShaped(d)
           /\ d.Name = c.Name
           /\ d.Spec.Image # Unset /\ d.Spec.Version # Unset /\ d.Spec.ImagePullPolicy # Unset
           /\ d.Spec.Minio.StorageSize # Unset
           /\ CIDatabaseDescribed(d.Spec.Database)
           /\ \A f \in CISpecFields \ CIFilledIn : d.Spec[f] = c.Spec[f]
           /\ d.Spec.BlueGreen = CI!BlueGreenSetDefaults(c.Spec.BlueGreen, c)
           /\ d.Spec.Canary = CI!CanarySetDefaults(c.Spec.Canary, c)
<1>1. /\ IsRecord(d, {"Name", "Spec"})
      /\ d.Name = c.Name
      /\ IsRecord(d.Spec, CISpecFields)
      /\ d.Spec.Image = CI!OrDefault(c.Spec.Image, CI!DefaultMattermostImage)
      /\ d.Spec.Version = CI!OrDefault(c.Spec.Version, CI!DefaultMattermostVersion)
      /\ d.Spec.ImagePullPolicy = CI!OrDefault(c.Spec.ImagePullPolicy, CI!DefaultPullPolicy)
      /\ d.Spec.Minio = CI!MinioSetDefaults(c.Spec.Minio)
      /\ d.Spec.Database = CI!DatabaseSetDefaults(c.Spec.Database)
      /\ d.Spec.BlueGreen = CI!BlueGreenSetDefaults(c.Spec.BlueGreen, c)
      /\ d.Spec.Canary = CI!CanarySetDefaults(c.Spec.Canary, c)
      /\ \A f \in CISpecFields \ CIFilledIn : d.Spec[f] = c.Spec[f]
  BY CISetDefaultsFields
<1>2. /\ CI!DefaultMattermostImage # Unset
      /\ CI!DefaultMattermostVersion # Unset
      /\ CI!DefaultPullPolicy # Unset
  BY DEF CI!DefaultMattermostImage, CI!DefaultMattermostVersion, CI!DefaultPullPolicy, Unset
<1>3. d.Spec.Image # Unset /\ d.Spec.Version # Unset /\ d.Spec.ImagePullPolicy # Unset
  BY <1>1, <1>2, SameVocabulary, OrDefaultSet
<1>4. IsRecord(d.Spec.Minio, CIMinioFields) /\ d.Spec.Minio.StorageSize # Unset
  BY <1>1, CIMinioDefaulted DEF CIShaped
<1>5. IsRecord(d.Spec.Database, CIDatabaseFields) /\ CIDatabaseDescribed(d.Spec.Database)
  BY <1>1, CIDatabaseDefaulted DEF CIShaped
<1>6. ShapedBlueGreen(d.Spec.BlueGreen)
  BY <1>1, BlueGreenDefaulted DEF CIShaped
<1>7. ShapedCanary(d.Spec.Canary)
  BY <1>1, CanaryDefaulted DEF CIShaped
<1>8. CIShaped(d)
  BY <1>1, <1>4, <1>5, <1>6, <1>7 DEF CIShaped
<1> QED
  BY <1>1, <1>3, <1>4, <1>5, <1>8

(* and sizing it leaves no gap. *)
LEMMA CISized ==
    ASSUME NEW c, CIShaped(c), c.Spec.Minio.StorageSize # Unset,
           CIDatabaseDescribed(c.Spec.Database), NEW size \in SizeType, NEW n,
           \/ n = CI!setDefaultReplicasAndResources(c)
           \/ n = CI!overrideReplicasAndResourcesFromSize(c, size)
    PROVE  /\ CIShaped(n)
           /\ CIKept(n, c)
           /\ n.Spec.Size = Unset
           /\ n.Spec.Replicas # 0
           /\ n.Spec.Resources # NoResources
           /\ CIMinioSettled(n.Spec.Minio)
           /\ CIDatabaseSettled(n.Spec.Database)
<1>1. IsRecord(c.Spec.Minio, CIMinioFields) /\ IsRecord(c.Spec.Database, CIDatabaseFields)
  BY DEF CIShaped
<1>2. CASE n = CI!setDefaultReplicasAndResources(c)
  <2>1. /\ CI!DefaultSize.App.Replicas # 0 /\ CI!DefaultSize.App.Resources # NoResources
        /\ CI!DefaultSize.Minio.Replicas # 0 /\ CI!DefaultSize.Minio.Resources # NoResources
        /\ CI!DefaultSize.Database.Replicas # 0 /\ CI!DefaultSize.Database.Resources # NoResources
    BY SameVocabulary, SizesTyped DEF SizeType, ComponentSize
  <2>2. /\ CIKept(n, c)
        /\ n.Spec.Size = CI!Unset
        /\ n.Spec.Replicas = CI!OrReplicas(c.Spec.Replicas, CI!DefaultSize.App.Replicas)
        /\ n.Spec.Resources = CI!OrResources(c.Spec.Resources, CI!DefaultSize.App.Resources)
        /\ n.Spec.Minio = [c.Spec.Minio EXCEPT !.Replicas = CI!OrReplicas(@, CI!DefaultSize.Minio.Replicas),
                                     !.Resources = CI!OrResources(@, CI!DefaultSize.Minio.Resources)]
        /\ n.Spec.Database = [c.Spec.Database EXCEPT
                !.Replicas = IF c.Spec.Database.InitBucketURL = CI!Unset
                             THEN CI!OrReplicas(@, CI!DefaultSize.Database.Replicas) ELSE @,
                !.Resources = CI!OrResources(@, CI!DefaultSize.Database.Resources)]
    BY <1>2, CIDefaultSizeFields
  <2>3. n.Spec.Replicas # 0 /\ n.Spec.Resources # NoResources /\ n.Spec.Size = Unset
    BY <2>1, <2>2, SameVocabulary DEF CI!OrReplicas, CI!OrResources
  <2>4. IsRecord(n.Spec.Minio, CIMinioFields) /\ CIMinioSettled(n.Spec.Minio)
    <3>1. /\ IsRecord(n.Spec.Minio, CIMinioFields)
          /\ n.Spec.Minio.StorageSize = c.Spec.Minio.StorageSize
          /\ n.Spec.Minio.Replicas = CI!OrReplicas(c.Spec.Minio.Replicas, CI!DefaultSize.Minio.Replicas)
          /\ n.Spec.Minio.Resources = CI!OrResources(c.Spec.Minio.Resources, CI!DefaultSize.Minio.Resources)
      BY <1>1, <2>2 DEF IsRecord, CIMinioFields
    <3> QED BY <2>1, <3>1, SameVocabulary DEF CIMinioSettled, CI!OrReplicas, CI!OrResources
  <2>5. IsRecord(n.Spec.Database, CIDatabaseFields) /\ CIDatabaseSettled(n.Spec.Database)
    <3>1. /\ IsRecord(n.Spec.Database, CIDatabaseFields)
          /\ n.Spec.Database.Replicas = IF c.Spec.Database.InitBucketURL = CI!Unset
                        THEN CI!OrReplicas(c.Spec.Database.Replicas, CI!DefaultSize.Database.Replicas) ELSE c.Spec.Database.Replicas
          /\ n.Spec.Database.Resources = CI!OrResources(c.Spec.Database.Resources, CI!DefaultSize.Database.Resources)
          /\ \A f \in {"Type", "StorageSize", "Version", "InitBucketURL"} :
                n.Spec.Database[f] = c.Spec.Database[f]
      BY <1>1, <2>2 DEF IsRecord, CIDatabaseFields
    <3> QED BY <2>1, <3>1, SameVocabulary
               DEF CIDatabaseSettled, CIDatabaseDescribed, CI!OrReplicas, CI!OrResources
  <2>6. CIShaped(n)
    BY <2>2, <2>4, <2>5 DEF CIShaped, CIKept
  <2> QED
    BY <2>2, <2>3, <2>4, <2>5, <2>6
<1>3. CASE n = CI!overrideReplicasAndResourcesFromSize(c, size)
  <2>1. /\ size.App.Replicas # 0 /\ size.App.Resources # NoResources
        /\ size.Minio.Replicas # 0 /\ size.Minio.Resources # NoResources
        /\ size.Database.Replicas # 0 /\ size.Database.Resources # NoResources
    BY DEF SizeType, ComponentSize
  <2>2. /\ CIKept(n, c)
        /\ n.Spec.Size = CI!Unset
        /\ n.Spec.Replicas = size.App.Replicas
        /\ n.Spec.Resources = size.App.Resources
        /\ n.Spec.Minio = CISizedPart(c.Spec.Minio, size.Minio)
        /\ n.Spec.Database = CISizedPart(c.Spec.Database, size.Database)
    BY <1>3, CIOverrideFields
  <2>3. n.Spec.Size = Unset
    BY <2>2, SameVocabulary
  <2>4. IsRecord(n.Spec.Minio, CIMinioFields) /\ CIMinioSettled(n.Spec.Minio)
    <3>1. /\ IsRecord(n.Spec.Minio, CIMinioFields)
          /\ n.Spec.Minio.StorageSize = c.Spec.Minio.StorageSize
          /\ n.Spec.Minio.Replicas = size.Minio.Replicas
          /\ n.Spec.Minio.Resources = size.Minio.Resources
      BY <1>1, <2>2 DEF IsRecord, CIMinioFields, CISizedPart
    <3> QED BY <2>1, <3>1 DEF CIMinioSettled
  <2>5. IsRecord(n.Spec.Database, CIDatabaseFields) /\ CIDatabaseSettled(n.Spec.Database)
    <3>1. /\ IsRecord(n.Spec.Database, CIDatabaseFields)
          /\ n.Spec.Database.Replicas = size.Database.Replicas
          /\ n.Spec.Database.Resources = size.Database.Resources
          /\ \A f \in {"Type", "StorageSize", "Version"} : n.Spec.Database[f] = c.Spec.Database[f]
      BY <1>1, <2>2 DEF IsRecord, CIDatabaseFields, CISizedPart
    <3> QED BY <2>1, <3>1 DEF CIDatabaseSettled, CIDatabaseDescribed
  <2>6. CIShaped(n)
    BY <2>2, <2>4, <2>5 DEF CIShaped, CIKept
  <2> QED
    BY <2>1, <2>2, <2>3, <2>4, <2>5, <2>6
<1> QED
  BY <1>2, <1>3

(* A pass fills all the gaps of an accepted ClusterInstallation, and leaves *)
(* what it does not fill in as it was.                                      *)
LEMMA CINormalisedSettled ==
    ASSUME NEW c, CIShaped(c), NEW n, n = CINormalised(c)
    PROVE  /\ CIShaped(n)
           /\ CISettled(n)
           /\ CI!SetDefaultsFails(n) = CI!SetDefaultsFails(c)
           /\ n.Name = c.Name
           /\ \A f \in CISpecFields \ CIFilledIn : n.Spec[f] = c.Spec[f]
           /\ n.Spec.BlueGreen = CI!BlueGreenSetDefaults(c.Spec.BlueGreen, c)
           /\ n.Spec.Canary = CI!CanarySetDefaults(c.Spec.Canary, c)
<1> DEFINE d == CI!SetDefaults(c)
           found == CI!GetClusterSize(d.Spec.Size)
           size == CI!Deref(found, CI!DefaultSize)
<1>1. /\ CIShaped(d)
      /\ d.Name = c.Name
      /\ d.Spec.Image # Unset /\ d.Spec.Version # Unset /\ d.Spec.ImagePullPolicy # Unset
      /\ d.Spec.Minio.StorageSize # Unset
      /\ CIDatabaseDescribed(d.Spec.Database)
      /\ \A f \in CISpecFields \ CIFilledIn : d.Spec[f] = c.Spec[f]
      /\ d.Spec.BlueGreen = CI!BlueGreenSetDefaults(c.Spec.BlueGreen, c)
      /\ d.Spec.Canary = CI!CanarySetDefaults(c.Spec.Canary, c)
  BY CIDefaulted
<1>2. size \in SizeType
  <2>1. size = Deref(GetClusterSize(d.Spec.Size), DefaultSize)
    BY SameVocabulary
  <2>2. CASE GetClusterSize(d.Spec.Size) = {}
    BY <2>1, <2>2, SizesTyped DEF Deref
  <2>3. CASE GetClusterSize(d.Spec.Size) # {}
    BY <2>1, <2>3, SizesTyped DEF Deref
  <2> QED BY <2>2, <2>3
<1>3. \/ n = CI!setDefaultReplicasAndResources(d)
      \/ n = CI!overrideReplicasAndResourcesFromSize(d, size)
  BY DEF CINormalised, CI!SetReplicasAndResourcesFromSize
<1> HIDE DEF d, size
<1>4. /\ CIShaped(n)
      /\ CIKept(n, d)
      /\ n.Spec.Size = Unset
      /\ n.Spec.Replicas # 0
      /\ n.Spec.Resources # NoResources
      /\ CIMinioSettled(n.Spec.Minio)
      /\ CIDatabaseSettled(n.Spec.Database)
  BY <1>1, <1>2, <1>3, CISized
<1>5. /\ n.Name = c.Name
      /\ n.Spec.Image # Unset /\ n.Spec.Version # Unset /\ n.Spec.ImagePullPolicy # Unset
      /\ \A f \in CISpecFields \ CIFilledIn : n.Spec[f] = c.Spec[f]
      /\ n.Spec.BlueGreen = CI!BlueGreenSetDefaults(c.Spec.BlueGreen, c)
      /\ n.Spec.Canary = CI!CanarySetDefaults(c.Spec.Canary, c)
  BY <1>1, <1>4 DEF CIKept
<1>6. n.Spec.IngressName = c.Spec.IngressName
  BY <1>5 DEF CISpecFields, CIFilledIn
<1>7. ShapedBlueGreen(c.Spec.BlueGreen) /\ ShapedCanary(c.Spec.Canary)
  BY DEF CIShaped
<1>8. /\ CI!BlueGreenSetDefaults(n.Spec.BlueGreen, n) = n.Spec.BlueGreen
      /\ CI!BlueGreenSetDefaultsFails(n.Spec.BlueGreen)
            = CI!BlueGreenSetDefaultsFails(c.Spec.BlueGreen)
  BY <1>5, <1>6, <1>7, BlueGreenDefaulted
<1>9. /\ CI!CanarySetDefaults(n.Spec.Canary, n) = n.Spec.Canary
      /\ CI!CanarySetDefaultsFails(n.Spec.Canary) = CI!CanarySetDefaultsFails(c.Spec.Canary)
  BY <1>5, <1>7, CanaryDefaulted
<1>10. CISettled(n)
  BY <1>4, <1>5, <1>8, <1>9 DEF CISettled
<1>11. CI!SetDefaultsFails(n) = CI!SetDefaultsFails(c)
  BY <1>6, <1>8, <1>9 DEF CI!SetDefaultsFails
<1> QED
  BY <1>4, <1>5, <1>10, <1>11

(* A ClusterInstallation without gaps is left as it is. *)
LEMMA CISettledFixed ==
    ASSUME NEW c, CIShaped(c), CISettled(c)
    PROVE  CINormalised(c) = c
<1>0. /\ IsRecord(c, {"Name", "Spec"})
      /\ IsRecord(c.Spec, CISpecFields)
      /\ IsRecord(c.Spec.Minio, CIMinioFields)
      /\ IsRecord(c.Spec.Database, CIDatabaseFields)
  BY DEF CIShaped
<1> DEFINE d == CI!SetDefaults(c)
           n == CI!setDefaultReplicasAndResources(c)
<1>1. d = c
  <2>1. /\ IsRecord(d, {"Name", "Spec"}) /\ d.Name = c.Name
        /\ IsRecord(d.Spec, CISpecFields)
        /\ \A f \in CISpecFields \ CIFilledIn : d.Spec[f] = c.Spec[f]
        /\ d.Spec.Size = c.Spec.Size /\ d.Spec.Replicas = c.Spec.Replicas
        /\ d.Spec.Resources = c.Spec.Resources
    BY CISetDefaultsFields
  <2>2. /\ d.Spec.Minio = CI!MinioSetDefaults(c.Spec.Minio)
        /\ d.Spec.Database = CI!DatabaseSetDefaults(c.Spec.Database)
        /\ d.Spec.BlueGreen = CI!BlueGreenSetDefaults(c.Spec.BlueGreen, c)
        /\ d.Spec.Canary = CI!CanarySetDefaults(c.Spec.Canary, c)
    BY CISetDefaultsFields
  <2>3. /\ d.Spec.Minio = c.Spec.Minio
        /\ d.Spec.Database = c.Spec.Database
        /\ d.Spec.BlueGreen = c.Spec.BlueGreen
        /\ d.Spec.Canary = c.Spec.Canary
    BY <1>0, <2>2, CIMinioFixed, CIDatabaseFixed DEF CISettled
  <2>4. /\ d.Spec.Image = CI!OrDefault(c.Spec.Image, CI!DefaultMattermostImage)
        /\ d.Spec.Version = CI!OrDefault(c.Spec.Version, CI!DefaultMattermostVersion)
        /\ d.Spec.ImagePullPolicy = CI!OrDefault(c.Spec.ImagePullPolicy, CI!DefaultPullPolicy)
    BY CISetDefaultsFields
  <2>5. /\ d.Spec.Image = c.Spec.Image
        /\ d.Spec.Version = c.Spec.Version
        /\ d.Spec.ImagePullPolicy = c.Spec.ImagePullPolicy
    BY <2>4, SameVocabulary DEF CISettled, OrDefault
  <2> HIDE DEF d
  <2>6. \A f \in CISpecFields : d.Spec[f] = c.Spec[f]
    BY <2>1, <2>3, <2>5 DEF CIFilledIn
  <2>7. d.Spec = c.Spec
    BY <1>0, <2>1, <2>6, RecordsEqual
  <2> QED
    BY <1>0, <2>1, <2>7 DEF IsRecord
<1>2. n = c
  <2>1. /\ CIKept(n, c)
        /\ n.Spec.Size = CI!Unset
        /\ n.Spec.Replicas = CI!OrReplicas(c.Spec.Replicas, CI!DefaultSize.App.Replicas)
        /\ n.Spec.Resources = CI!OrResources(c.Spec.Resources, CI!DefaultSize.App.Resources)
    BY CIDefaultSizeFields
  <2>2. n.Spec.Minio = [c.Spec.Minio EXCEPT
            !.Replicas = CI!OrReplicas(@, CI!DefaultSize.Minio.Replicas),
            !.Resources = CI!OrResources(@, CI!DefaultSize.Minio.Resources)]
    BY CIDefaultSizeFields
  <2>3. n.Spec.Minio = c.Spec.Minio
    <3>1. /\ CI!OrReplicas(c.Spec.Minio.Replicas, CI!DefaultSize.Minio.Replicas)
                = c.Spec.Minio.Replicas
          /\ CI!OrResources(c.Spec.Minio.Resources, CI!DefaultSize.Minio.Resources)
                = c.Spec.Minio.Resources
      BY SameVocabulary DEF CISettled, CIMinioSettled, CI!OrReplicas, CI!OrResources
    <3> HIDE DEF n
    <3> QED BY <1>0, <2>2, <3>1 DEF IsRecord, CIMinioFields
  <2>4. n.Spec.Database = [c.Spec.Database EXCEPT
            !.Replicas = IF c.Spec.Database.InitBucketURL = CI!Unset
                         THEN CI!OrReplicas(@, CI!DefaultSize.Database.Replicas)
                         ELSE @,
            !.Resources = CI!OrResources(@, CI!DefaultSize.Database.Resources)]
    BY CIDefaultSizeFields
  <2>5. n.Spec.Database = c.Spec.Database
    <3>1. /\ c.Spec.Database.InitBucketURL = CI!Unset =>
                CI!OrReplicas(c.Spec.Database.Replicas, CI!DefaultSize.Database.Replicas)
                    = c.Spec.Database.Replicas
          /\ CI!OrResources(c.Spec.Database.Resources, CI!DefaultSize.Database.Resources)
                = c.Spec.Database.Resources
      BY SameVocabulary DEF CISettled, CIDatabaseSettled, CI!OrReplicas, CI!OrResources
    <3> HIDE DEF n
    <3>2. /\ IsRecord(n.Spec.Database, CIDatabaseFields)
          /\ n.Spec.Database.Replicas = c.Spec.Database.Replicas
          /\ n.Spec.Database.Resources = c.Spec.Database.Resources
          /\ \A f \in CIDatabaseFields \ {"Replicas", "Resources"} :
                n.Spec.Database[f] = c.Spec.Database[f]
      BY <1>0, <2>4, <3>1 DEF IsRecord, CIDatabaseFields
    <3> QED BY <1>0, <3>2, RecordsEqual
  <2>6. /\ n.Spec.Size = c.Spec.Size
        /\ n.Spec.Replicas = c.Spec.Replicas
        /\ n.Spec.Resources = c.Spec.Resources
    BY <2>1, SameVocabulary DEF CISettled, CI!OrReplicas, CI!OrResources
  <2> HIDE DEF n
  <2>7. \A f \in CISpecFields : n.Spec[f] = c.Spec[f]
    BY <2>1, <2>3, <2>5, <2>6 DEF CIFilledIn, CIKept
  <2>8. n.Spec = c.Spec
    BY <1>0, <2>1, <2>7, RecordsEqual DEF CIKept
  <2> QED
    BY <1>0, <2>1, <2>8 DEF IsRecord, CIKept
<1> QED
  BY <1>1, <1>2, SameVocabulary DEF CINormalised, CI!SetReplicasAndResourcesFromSize, CISettled

=============================================================================
