------------------------------ MODULE Migration ------------------------------
(***************************************************************************)
(* Migration of a ClusterInstallation to a Mattermost resource:            *)
(* tryToMigrate and HandleMigration of                                     *)
(* controllers/mattermost/clusterinstallation.  The deployment is deleted  *)
(* without its pods and created again with new labels, the Mattermost      *)
(* resource follows once the new pods are ready, and the old pods go when  *)
(* that resource is stable.                                                *)
(*                                                                         *)
(* One installation with spec.migrate set, and convertible (blue/green and *)
(* canary off).  Each API call is a step; the deployment and the           *)
(* Mattermost resource are read from the informer cache unless said.       *)
(***************************************************************************)
EXTENDS Naturals, Sequences

CONSTANT CacheLag  \* how many writes the informer cache may be behind, per object

ASSUME ConstantsAssumption == CacheLag \in Nat

VARIABLES
    installation,  \* the ClusterInstallation exists
    deployment,    \* versions of the deployment: Head cached, last live
    mattermost,    \* versions of the Mattermost resource
    pass,          \* where the controller's pass is
    oldPods,       \* the old replica sets and their pods exist
    newPods,       \* the pods of the new deployment
    service        \* the pods the service selects

vars == <<installation, deployment, mattermost, pass, oldPods, newPods, service>>
serving == <<oldPods, newPods, service>>

-----------------------------------------------------------------------------
Cached(versions) == Head(versions)
Live(versions)   == versions[Len(versions)]

Published(versions, v) ==
    LET all == Append(versions, v)
    IN  IF Len(all) > CacheLag + 1 THEN Tail(all) ELSE all

(* Old or new labels; a deleted deployment stays until the garbage         *)
(* collector has orphaned its replica sets.                                *)
Deployment == {"absent", "old", "new", "oldDeleting", "newDeleting"}
Migrated   == {"new", "newDeleting"}

Mattermost == {"absent", "unstable", "stable"}

PC == {"idle", "start", "delete", "await", "create", "ready", "announce",
       "cleanup", "remove"}

Goto(label) == pass' = label

-----------------------------------------------------------------------------
Init ==
    /\ installation = TRUE
    /\ deployment = <<"old">>
    /\ mattermost = <<"absent">>
    /\ pass = "idle"
    /\ oldPods = TRUE
    /\ newPods = "none"
    /\ service = "old"

(* HandleMigration on a resource that exists: wait until it is stable.     *)
Begin ==
    /\ pass = "idle" /\ installation
    /\ Goto(CASE Cached(mattermost) = "absent"   -> "start"
              [] Cached(mattermost) = "unstable" -> "idle"
              [] Cached(mattermost) = "stable"   -> "cleanup")
    /\ UNCHANGED <<installation, deployment, mattermost, serving>>

(* Fault: a deployment with the new labels is not recognised.              *)
CompareNeverMigrated ==
    /\ pass = "start"
    /\ Goto(IF Cached(deployment) = "absent" THEN "idle" ELSE "delete")
    /\ UNCHANGED <<installation, deployment, mattermost, serving>>

(* isDeploymentMigrated: a deployment with the new labels is listed.  If   *)
(* not, recreateDeployment gets the one to replace, and without one fails. *)
Compare ==
    /\ pass = "start"
    /\ Goto(CASE Cached(deployment) \in Migrated               -> "ready"
              [] Cached(deployment) \in {"old", "oldDeleting"} -> "delete"
              [] Cached(deployment) = "absent"                 -> "idle")
    /\ UNCHANGED <<installation, deployment, mattermost, serving>>

(* What a deletion that orphans the replica sets makes of the deployment.  *)
Orphaned(d) == CASE d = "old" -> "oldDeleting"
                 [] d = "new" -> "newDeleting"
                 [] OTHER     -> d

(* Fault: the deletion takes the pods with it.                             *)
DeleteDeploymentAndPods ==
    /\ pass = "delete" /\ Live(deployment) # "absent"
    /\ deployment' = Published(deployment, Orphaned(Live(deployment)))
    /\ oldPods' = FALSE
    /\ Goto("await")
    /\ UNCHANGED <<installation, mattermost, newPods, service>>

(* Delete by name with orphan propagation, whatever has the name by now.   *)
DeleteDeployment ==
    /\ pass = "delete" /\ Live(deployment) # "absent"
    /\ deployment' = Published(deployment, Orphaned(Live(deployment)))
    /\ Goto("await")
    /\ UNCHANGED <<installation, mattermost, serving>>

(* waitForDeploymentDeletion reads from the API server.                    *)
Gone ==
    /\ pass = "await" /\ Live(deployment) = "absent"
    /\ Goto("create")
    /\ UNCHANGED <<installation, deployment, mattermost, serving>>

(* The deployment is created from the old one's spec with the new labels;  *)
(* replica sets with those labels that were orphaned are adopted.          *)
CreateDeployment ==
    /\ pass = "create" /\ Live(deployment) = "absent"
    /\ deployment' = Published(deployment, "new")
    /\ newPods' = IF newPods = "none" THEN "starting" ELSE newPods
    /\ Goto("ready")
    /\ UNCHANGED <<installation, mattermost, oldPods, service>>

(* isDeploymentReady: the deployment is in the cache and, asked of the API *)
(* server, all its pods are up to date and ready; otherwise requeue.       *)
CheckReady ==
    /\ pass = "ready"
    /\ Goto(IF Cached(deployment) \in Migrated /\ newPods = "ready"
            THEN "announce" ELSE "idle")
    /\ UNCHANGED <<installation, deployment, mattermost, serving>>

(* Create the Mattermost resource.                                         *)
CreateMattermost ==
    /\ pass = "announce" /\ Live(mattermost) = "absent"
    /\ mattermost' = Published(mattermost, "unstable")
    /\ Goto("idle")
    /\ UNCHANGED <<installation, deployment, serving>>

(* cleanupReplicaSets: everything that still has the old labels.           *)
CleanupReplicaSets ==
    /\ pass = "cleanup"
    /\ oldPods' = FALSE
    /\ Goto("remove")
    /\ UNCHANGED <<installation, deployment, mattermost, newPods, service>>

RemoveInstallation ==
    /\ pass = "remove"
    /\ installation' = FALSE
    /\ Goto("idle")
    /\ UNCHANGED <<deployment, mattermost, serving>>

(* A call fails or times out, which ends the pass; it is tried again.      *)
CallFails ==
    /\ pass # "idle"
    /\ Goto("idle")
    /\ UNCHANGED <<installation, deployment, mattermost, serving>>

(* The calls that cannot succeed: nothing to delete, already created.      *)
Refused ==
    \/ pass = "delete" /\ Live(deployment) = "absent" /\ CallFails
    \/ pass = "announce" /\ Live(mattermost) # "absent" /\ CallFails

-----------------------------------------------------------------------------
(* The surroundings.                                                       *)

(* The garbage collector has orphaned the replica sets.                    *)
Collect ==
    /\ Live(deployment) \in {"oldDeleting", "newDeleting"}
    /\ deployment' = Published(deployment, "absent")
    /\ UNCHANGED <<installation, mattermost, pass, serving>>

StartPods ==
    /\ newPods = "starting" /\ Live(deployment) = "new"
    /\ newPods' = "ready"
    /\ UNCHANGED <<installation, deployment, mattermost, pass, oldPods, service>>

(* checkMattermostService of the Mattermost controller: the new labels.    *)
SwitchService ==
    /\ Live(mattermost) # "absent" /\ service = "old"
    /\ service' = "new"
    /\ UNCHANGED <<installation, deployment, mattermost, pass, oldPods, newPods>>

(* Its CreateDeploymentIfNotExists.                                        *)
ReplaceDeployment ==
    /\ Live(mattermost) # "absent" /\ Live(deployment) = "absent"
    /\ deployment' = Published(deployment, "new")
    /\ UNCHANGED <<installation, mattermost, pass, serving>>

(* A pass of the Mattermost controller that ends well, or does not.        *)
Settle ==
    /\ Live(mattermost) = "unstable" /\ service = "new" /\ Live(deployment) = "new"
    /\ mattermost' = Published(mattermost, "stable")
    /\ UNCHANGED <<installation, deployment, pass, serving>>

Unsettle ==
    /\ Live(mattermost) = "stable"
    /\ mattermost' = Published(mattermost, "unstable")
    /\ UNCHANGED <<installation, deployment, pass, serving>>

DeliverDeployment ==
    /\ Len(deployment) > 1
    /\ deployment' = Tail(deployment)
    /\ UNCHANGED <<installation, mattermost, pass, serving>>

DeliverMattermost ==
    /\ Len(mattermost) > 1
    /\ mattermost' = Tail(mattermost)
    /\ UNCHANGED <<installation, deployment, pass, serving>>

(* The operator restarts with synced caches.                               *)
Restart ==
    /\ pass' = "idle"
    /\ deployment' = <<Live(deployment)>>
    /\ mattermost' = <<Live(mattermost)>>
    /\ UNCHANGED <<installation, serving>>

-----------------------------------------------------------------------------
Step ==
    \/ Begin \/ Compare \/ DeleteDeployment \/ Gone \/ CreateDeployment
    \/ CheckReady \/ CreateMattermost \/ CleanupReplicaSets \/ RemoveInstallation
    \/ Refused

Deliver == DeliverDeployment \/ DeliverMattermost

Surroundings == Collect \/ StartPods \/ ReplaceDeployment \/ SwitchService \/ Settle

Ordinary == Step \/ Deliver \/ Surroundings

Disturbance == CallFails \/ Unsettle \/ Restart

Next == Ordinary \/ Disturbance

(* The controller keeps requeuing, informers deliver, Kubernetes and the   *)
(* Mattermost controller do their work.                                    *)
Fairness ==
    /\ WF_vars(Step)
    /\ WF_vars(DeliverDeployment) /\ WF_vars(DeliverMattermost)
    /\ WF_vars(Collect) /\ WF_vars(StartPods)
    /\ WF_vars(ReplaceDeployment) /\ WF_vars(SwitchService) /\ WF_vars(Settle)

Spec == Init /\ [][Next]_vars
FairSpec == Spec /\ Fairness

-----------------------------------------------------------------------------
(* Properties.                                                             *)

(* A history of an object: what the cache holds comes first.               *)
Versions(S) == {h \in Seq(S) : Len(h) \in 1 .. CacheLag + 1}

(* The variables have the types the declarations above describe.           *)
TypeOK ==
    /\ deployment \in Versions(Deployment)
    /\ mattermost \in Versions(Mattermost)
    /\ pass \in PC
    /\ newPods \in {"none", "starting", "ready"}
    /\ service \in {"old", "new"}
    /\ installation \in BOOLEAN /\ oldPods \in BOOLEAN

(* docs/migration.md, "should not experience any downtime": at every       *)
(* moment the service selects pods that are there and ready, through       *)
(* deletion, stale reads, failures and restarts.                           *)
NoDowntime ==
    /\ service = "old" => oldPods
    /\ service = "new" => newPods = "ready"

(* The deployment was deleted and the pass that was to create it again is  *)
(* over: recreateDeployment has nothing to copy the spec from.             *)
Stranded == Live(deployment) = "absent" /\ Live(mattermost) = "absent"

(* Once failures and restarts stop, the ClusterInstallation and its old    *)
(* pods are gone and the Mattermost resource is stable, unless a failure   *)
(* fell between deleting the deployment and creating it again.             *)
MigrationCompletes ==
    <>[][Ordinary]_vars
        => <>[](\/ ~installation /\ ~oldPods /\ Live(mattermost) = "stable"
                \/ Stranded)

=============================================================================
