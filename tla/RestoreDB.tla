------------------------------ MODULE RestoreDB ------------------------------
(***************************************************************************)
(* MattermostRestoreDBReconciler.Reconcile of                              *)
(* controllers/mattermost/mattermostrestoredb/controller.go: restoring the *)
(* MySQL database of a ClusterInstallation from a backup by scaling it to  *)
(* zero, deleting its volume claims and scaling it up again.               *)
(*                                                                         *)
(* The restores modelled are for one ClusterInstallation and name a        *)
(* backup (InitBucketURL is set), so the ClusterInstallation controller    *)
(* leaves zero replicas alone.  The controller has one worker.  Reads come *)
(* from the informer cache, writes need the newest resource version, and   *)
(* the reconciler keeps its state field between passes and across          *)
(* resources, but not across a restart.                                    *)
(***************************************************************************)
EXTENDS Naturals, Sequences

CONSTANTS
    Restores,     \* names of MattermostRestoreDB resources
    MaxReplicas,  \* bound on Spec.Database.Replicas
    CacheLag,     \* how many writes the informer cache may be behind, per object
    None          \* the object does not exist; no resource

ASSUME ConstantsAssumption ==
    /\ MaxReplicas \in Nat \ {0}
    /\ CacheLag \in Nat
    /\ None \notin Restores \cup Nat

VARIABLES
    status,       \* versions of each restore's status: Head cached, last live
    ci,           \* versions of the installation's Spec.Database.Replicas
    state,        \* MattermostRestoreDBReconciler.state
    queue,        \* the controller's work queue
    pass,         \* what the worker is doing
    statefulset,  \* replicas of the MySQL StatefulSet's spec
    pods,         \* MySQL pods, numbered from 1
    seen,         \* the pods the informer cache holds
    predating,    \* per restore, the pods' volume claims left from before it was created
    scaledBy      \* the restore that last scaled the database to zero

vars == <<status, ci, state, queue, pass, statefulset, pods, seen, predating, scaledBy>>
database == <<statefulset, pods, seen, predating>>

-----------------------------------------------------------------------------
Cached(versions) == Head(versions)
Live(versions)   == versions[Len(versions)]

Published(versions, v) ==
    LET all == Append(versions, v)
    IN  IF Len(all) > CacheLag + 1 THEN Tail(all) ELSE all

Replicas == 0 .. MaxReplicas

(* RestoreState; "new" stands for the empty string.                        *)
RestoreState == {"new", "restoring", "finished", "failed"}
Status == [state : RestoreState, original : Replicas]
Created == [state |-> "new", original |-> 0]

(* A pass: restore and status are restoreMM, newest tells whether its      *)
(* resource version is still the newest; replicas and fresh are the same   *)
(* for clusterInstallation; claim is the next volume claim to delete.      *)
Pass == [pc : {"idle", "get", "record", "down", "wait", "list", "pvc", "up", "finish",
              "fail"},
         restore : Restores \cup {None}, status : Status, newest : BOOLEAN,
         replicas : Replicas, fresh : BOOLEAN, claim : 1 .. MaxReplicas + 1]

Idle == [pc |-> "idle", restore |-> None, status |-> Created, newest |-> FALSE,
         replicas |-> 0, fresh |-> FALSE, claim |-> 1]

At(label)   == pass.pc = label
Goto(label) == pass' = [pass EXCEPT !.pc = label]

(* The pass ends without an error, or with one, which requeues it.         *)
Return  == pass' = Idle /\ UNCHANGED queue
Requeue == pass' = Idle /\ queue' = queue \cup {pass.restore}

(* The cache takes in a version of r, which puts r on the work queue.      *)
Notified(r) == IF Len(status[r]) > CacheLag THEN {r} ELSE {}

-----------------------------------------------------------------------------
Init ==
    /\ status = [r \in Restores |-> <<None>>]
    /\ \E n \in 1 .. MaxReplicas :
          ci = <<n>> /\ statefulset = n /\ pods = n /\ seen = n
    /\ state = "new"
    /\ queue = {}
    /\ pass = Idle
    /\ predating = [r \in Restores |-> {}]
    /\ scaledBy = None

(* Get the restore: it exists, is gone, or cannot be read.                 *)
Pick(r) ==
    /\ At("idle") /\ r \in queue
    /\ queue' = queue \ {r}
    /\ pass' = IF Cached(status[r]) = None THEN Idle
               ELSE [Idle EXCEPT !.pc = "get", !.restore = r,
                                 !.status = Cached(status[r]),
                                 !.newest = Len(status[r]) = 1]
    /\ UNCHANGED <<status, ci, state, database, scaledBy>>

PickFails(r) ==
    /\ At("idle") /\ r \in queue
    /\ state' = "failed"
    /\ UNCHANGED <<status, ci, queue, pass, database, scaledBy>>

(* Fault: a database that is up is taken to be down already.               *)
WaitAtOnce(replicas) == "wait"

(* What follows the status update: scale down unless that is done.         *)
ScaleDownOrWait(replicas) == IF replicas # 0 THEN "down" ELSE "wait"

GetInstallation ==
    /\ At("get") /\ Cached(ci) # None
    /\ pass' = [pass EXCEPT !.replicas = Cached(ci), !.fresh = Len(ci) = 1,
                            !.pc = IF pass.status.state # state THEN "record"
                                   ELSE ScaleDownOrWait(Cached(ci))]
    /\ UNCHANGED <<status, ci, state, queue, database, scaledBy>>

(* The installation is not found, or reading it fails.                     *)
Failing ==
    /\ At("get")
    /\ state' = "failed"
    /\ Goto("fail")
    /\ UNCHANGED <<status, ci, queue, database, scaledBy>>

InstallationMissing == Cached(ci) = None /\ Failing
InstallationUnread  == Cached(ci) # None /\ Failing

(* updateStatus: writes only what changed, with the version that was read. *)
Write(new) ==
    /\ pass.status = new \/ pass.newest
    /\ status' = IF pass.status = new THEN status
                 ELSE [status EXCEPT ![pass.restore] = Published(@, new)]

Event(new) == IF pass.status = new THEN {} ELSE Notified(pass.restore)

MarkFailed ==
    /\ At("fail")
    /\ LET new == [pass.status EXCEPT !.state = state]
       IN  /\ Write(new)
           /\ queue' = queue \cup Event(new)
    /\ pass' = Idle
    /\ UNCHANGED <<ci, state, database, scaledBy>>

(* The reconciler's state, whatever it is, becomes the restore's, and the  *)
(* current replicas become the original ones.                              *)
Record ==
    /\ At("record")
    /\ LET new == [state |-> state, original |-> pass.replicas]
       IN  /\ Write(new)
           /\ queue' = queue \cup Event(new)
           /\ pass' = [pass EXCEPT !.status = new, !.pc = ScaleDownOrWait(pass.replicas)]
    /\ UNCHANGED <<ci, state, database, scaledBy>>

RecordFails ==
    /\ At("record")
    /\ state' = "restoring"
    /\ Requeue
    /\ UNCHANGED <<status, ci, database, scaledBy>>

(* Update of the installation with replicas n; clusterInstallation then    *)
(* holds the version that was stored.                                      *)
Scale(n, label) ==
    /\ pass.fresh
    /\ ci' = Published(ci, n)
    /\ pass' = [pass EXCEPT !.replicas = n, !.pc = label]

ScaleDown ==
    /\ At("down")
    /\ Scale(0, "wait")
    /\ scaledBy' = pass.restore
    /\ UNCHANGED <<status, state, queue, database>>

(* The StatefulSet's ReadyReplicas and then the pods are read, each from   *)
(* the cache: both have to be gone.  Any of the pods may be ready; a       *)
(* ReadyReplicas that is staler than the pods ends the pass like           *)
(* CallFails.                                                              *)
NoneReady ==
    /\ At("wait")
    /\ Goto("list")
    /\ UNCHANGED <<status, ci, state, queue, database, scaledBy>>

PodsRemain ==
    /\ pass.pc \in {"wait", "list"} /\ seen # 0
    /\ Requeue
    /\ UNCHANGED <<status, ci, state, database, scaledBy>>

PodsGone ==
    /\ At("list") /\ seen = 0
    /\ Goto("pvc")
    /\ UNCHANGED <<status, ci, state, queue, database, scaledBy>>

(* Fault: the loop over the claims runs once too often.                    *)
DeleteClaimOffByOne ==
    /\ At("pvc") /\ pass.claim <= pass.status.original + 1
    /\ predating' = [r \in Restores |-> predating[r] \ {pass.claim}]
    /\ pass' = [pass EXCEPT !.claim = @ + 1]
    /\ UNCHANGED <<status, ci, state, queue, statefulset, pods, seen, scaledBy>>

(* Claims are deleted by name, one at a time; a missing one is skipped.    *)
DeleteClaim ==
    /\ At("pvc") /\ pass.claim <= pass.status.original
    /\ predating' = [r \in Restores |-> predating[r] \ {pass.claim}]
    /\ pass' = [pass EXCEPT !.claim = @ + 1]
    /\ UNCHANGED <<status, ci, state, queue, statefulset, pods, seen, scaledBy>>

ClaimsDeleted ==
    /\ At("pvc") /\ pass.claim > pass.status.original
    /\ Goto("up")
    /\ UNCHANGED <<status, ci, state, queue, database, scaledBy>>

(* Fault: the original replicas are restored as they were recorded.        *)
RestoredReplicasAsRecorded == pass.status.original

(* The original replicas, at least one.                                    *)
RestoredReplicas == IF pass.status.original = 0 THEN 1 ELSE pass.status.original

(* setFinished follows the update.                                         *)
ScaleUp ==
    /\ At("up")
    /\ Scale(RestoredReplicas, "finish")
    /\ state' = "finished"
    /\ UNCHANGED <<status, queue, database, scaledBy>>

Finish ==
    /\ At("finish")
    /\ LET new == [pass.status EXCEPT !.state = state]
       IN  /\ Write(new)
           /\ queue' = queue \cup Event(new)
    /\ pass' = Idle
    /\ UNCHANGED <<ci, state, database, scaledBy>>

(* The last status update fails, which is only logged.                     *)
FinishFails ==
    /\ At("finish")
    /\ Return
    /\ UNCHANGED <<status, ci, state, database, scaledBy>>

(* Any other call fails, the update of the MySQL secret included.          *)
CallFails ==
    /\ pass.pc \in {"fail", "down", "wait", "list", "pvc", "up"}
    /\ At("fail") => pass.status.state # state
    /\ Requeue
    /\ UNCHANGED <<status, ci, state, database, scaledBy>>

(* Calls that are certain to fail because the object has changed since.    *)
Outdated ==
    \/ pass.pc \in {"down", "up"} /\ ~pass.fresh /\ CallFails
    \/ At("fail") /\ ~pass.newest /\ CallFails
    \/ ~pass.newest /\ (RecordFails \/ FinishFails)

-----------------------------------------------------------------------------
(* The surroundings.                                                       *)

(* The ClusterInstallation controller and the MySQL operator follow the    *)
(* spec; a StatefulSet starts and stops its pods in order.                 *)
Wanted == IF Live(ci) = None THEN 0 ELSE Live(ci)

Rescale ==
    /\ statefulset # Wanted
    /\ statefulset' = Wanted
    /\ UNCHANGED <<status, ci, state, queue, pass, pods, seen, predating, scaledBy>>

StartPod ==
    /\ pods < statefulset
    /\ pods' = pods + 1
    /\ UNCHANGED <<status, ci, state, queue, pass, statefulset, seen, predating, scaledBy>>

StopPod ==
    /\ pods > statefulset
    /\ pods' = pods - 1
    /\ UNCHANGED <<status, ci, state, queue, pass, statefulset, seen, predating, scaledBy>>

DeliverPods ==
    /\ seen # pods
    /\ seen' = pods
    /\ UNCHANGED <<status, ci, state, queue, pass, statefulset, pods, predating, scaledBy>>

DeliverStatus(r) ==
    /\ Len(status[r]) > 1
    /\ status' = [status EXCEPT ![r] = Tail(@)]
    /\ queue' = queue \cup {r}
    /\ UNCHANGED <<ci, state, pass, database, scaledBy>>

DeliverInstallation ==
    /\ Len(ci) > 1
    /\ ci' = Tail(ci)
    /\ UNCHANGED <<status, state, queue, pass, database, scaledBy>>

CreateRestore(r) ==
    /\ Live(status[r]) = None
    /\ status' = [status EXCEPT ![r] = Published(@, Created)]
    /\ queue' = queue \cup Notified(r)
    /\ predating' = [predating EXCEPT ![r] = 1 .. pods]
    /\ UNCHANGED <<ci, state, pass, statefulset, pods, seen, scaledBy>>

DeleteRestore(r) ==
    /\ Live(status[r]) # None
    /\ status' = [status EXCEPT ![r] = Published(@, None)]
    /\ queue' = queue \cup Notified(r)
    /\ pass' = IF pass.restore = r THEN [pass EXCEPT !.newest = FALSE] ELSE pass
    /\ predating' = [predating EXCEPT ![r] = {}]
    /\ UNCHANGED <<ci, state, statefulset, pods, seen, scaledBy>>

(* The user edits a restore's spec or metadata.                            *)
EditRestore(r) ==
    /\ Live(status[r]) # None
    /\ status' = [status EXCEPT ![r] = Published(@, Live(@))]
    /\ queue' = queue \cup Notified(r)
    /\ pass' = IF pass.restore = r THEN [pass EXCEPT !.newest = FALSE] ELSE pass
    /\ UNCHANGED <<ci, state, database, scaledBy>>

(* The installation is created, scaled or deleted by its user, or written  *)
(* by its own controller, which changes nothing here but its version.      *)
WriteInstallation ==
    /\ \E v \in 1 .. MaxReplicas \cup {Live(ci), None} :
          (v = None => Live(ci) # None) /\ ci' = Published(ci, v)
    /\ pass' = [pass EXCEPT !.fresh = FALSE]
    /\ UNCHANGED <<status, state, queue, database, scaledBy>>

(* The operator restarts: the caches are filled anew and every existing    *)
(* restore is put on the queue.                                            *)
Restart ==
    /\ status' = [r \in Restores |-> <<Live(status[r])>>]
    /\ ci' = <<Live(ci)>>
    /\ state' = "new"
    /\ queue' = {r \in Restores : Live(status[r]) # None}
    /\ pass' = Idle
    /\ seen' = pods
    /\ UNCHANGED <<statefulset, pods, predating, scaledBy>>

-----------------------------------------------------------------------------
Work ==
    \/ GetInstallation \/ InstallationMissing \/ MarkFailed \/ Record \/ ScaleDown
    \/ PodsRemain \/ NoneReady \/ PodsGone \/ DeleteClaim \/ ClaimsDeleted \/ ScaleUp \/ Finish
    \/ Outdated

MySQL == Rescale \/ StartPod \/ StopPod

Ordinary ==
    \/ Work
    \/ MySQL
    \/ \E r \in Restores : Pick(r) \/ DeliverStatus(r)
    \/ DeliverInstallation \/ DeliverPods

Disturbance ==
    \/ \E r \in Restores : PickFails(r) \/ CreateRestore(r) \/ EditRestore(r) \/ DeleteRestore(r)
    \/ InstallationUnread \/ RecordFails \/ FinishFails \/ CallFails
    \/ WriteInstallation
    \/ Restart

Next == Ordinary \/ Disturbance

(* A started pass goes on, the queue is first in first out, informers and  *)
(* the MySQL operator keep up.                                             *)
Fairness ==
    /\ WF_vars(Work)
    /\ WF_vars(MySQL)
    /\ \A r \in Restores : SF_vars(Pick(r)) /\ WF_vars(DeliverStatus(r))
    /\ WF_vars(DeliverInstallation) /\ WF_vars(DeliverPods)

Spec == Init /\ [][Next]_vars
FairSpec == Spec /\ Fairness

-----------------------------------------------------------------------------
(* Properties.                                                             *)

(* The variables have the types the declarations above describe.           *)
TypeOK ==
    /\ status \in [Restores -> Seq(Status \cup {None})]
    /\ \A r \in Restores : Len(status[r]) \in 1 .. CacheLag + 1
    /\ ci \in Seq(Replicas \cup {None}) /\ Len(ci) \in 1 .. CacheLag + 1
    /\ state \in RestoreState
    /\ queue \subseteq Restores
    /\ pass \in Pass
    /\ statefulset \in Replicas /\ pods \in Replicas /\ seen \in Replicas
    /\ predating \in [Restores -> SUBSET (1 .. MaxReplicas)]
    /\ scaledBy \in Restores \cup {None}

(* While a pass waits for the pods, deletes claims and is about to put the *)
(* replicas back, the installation is at zero, or somebody has written it  *)
(* since the pass read it, and then the pass cannot write it: a number of  *)
(* replicas that a user asks for in the meantime is never overwritten, and *)
(* an installation that a pass found up is scaled down before its claims   *)
(* go, however old the cache and wherever passes were cut short            *)
(* (Reconcile, from the scaling on).                                       *)
DownWhileRestoring ==
    pass.pc \in {"wait", "list", "pvc", "up"} /\ pass.fresh => Live(ci) = 0

(* Reconcile never leaves a database scaled to zero for good: once         *)
(* failures, restarts and users' writes stop it is scaled up again, unless *)
(* the restore that scaled it down was deleted or is marked failed.  That  *)
(* includes a restart between the two updates, which makes the next pass   *)
(* record zero as the original number of replicas.                         *)
DatabaseComesBack ==
    <>[][Ordinary]_vars
        => []<>(\/ Live(ci) # 0
                \/ Live(status[scaledBy]) = None
                \/ Live(status[scaledBy]).state = "failed")

(* A restore that says it is finished has removed the volume claims of the *)
(* pods it found, so that the new pods start from the backup.              *)
FinishedMeansRestored ==
    \A r \in Restores :
        Live(status[r]) # None /\ Live(status[r]).state = "finished"
            => predating[r] = {}

=============================================================================
