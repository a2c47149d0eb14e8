---------------------------- MODULE OwnedObjects ----------------------------
(***************************************************************************)
(* The calls of a pass of the Mattermost controller on the objects it      *)
(* owns, through the helpers of pkg/resources/create_resources.go, and the *)
(* health check that closes the pass (health_check.go,                     *)
(* pkg/mattermost/healthcheck).                                            *)
(*                                                                         *)
(* The helpers read the informer cache, which may be behind the API        *)
(* server; the health check reads the API server, one kind after the       *)
(* other.  In between users edit the spec and delete objects, pods come    *)
(* and go, calls fail and the operator restarts.  The image of the         *)
(* deployment does not change here (UpdateJob); Template is the rest of    *)
(* the pod template.  Of what a pass writes to the Mattermost itself only  *)
(* the status at its end is here (the rest: ReconcileLimit).               *)
(***************************************************************************)
EXTENDS Naturals, Sequences, FiniteSets

CONSTANTS
    Templates,        \* pod templates a spec can ask for
    Specs,            \* the specs users write
    FirstSpecs,       \* those an installation is created with
    Replicas,         \* spec.replicas
    CacheLag,         \* how many writes of others the cache may be behind
    MaxDisturbances,  \* number of edits, deletions, failures and restarts
    None              \* the object does not exist

ASSUME ConstantsAssumption ==
    /\ Replicas \in Nat
    /\ CacheLag \in Nat \ {0}
    /\ MaxDisturbances \in Nat
    /\ None \notin Templates /\ IsFiniteSet(Templates)
    /\ Specs \subseteq [UseServiceLoadBalancer : BOOLEAN, Ingress : BOOLEAN,
                        Template : Templates]
    /\ FirstSpecs \subseteq Specs

VARIABLES
    mattermost,   \* versions of the Mattermost: Head cached, last live
    objects,      \* the same for each owned object
    pods,         \* available pods of the replica set of each template
    seen,         \* templates whose replica set its controller has observed
    address,      \* the load balancer of the service has an address
    queued,       \* the Mattermost is in the work queue
    pass,         \* the pass that is under way
    disturbances  \* how much has gone wrong so far

vars == <<mattermost, objects, pods, seen, address, queued, pass, disturbances>>

-----------------------------------------------------------------------------
Cached(versions) == Head(versions)
Live(versions)   == versions[Len(versions)]

Write(versions, v) == IF v = Live(versions) THEN versions ELSE Append(versions, v)

(* Others than the operator write while the cache is close enough, and the *)
(* operator deletes one write later.                                       *)
Room(versions) == Len(versions) <= CacheLag
DeleteRoom(versions) == Len(versions) <= CacheLag + 1
Current(versions) == Len(versions) = 1

RunningState == {"reconciling", "ready", "stable"}

Mattermost == [Spec : Specs, Generation : Nat, State : RunningState]

(* The kinds in the order of checkMattermost. *)
Kinds == <<"Service", "Ingress", "Deployment">>
Kind  == {"Service", "Ingress", "Deployment"}

(* value is what a spec decides; the rest is the Deployment controller's:  *)
(* observed is Generation = ObservedGeneration, revision the template of   *)
(* the replica set that has the revision of the deployment, and replicas   *)
(* Status.Replicas.                                                        *)
Values == Templates \cup {"LoadBalancer", "ClusterIP", "rules"}
Object == [value : Values, observed : BOOLEAN,
           revision : Templates \cup {None}, replicas : Nat]

Desired(kind, spec) ==
    CASE kind = "Service"    -> IF spec.UseServiceLoadBalancer THEN "LoadBalancer" ELSE "ClusterIP"
      [] kind = "Ingress"    -> "rules"
      [] kind = "Deployment" -> spec.Template

(* An ingress that is not looked at under a load balancer is left alone.   *)
Checked(kind, spec) == kind = "Ingress" => ~spec.UseServiceLoadBalancer
Wanted(kind, spec)  == kind = "Ingress" => spec.Ingress

New(value) == [value |-> value, observed |-> FALSE, revision |-> None, replicas |-> 0]

(* The number of pods that are available. *)
Total == Cardinality({p \in Templates \X (1 .. Replicas) : p[2] <= pods[p[1]]})

Idle == [pc |-> "idle", at |-> 1, read |-> None, behind |-> FALSE,
         replicas |-> 0, revision |-> None, updated |-> 0]

(* behind: the deployment was read from a cache that was out of date. *)
Pass == [pc : {"idle", "ensure", "get", "recreate", "rollout", "count", "conclude"},
         at : 1 .. 3, read : Mattermost \cup {None}, behind : BOOLEAN,
         replicas : Nat, revision : Templates \cup {None}, updated : 0 .. Replicas]

At(pc) == pass.pc = pc
Here   == Kinds[pass.at]

-----------------------------------------------------------------------------
(* How a pass ends. *)

(* updateStatus: refused when the resource changed since the pass read it. *)
Accepted == Live(mattermost) = pass.read

UpdateStatus(state) ==
    mattermost' = IF Accepted THEN Write(mattermost, [pass.read EXCEPT !.State = state])
                  ELSE mattermost

Return(again) ==
    /\ pass' = Idle
    /\ queued' = (queued \/ again)

(* updateStatusReconcilingAndLogError, and the error is returned. *)
Error == UpdateStatus("reconciling") /\ Return(TRUE)

(* The next kind that is checked, or the health check after the last one. *)
Proceed ==
    /\ pass' = IF pass.at = 3 THEN [pass EXCEPT !.pc = "rollout"]
               ELSE [pass EXCEPT !.pc = "ensure",
                                 !.at = IF Checked(Kinds[@ + 1], pass.read.Spec)
                                        THEN @ + 1 ELSE @ + 2]
    /\ UNCHANGED <<mattermost, queued>>

Goto(pc) == pass' = [pass EXCEPT !.pc = pc] /\ UNCHANGED <<mattermost, queued>>

Put(kind, v) == objects' = [objects EXCEPT ![kind] = Write(@, v)]

Begin ==
    /\ At("idle")
    /\ queued
    /\ queued' = FALSE
    /\ pass' = [Idle EXCEPT !.pc = "ensure", !.read = Cached(mattermost)]
    /\ UNCHANGED <<mattermost, objects, pods, seen, address, disturbances>>

(* Create*IfNotExists: an object that is missing in the cache is created;  *)
(* when it exists after all the call fails.  One that is found is compared *)
(* at once, below.                                                         *)
Ensure ==
    /\ At("ensure")
    /\ Wanted(Here, pass.read.Spec)
    /\ Cached(objects[Here]) = None
    /\ IF Live(objects[Here]) = None
       THEN Put(Here, New(Desired(Here, pass.read.Spec))) /\ Goto("get")
       ELSE Error /\ UNCHANGED objects
    /\ UNCHANGED <<pods, seen, address, disturbances>>

(* Delete*: nothing to do for an object that the cache does not have. *)
Remove ==
    /\ At("ensure")
    /\ ~Wanted(Here, pass.read.Spec)
    /\ DeleteRoom(objects[Here])
    /\ CASE Cached(objects[Here]) = None -> Proceed /\ UNCHANGED objects
         [] Cached(objects[Here]) # None /\ Live(objects[Here]) # None -> Put(Here, None) /\ Proceed
         [] OTHER -> Error /\ UNCHANGED objects
    /\ UNCHANGED <<pods, seen, address, disturbances>>

-----------------------------------------------------------------------------
(* The object is read from the cache (again, if it was created), and       *)
(* compared.                                                               *)

Found ==
    /\ At("get") \/ (At("ensure") /\ Wanted(Here, pass.read.Spec))
    /\ Cached(objects[Here]) # None

Differs == Cached(objects[Here]).value # Desired(Here, pass.read.Spec)

GetMisses ==
    /\ At("get")
    /\ Cached(objects[Here]) = None
    /\ Error
    /\ UNCHANGED <<objects, pods, seen, address, disturbances>>

Unchanged ==
    /\ Found
    /\ ~Differs
    /\ IF Here = "Deployment"
       THEN /\ pass' = [pass EXCEPT !.pc = "rollout", !.behind = ~Current(objects[Here])]
            /\ UNCHANGED <<mattermost, queued>>
       ELSE Proceed
    /\ UNCHANGED <<objects, pods, seen, address, disturbances>>

(* ResourceHelper.Update: with the resource version of the cache, so that  *)
(* the API server refuses it when the cache is behind.                     *)
Update ==
    /\ Found
    /\ Here # "Service"
    /\ Differs
    /\ IF Current(objects[Here])
       THEN /\ Put(Here, [Live(objects[Here]) EXCEPT !.value = Desired(Here, pass.read.Spec),
                                                     !.observed = FALSE])
            /\ Proceed
       ELSE Error /\ UNCHANGED objects
    /\ UNCHANGED <<pods, seen, address, disturbances>>

(* A service of another type is deleted and created again: by name, so     *)
(* that with an old cache it is the new service that goes.  (The second    *)
(* read, in the helper DeleteService, is taken to find what the first did.) *)
DeleteService ==
    /\ Found
    /\ Here = "Service"
    /\ Differs
    /\ DeleteRoom(objects[Here])
    /\ IF Live(objects[Here]) = None
       THEN Error /\ UNCHANGED <<objects, address>>
       ELSE Put(Here, None) /\ address' = FALSE /\ Goto("recreate")
    /\ UNCHANGED <<pods, seen, disturbances>>

Recreate ==
    /\ At("recreate")
    /\ Put(Here, New(Desired(Here, pass.read.Spec)))
    /\ Proceed
    /\ UNCHANGED <<pods, seen, address, disturbances>>

-----------------------------------------------------------------------------
(* The health check. *)

(* The status that goes with a failed check is written if it can be, and   *)
(* the pass comes back after a delay.                                      *)
Unhealthy(state) == UpdateStatus(state) /\ Return(TRUE)

Deployment == Live(objects["Deployment"])

(* Fault: a deployment that its controller has not looked at yet counts.   *)
RolloutOfAnyGeneration ==
    /\ At("rollout")
    /\ IF Deployment = None
       THEN Unhealthy("reconciling")
       ELSE /\ pass' = [pass EXCEPT !.pc = "count", !.replicas = Deployment.replicas,
                                    !.revision = Deployment.revision]
            /\ UNCHANGED <<mattermost, queued>>
    /\ UNCHANGED <<objects, pods, seen, address, disturbances>>

(* CheckReplicaSetRollout, first read: the deployment. *)
Rollout ==
    /\ At("rollout")
    /\ IF Deployment = None \/ ~Deployment.observed
       THEN Unhealthy("reconciling")
       ELSE /\ pass' = [pass EXCEPT !.pc = "count", !.replicas = Deployment.replicas,
                                    !.revision = Deployment.revision]
            /\ UNCHANGED <<mattermost, queued>>
    /\ UNCHANGED <<objects, pods, seen, address, disturbances>>

(* Fault: the pods of every replica set are counted. *)
CountAll ==
    /\ At("count")
    /\ IF pass.revision \notin seen
       THEN Unhealthy("reconciling")
       ELSE /\ pass' = [pass EXCEPT !.pc = "conclude", !.updated = Total]
            /\ UNCHANGED <<mattermost, queued>>
    /\ UNCHANGED <<objects, pods, seen, address, disturbances>>

(* Second read: the replica set with the revision of the deployment. *)
Count ==
    /\ At("count")
    /\ IF pass.revision \notin seen
       THEN Unhealthy("reconciling")
       ELSE /\ pass' = [pass EXCEPT !.pc = "conclude", !.updated = pods[pass.revision]]
            /\ UNCHANGED <<mattermost, queued>>
    /\ UNCHANGED <<objects, pods, seen, address, disturbances>>

(* CheckServiceLoadBalancer, CheckIngressLoadBalancer. *)
Endpoint ==
    IF pass.read.Spec.UseServiceLoadBalancer
    THEN Live(objects["Service"]) # None /\ address
    ELSE pass.read.Spec.Ingress => Live(objects["Ingress"]) # None

(* Fault: a pass that finds the installation unhealthy does not come back. *)
ConcludeForgets ==
    /\ At("conclude")
    /\ LET ready == (Replicas > 0 => pass.updated > 0) /\ Endpoint
           healthy == ready /\ pass.updated = Replicas /\ pass.replicas = Replicas
       IN CASE healthy           -> UpdateStatus("stable") /\ Return(~Accepted)
            [] ready /\ ~healthy -> UpdateStatus("ready") /\ Return(FALSE)
            [] OTHER             -> UpdateStatus("reconciling") /\ Return(FALSE)
    /\ UNCHANGED <<objects, pods, seen, address, disturbances>>

(* The rest of checkMattermostHealth and of the pass.  Without replicas an *)
(* installation is never ready, only stable.                               *)
Conclude ==
    /\ At("conclude")
    /\ LET ready == (Replicas > 0 => pass.updated > 0) /\ Endpoint
           healthy == ready /\ pass.updated = Replicas /\ pass.replicas = Replicas
       IN CASE healthy -> UpdateStatus("stable") /\ Return(~Accepted)
            [] ready /\ ~healthy -> Unhealthy(IF Replicas > 0 THEN "ready" ELSE "reconciling")
            [] OTHER -> Unhealthy("reconciling")
    /\ UNCHANGED <<objects, pods, seen, address, disturbances>>

-----------------------------------------------------------------------------
(* The rest of the cluster. *)

Deliver(kind) ==
    /\ ~Current(objects[kind])
    /\ objects' = [objects EXCEPT ![kind] = Tail(@)]
    /\ queued' = TRUE
    /\ UNCHANGED <<mattermost, pods, seen, address, pass, disturbances>>

DeliverMattermost ==
    /\ ~Current(mattermost)
    /\ mattermost' = Tail(mattermost)
    /\ queued' = TRUE
    /\ UNCHANGED <<objects, pods, seen, address, pass, disturbances>>

(* The Deployment controller picks a new generation up, or reports the     *)
(* number of pods it finds.                                                *)
ObserveDeployment ==
    /\ Deployment # None
    /\ Room(objects["Deployment"])
    /\ ~Deployment.observed \/ Deployment.replicas # Total
    /\ Put("Deployment", [Deployment EXCEPT !.observed = TRUE, !.revision = Deployment.value,
                                            !.replicas = Total])
    /\ UNCHANGED <<mattermost, pods, seen, address, queued, pass, disturbances>>

RollingOut == Deployment # None /\ Deployment.observed

ObserveReplicaSet ==
    /\ RollingOut
    /\ Deployment.revision \notin seen
    /\ seen' = seen \cup {Deployment.revision}
    /\ UNCHANGED <<mattermost, objects, pods, address, queued, pass, disturbances>>

(* One pod more than asked for at a time, and one fewer that is available. *)
StartPod ==
    /\ RollingOut
    /\ Deployment.revision \in seen
    /\ pods[Deployment.revision] < Replicas
    /\ Total <= Replicas
    /\ pods' = [pods EXCEPT ![Deployment.revision] = @ + 1]
    /\ UNCHANGED <<mattermost, objects, seen, address, queued, pass, disturbances>>

StopOldPod ==
    /\ RollingOut
    /\ Total >= Replicas
    /\ \E t \in Templates \ {Deployment.revision} :
        /\ pods[t] > 0
        /\ pods' = [pods EXCEPT ![t] = @ - 1]
    /\ UNCHANGED <<mattermost, objects, seen, address, queued, pass, disturbances>>

AssignAddress ==
    /\ ~address
    /\ Live(objects["Service"]) # None
    /\ Live(objects["Service"]).value = "LoadBalancer"
    /\ address' = TRUE
    /\ UNCHANGED <<mattermost, objects, pods, seen, queued, pass, disturbances>>

-----------------------------------------------------------------------------
(* What goes wrong, or changes. *)

Disturb == disturbances < MaxDisturbances /\ disturbances' = disturbances + 1

EditSpec ==
    /\ Disturb
    /\ Room(mattermost)
    /\ \E spec \in Specs \ {Live(mattermost).Spec} :
        mattermost' = Append(mattermost, [Live(mattermost) EXCEPT !.Spec = spec,
                                                                  !.Generation = @ + 1])
    /\ UNCHANGED <<objects, pods, seen, address, queued, pass>>

(* The pods of a deployment are deleted with it. *)
DeleteObject(kind) ==
    /\ Disturb
    /\ Room(objects[kind])
    /\ Live(objects[kind]) # None
    /\ Put(kind, None)
    /\ pods' = IF kind = "Deployment" THEN [t \in Templates |-> 0] ELSE pods
    /\ seen' = IF kind = "Deployment" THEN {} ELSE seen
    /\ address' = (address /\ kind # "Service")
    /\ UNCHANGED <<mattermost, queued, pass>>

PodFails ==
    /\ Disturb
    /\ \E t \in Templates : pods[t] > 0 /\ pods' = [pods EXCEPT ![t] = @ - 1]
    /\ UNCHANGED <<mattermost, objects, seen, address, queued, pass>>

(* A call of the pass fails, and the status write after it may fail too. *)
CallFails ==
    /\ Disturb
    /\ ~At("idle")
    /\ Error \/ (Return(TRUE) /\ UNCHANGED mattermost)
    /\ UNCHANGED <<objects, pods, seen, address>>

(* The new process lists everything, which queues the Mattermost. *)
Restart ==
    /\ Disturb
    /\ mattermost' = <<Live(mattermost)>>
    /\ objects' = [k \in Kind |-> <<Live(objects[k])>>]
    /\ pass' = Idle
    /\ queued' = TRUE
    /\ UNCHANGED <<pods, seen, address>>

Init ==
    /\ \E spec \in FirstSpecs :
        mattermost = <<[Spec |-> spec, Generation |-> 1, State |-> "reconciling"]>>
    /\ objects = [k \in Kind |-> <<None>>]
    /\ pods = [t \in Templates |-> 0]
    /\ seen = {}
    /\ address = FALSE
    /\ queued = TRUE
    /\ pass = Idle
    /\ disturbances = 0

Operator ==
    \/ Begin \/ Ensure \/ Remove
    \/ GetMisses \/ Unchanged \/ Update \/ DeleteService \/ Recreate
    \/ Rollout \/ Count \/ Conclude

Next ==
    \/ Operator
    \/ DeliverMattermost
    \/ \E kind \in Kind : Deliver(kind) \/ DeleteObject(kind)
    \/ ObserveDeployment \/ ObserveReplicaSet \/ StartPod \/ StopOldPod \/ AssignAddress
    \/ EditSpec \/ PodFails \/ CallFails \/ Restart

(* The operator runs, the cache catches up, and Kubernetes does its work.  *)
Fairness ==
    /\ WF_vars(Operator)
    /\ WF_vars(DeliverMattermost)
    /\ \A kind \in Kind : WF_vars(Deliver(kind))
    /\ WF_vars(ObserveDeployment) /\ WF_vars(ObserveReplicaSet)
    /\ WF_vars(StartPod) /\ WF_vars(StopOldPod) /\ WF_vars(AssignAddress)

Spec == Init /\ [][Next]_vars /\ Fairness

-----------------------------------------------------------------------------
(* The cache is never further behind than it may be, a pass counts no more *)
(* updated pods than the spec asks for, and everything else has its type   *)
(* (ResourceHelper, CheckReplicaSetRollout).                               *)
TypeOK ==
    /\ mattermost \in Seq(Mattermost) /\ Len(mattermost) \in 1 .. CacheLag + 1
    /\ objects \in [Kind -> Seq(Object \cup {None})]
    /\ \A k \in Kind : Len(objects[k]) \in 1 .. CacheLag + 3
    /\ pods \in [Templates -> 0 .. Replicas]
    /\ seen \subseteq Templates
    /\ address \in BOOLEAN
    /\ queued \in BOOLEAN
    /\ pass \in Pass
    /\ disturbances \in 0 .. MaxDisturbances

(* When the health check finds all pods updated, they are pods of the      *)
(* template that this pass asked for: neither those of a rollout that has  *)
(* not begun, nor those of an earlier one (CheckReplicaSetRollout).  Not   *)
(* so if the pass took the deployment from a cache that was behind: it may *)
(* have asked for nothing, for a template that is no longer there.         *)
RolloutCounted ==
    [][At("count") /\ pass'.pc = "conclude" /\ pass'.updated = Replicas /\ ~pass.behind =>
            pods[pass.read.Spec.Template] = Replicas]_vars

(* What the live spec asks for is there, and the status says so. *)
Converged ==
    LET spec == Live(mattermost).Spec
    IN /\ Live(mattermost).State = "stable"
       /\ \A k \in Kind : Checked(k, spec) =>
            IF Wanted(k, spec)
            THEN Live(objects[k]) # None /\ Live(objects[k]).value = Desired(k, spec)
            ELSE Live(objects[k]) = None
       /\ pods[spec.Template] = Replicas /\ Total = Replicas

(* Once edits, deletions, failures and restarts stop, the objects come to  *)
(* be what the newest spec asks for and the installation stable, for good: *)
(* however far the cache was behind when objects were created, compared or *)
(* deleted, and wherever a pass was cut short (Reconcile, ResourceHelper). *)
Converges == <>[]Converged

=============================================================================
