-------------------------------- MODULE Patches --------------------------------
(***************************************************************************)
(* spec.resourcePatch: JSON patches on the generated service and           *)
(* deployments, and what the status says of them.  A patch is the path of  *)
(* its one operation, as the sequence of its segments; <<>> is the empty   *)
(* text, and Malformed is text that does not decode.                       *)
(***************************************************************************)
EXTENDS Generators

Malformed == <<"malformed">>

Pod == <<"spec", "template", "spec">>

forbiddenDeploymentPatchPrefixes ==
    {Append(Pod, field) :
        field \in {"hostNetwork", "hostPID", "hostIPC", "volumes", "serviceAccountName",
                   "serviceAccount", "nodeSelector", "nodeName", "initContainers"}}

forbiddenDeploymentPatchContains ==
    {"securityContext"} \X {"privileged", "allowPrivilegeEscalation", "runAsUser", "capabilities"}

forbiddenServicePatchPrefixes ==
    {<<"spec", field>> : field \in {"selector", "externalIPs", "externalName"}}

validateDeploymentPatch(patch) ==
    /\ patch # Malformed
    /\ ~\E prefix \in forbiddenDeploymentPatchPrefixes : IsPrefix(prefix, patch)
    /\ ~\E i \in 1 .. Len(patch) - 1 :
            <<patch[i], patch[i + 1]>> \in forbiddenDeploymentPatchContains

validateServicePatch(patch) ==
    /\ patch # Malformed
    /\ ~\E prefix \in forbiddenServicePatchPrefixes : IsPrefix(prefix, patch)

(* A patch that asks for something. *)
Active(patches) == {p.Patch : p \in {q \in patches : ~q.Disable /\ q.Patch # <<>>}}

DeploymentPatch(mm) == Active(UNION {rp.Deployment : rp \in mm.Spec.ResourcePatch})
ServicePatch(mm) == Active(UNION {rp.Service : rp \in mm.Spec.ResourcePatch})

(* What the patches of the model put in place. *)
PatchedReplicas == 7
PatchedTier == "gold"

applyToDeployment(patch, deployment) ==
    IF patch = <<"spec", "replicas">> THEN [deployment EXCEPT !.Replicas = {PatchedReplicas}]
    ELSE deployment

applyToService(patch, service) ==
    IF patch = <<"metadata", "annotations", "tier">>
    THEN [service EXCEPT !.Annotations =
            mergeStringMaps(@, [k \in {"tier"} |-> PatchedTier])]
    ELSE service

(* The object that is written: the generated one when the patch is refused. *)
ApplyToDeployment(mm, deployment) ==
    IF \E p \in DeploymentPatch(mm) : validateDeploymentPatch(p)
    THEN applyToDeployment(Deref(DeploymentPatch(mm), <<>>), deployment)
    ELSE deployment

ApplyToService(mm, service) ==
    IF \E p \in ServicePatch(mm) : validateServicePatch(p)
    THEN applyToService(Deref(ServicePatch(mm), <<>>), service)
    ELSE service

(* Fault: a patch that was refused is reported as applied. *)
ReportActive(patch, valid) == IF patch = {} THEN "none" ELSE "applied"

(* What a pass reports: "none" is a status that is cleared. *)
Report(patch, valid) ==
    CASE patch = {} -> "none"
      [] patch # {} /\ valid -> "applied"
      [] patch # {} /\ ~valid -> "error"

DeploymentPatchStatus(mm) ==
    Report(DeploymentPatch(mm), \E p \in DeploymentPatch(mm) : validateDeploymentPatch(p))

ServicePatchStatus(mm) ==
    Report(ServicePatch(mm), \E p \in ServicePatch(mm) : validateServicePatch(p))

=============================================================================
