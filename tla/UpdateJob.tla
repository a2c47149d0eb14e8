------------------------------ MODULE UpdateJob ------------------------------
(***************************************************************************)
(* Image upgrades of the Mattermost deployment:                            *)
(* checkMattermostDeployment, updateMattermostDeployment, checkUpdateJob   *)
(* and cleanupUpdateJob of controllers/mattermost/mattermost/mattermost.go *)
(* with the update job helpers of pkg/resources/update_job.go.             *)
(*                                                                         *)
(* The installations modelled live in one namespace, so they share the one *)
(* job called UpdateJobName.  Every API call is a step of its own; reads   *)
(* come from the informer cache, and a pass may be cut short anywhere.     *)
(***************************************************************************)
EXTENDS Naturals, Sequences, FiniteSets

CONSTANTS
    Installations,  \* Mattermost resources of one namespace
    Images,         \* images of the main container
    CacheLag,       \* how many writes the informer cache may be behind, per object
    None            \* the object does not exist

ASSUME ConstantsAssumption ==
    /\ CacheLag \in Nat
    /\ None \notin Images

VARIABLES
    spec,        \* image and UpdateJob.Disabled of each Mattermost resource
    deployment,  \* versions of each deployment (its image): Head cached, last live
    job,         \* versions of the update job: Head cached, last live
    pass,        \* the reconciler's pass over each resource
    verified     \* <<m, i>>: a job of m ran image i to the end without a failed pod

vars == <<spec, deployment, job, pass, verified>>

-----------------------------------------------------------------------------
(* Objects of the API server seen through a cache.                         *)

Cached(versions) == Head(versions)
Live(versions)   == versions[Len(versions)]

Published(versions, v) ==
    LET all == Append(versions, v)
    IN  IF Len(all) > CacheLag + 1 THEN Tail(all) ELSE all

Wanted == [image : Images, disabled : BOOLEAN]

(* running and gaveup have no Status.CompletionTime, which Kubernetes sets *)
(* when a job succeeds and only then; failed is Status.Failed > 0.         *)
Job == [image : Images, owner : Installations,
        phase : {"running", "gaveup", "complete"}, failed : BOOLEAN]

(* current is the cached deployment at its newest version when compared.   *)
Pass == [pc : {"idle", "compare", "check", "launch", "delete", "create",
               "apply", "cleanup", "roll"},
         image : Images \cup {None}, disabled : BOOLEAN, current : BOOLEAN]

Idle == [pc |-> "idle", image |-> None, disabled |-> FALSE, current |-> FALSE]

Goto(m, label) == pass' = [pass EXCEPT ![m].pc = label]
Return(m)      == pass' = [pass EXCEPT ![m] = Idle]

-----------------------------------------------------------------------------
Init ==
    /\ spec \in [Installations -> [image : Images, disabled : {FALSE}]]
    /\ deployment = [m \in Installations |-> <<None>>]
    /\ job = <<None>>
    /\ pass = [m \in Installations |-> Idle]
    /\ verified = {}

(* Reconcile read the resource and reached checkMattermostDeployment.      *)
Begin(m) ==
    /\ pass[m].pc = "idle"
    /\ pass' = [pass EXCEPT ![m] = [pc |-> "compare", image |-> spec[m].image,
                                    disabled |-> spec[m].disabled, current |-> FALSE]]
    /\ UNCHANGED <<spec, deployment, job, verified>>

(* CreateDeploymentIfNotExists: created, or refused because the cache is   *)
(* behind; the pass has nothing left to compare either way.                *)
CreateDeployment(m) ==
    /\ pass[m].pc = "compare"
    /\ Cached(deployment[m]) = None
    /\ deployment' = IF Live(deployment[m]) = None
                     THEN [deployment EXCEPT ![m] = Published(@, pass[m].image)]
                     ELSE deployment
    /\ Return(m)
    /\ UNCHANGED <<spec, job, verified>>

(* isMainDeploymentContainerImageSame: no job is needed.                   *)
SameImage(m) ==
    /\ pass[m].pc = "compare"
    /\ Cached(deployment[m]) = pass[m].image
    /\ Return(m)
    /\ UNCHANGED <<spec, deployment, job, verified>>

(* The image differs: the job decides unless it is disabled.               *)
OtherImage(m) ==
    /\ pass[m].pc = "compare"
    /\ Cached(deployment[m]) \notin {None, pass[m].image}
    /\ pass' = [pass EXCEPT ![m].pc = IF pass[m].disabled THEN "roll" ELSE "check",
                            ![m].current = Len(deployment[m]) = 1]
    /\ UNCHANGED <<spec, deployment, job, verified>>

(* Fault: the job's image is not compared with the desired one.            *)
VerdictIgnoresImage(j, image) ==
    IF j = None THEN "launch"
    ELSE IF j.phase # "complete" THEN "idle"
    ELSE IF j.failed THEN "cleanup"
    ELSE "apply"

(* Fault: the failed pods of a completed job are not looked at.            *)
VerdictIgnoresFailed(j, image) ==
    IF j = None THEN "launch"
    ELSE IF j.image # image THEN "delete"
    ELSE IF j.phase # "complete" THEN "idle"
    ELSE "apply"

(* Fault: a job with another image is left to run.                         *)
VerdictNeverRestarts(j, image) ==
    IF j = None THEN "launch"
    ELSE IF j.image # image \/ j.phase # "complete" THEN "idle"
    ELSE IF j.failed THEN "cleanup"
    ELSE "apply"

(* checkUpdateJob on the job it fetched: where the pass continues.         *)
Verdict(j, image) ==
    IF j = None THEN "launch"
    ELSE IF j.image # image THEN "delete"
    ELSE IF j.phase # "complete" THEN "idle"
    ELSE IF j.failed THEN "cleanup"
    ELSE "apply"

CheckUpdateJob(m) ==
    /\ pass[m].pc = "check"
    /\ LET next == Verdict(Cached(job), pass[m].image)
       IN  IF next = "idle" THEN Return(m) ELSE Goto(m, next)
    /\ UNCHANGED <<spec, deployment, job, verified>>

(* Fault: the job gets no owner reference.                                 *)
NewJobUnowned(m) ==
    [image |-> pass[m].image, owner |-> None, phase |-> "running", failed |-> FALSE]

(* PrepareMattermostJobTemplate with m as the owner.                       *)
NewJob(m) == [image |-> pass[m].image, owner |-> m, phase |-> "running", failed |-> FALSE]

(* LaunchMattermostUpdateJob; AlreadyExists is not an error.               *)
Launch(m) ==
    /\ pass[m].pc = "launch"
    /\ job' = IF Live(job) = None THEN Published(job, NewJob(m)) ELSE job
    /\ Return(m)
    /\ UNCHANGED <<spec, deployment, verified>>

(* RestartMattermostUpdateJob, first call: delete the job by its name,     *)
(* whichever job has that name by now; NotFound is not an error.           *)
DeleteOutdated(m) ==
    /\ pass[m].pc = "delete"
    /\ job' = IF Live(job) = None THEN job ELSE Published(job, None)
    /\ Goto(m, "create")
    /\ UNCHANGED <<spec, deployment, verified>>

(* ... second call: create the new job; here AlreadyExists is an error.    *)
CreateAgain(m) ==
    /\ pass[m].pc = "create"
    /\ job' = IF Live(job) = None THEN Published(job, NewJob(m)) ELSE job
    /\ Return(m)
    /\ UNCHANGED <<spec, deployment, verified>>

(* ResourceHelper.Update with the resource version that was compared.      *)
UpdateDeployment(m) ==
    deployment' = IF pass[m].current /\ Live(deployment[m]) # pass[m].image
                  THEN [deployment EXCEPT ![m] = Published(@, pass[m].image)]
                  ELSE deployment

(* The job passed: update the deployment; the deferred cleanup follows     *)
(* whether or not the update was accepted.                                 *)
Apply(m) ==
    /\ pass[m].pc = "apply"
    /\ UpdateDeployment(m)
    /\ Goto(m, "cleanup")
    /\ UNCHANGED <<spec, job, verified>>

(* The job is disabled: the new image is rolled out unverified.            *)
Roll(m) ==
    /\ pass[m].pc = "roll"
    /\ UpdateDeployment(m)
    /\ Return(m)
    /\ UNCHANGED <<spec, job, verified>>

(* cleanupUpdateJob: delete by name.                                       *)
Cleanup(m) ==
    /\ pass[m].pc = "cleanup"
    /\ job' = IF Live(job) = None THEN job ELSE Published(job, None)
    /\ Return(m)
    /\ UNCHANGED <<spec, deployment, verified>>

(* One of these calls fails: the pass returns an error; after a failed     *)
(* Update the deferred cleanup still runs, a failed cleanup is logged.     *)
CallFails(m) ==
    /\ pass[m].pc \in {"launch", "delete", "create", "apply", "cleanup", "roll"}
    /\ IF pass[m].pc = "apply" THEN Goto(m, "cleanup") ELSE Return(m)
    /\ UNCHANGED <<spec, deployment, job, verified>>

-----------------------------------------------------------------------------
(* The surroundings: Kubernetes' job controller, the informer, the user.   *)

JobRunning == Live(job) # None /\ Live(job).phase = "running"

PodFails ==
    /\ JobRunning /\ ~Live(job).failed
    /\ job' = Published(job, [Live(job) EXCEPT !.failed = TRUE])
    /\ UNCHANGED <<spec, deployment, pass, verified>>

JobCompletes ==
    /\ JobRunning
    /\ job' = Published(job, [Live(job) EXCEPT !.phase = "complete"])
    /\ verified' = IF Live(job).failed THEN verified
                   ELSE verified \cup {<<Live(job).owner, Live(job).image>>}
    /\ UNCHANGED <<spec, deployment, pass>>

JobGivesUp ==
    /\ JobRunning /\ Live(job).failed
    /\ job' = Published(job, [Live(job) EXCEPT !.phase = "gaveup"])
    /\ UNCHANGED <<spec, deployment, pass, verified>>

DeliverDeployment(m) ==
    /\ Len(deployment[m]) > 1
    /\ deployment' = [deployment EXCEPT ![m] = Tail(@)]
    /\ UNCHANGED <<spec, job, pass, verified>>

DeliverJob ==
    /\ Len(job) > 1
    /\ job' = Tail(job)
    /\ UNCHANGED <<spec, deployment, pass, verified>>

EditSpec(m) ==
    /\ \E s \in Wanted : spec[m] # s /\ spec' = [spec EXCEPT ![m] = s]
    /\ UNCHANGED <<deployment, job, pass, verified>>

(* The operator restarts: every pass is cut short, the caches are synced.  *)
Crash ==
    /\ pass' = [m \in Installations |-> Idle]
    /\ deployment' = [m \in Installations |-> <<Live(deployment[m])>>]
    /\ job' = <<Live(job)>>
    /\ UNCHANGED <<spec, verified>>

-----------------------------------------------------------------------------
Step(m) ==
    \/ Begin(m) \/ CreateDeployment(m) \/ SameImage(m) \/ OtherImage(m)
    \/ CheckUpdateJob(m) \/ Launch(m) \/ DeleteOutdated(m) \/ CreateAgain(m)
    \/ Apply(m) \/ Roll(m) \/ Cleanup(m)

Disturbance ==
    \/ \E m \in Installations : CallFails(m) \/ EditSpec(m)
    \/ PodFails
    \/ JobGivesUp
    \/ Crash

Ordinary ==
    \/ \E m \in Installations : Step(m) \/ DeliverDeployment(m)
    \/ JobCompletes
    \/ DeliverJob

Next == Ordinary \/ Disturbance

(* The operator keeps reconciling (an upgrade under way is requeued every  *)
(* resourcesReadyDelay), informers keep delivering and a job's pod ends.   *)
Fairness ==
    /\ \A m \in Installations : WF_vars(Step(m)) /\ WF_vars(DeliverDeployment(m))
    /\ WF_vars(JobCompletes)
    /\ WF_vars(DeliverJob)

Spec == Init /\ [][Next]_vars
FairSpec == Spec /\ Fairness

-----------------------------------------------------------------------------
(* Properties.                                                             *)

(* The variables have the types the declarations above describe.           *)
TypeOK ==
    /\ spec \in [Installations -> Wanted]
    /\ deployment \in [Installations -> Seq(Images \cup {None})]
    /\ \A m \in Installations : Len(deployment[m]) \in 1 .. CacheLag + 1
    /\ job \in Seq(Job \cup {None}) /\ Len(job) \in 1 .. CacheLag + 1
    /\ pass \in [Installations -> Pass]
    /\ verified \subseteq Installations \X Images

(* updateMattermostDeployment: unless the job is disabled, a running       *)
(* installation gets a new image only after a job of its own ran that very *)
(* image, against its own database, without a failed pod, whatever edits,  *)
(* crashes and stale reads come in between.                                *)
VerifiedUpgrade ==
    [][\A m \in Installations :
          /\ Live(deployment[m]) # None
          /\ Live(deployment'[m]) # Live(deployment[m])
          /\ ~pass[m].disabled
          => <<m, Live(deployment'[m])>> \in verified]_vars

(* The upgrade of m waits for a job that exhausted its BackoffLimit.       *)
WaitsForFailedJob(m) ==
    /\ Live(job) # None
    /\ Live(job).phase = "gaveup"
    /\ Live(job).image = spec[m].image
    /\ Live(deployment[m]) \notin {None, spec[m].image}
    /\ ~spec[m].disabled

(* Once edits, failures and crashes stop, every deployment gets and keeps  *)
(* the image its resource asks for, unless the job for that image failed   *)
(* for good: no upgrade waits for a job that nobody will launch or that    *)
(* runs another image, and none is undone.                                 *)
UpgradeCompletes ==
    <>[][Ordinary]_vars
        => <>[](\A m \in Installations :
                   Live(deployment[m]) = spec[m].image \/ WaitsForFailedJob(m))

(* A job that failed for good is noticed: the upgrade that waits for it    *)
(* reports "update image job failed" and cleans the job up.                *)
FailedJobCleanedUp ==
    <>[][Ordinary]_vars
        => \A m \in Installations : WaitsForFailedJob(m) ~> ~WaitsForFailedJob(m)

=============================================================================
