--------------------------- MODULE ReconcileLimit ---------------------------
(***************************************************************************)
(* MattermostReconciler.Reconcile of                                       *)
(* controllers/mattermost/mattermost/controller.go: concurrent workers     *)
(* drive the status of the Mattermost resources through                    *)
(*     new -> reconciling -> ready -> stable                               *)
(* while a mutex-protected rate limiter keeps the number of installations  *)
(* that are not settled below MaxReconciling.                              *)
(*                                                                         *)
(* What a pass does to the owned resources is abstracted to its outcome    *)
(* (an error, not healthy yet, healthy).  What is kept is every read and   *)
(* write of the Mattermost resource: reads come from the informer cache,   *)
(* writes are accepted by the API server only when they carry the newest   *)
(* resource version, and any of them may fail or be applied without the    *)
(* operator learning of it.                                                *)
(***************************************************************************)
EXTENDS Naturals, Sequences, FiniteSets

CONSTANTS
    Installations,   \* names of the Mattermost resources
    Workers,         \* the controller's concurrent reconcilers
    MaxReconciling,  \* MattermostReconciler.MaxReconciling
    CacheLag,        \* how many writes the informer cache may be behind, per resource
    MaxGeneration,   \* bound: how many generations of one spec there may be
    NoInstallation   \* the key of an idle worker

ASSUME ConstantsAssumption ==
    /\ IsFiniteSet(Installations)
    /\ IsFiniteSet(Workers)
    /\ MaxReconciling \in Nat
    /\ CacheLag \in Nat
    /\ MaxGeneration \in Nat
    /\ NoInstallation \notin Installations

VARIABLES
    versions,    \* the versions of each resource that the cache has not moved past:
                 \* Head is what the informer cache holds, the last is the API server's
    queue,       \* the controller's work queue
    worker,      \* what each reconciler is doing
    processing,  \* reconcilingRateLimiter.nonReconcilingBeingProcessed
    listed       \* what the holder of the rate limiter's mutex read with List

vars == <<versions, queue, worker, processing, listed>>

-----------------------------------------------------------------------------
(* The Mattermost resource.                                                *)

(* Status.State; "new" stands for the empty string it has at first.        *)
RunningState == {"new", "reconciling", "ready", "stable"}

(* A version of a resource: the Generation of its spec, Status.State and   *)
(* Status.ObservedGeneration.                                              *)
Version == [generation : Nat, state : RunningState \cup {"absent"}, observed : Nat]

Absent  == [generation |-> 0, state |-> "absent", observed |-> 0]
Created == [generation |-> 1, state |-> "new", observed |-> 0]

(* The API server counts changes of the spec; it keeps the status then,    *)
(* and keeps the spec and its generation when the status is written.       *)
NextGeneration(v) == [v EXCEPT !.generation = @ + 1]
WithStatus(v, s, o) == [v EXCEPT !.state = s, !.observed = o]

Unsettled == {"reconciling", "ready"}

Cached(m) == Head(versions[m])
Live(m)   == versions[m][Len(versions[m])]

(* The installations countReconcilingOrReady counts in a live list.        *)
Reconciling == {m \in Installations : Live(m).state \in Unsettled}

(* The API server stores version v of m; a cache already CacheLag versions *)
(* behind moves on, which puts m on the work queue.                        *)
Published(m, v) ==
    LET all == Append(versions[m], v)
    IN  [versions EXCEPT ![m] = IF Len(all) > CacheLag + 1 THEN Tail(all) ELSE all]

Notified(m) == IF Len(versions[m]) > CacheLag THEN {m} ELSE {}

-----------------------------------------------------------------------------
(* The workers.                                                            *)

PC == {"idle", "limit", "listed", "mark", "spec", "work", "report", "exit"}

(* A pass over one resource.  generation, state, observed and current      *)
(* describe the worker's local copy: its Generation, its Status.State and  *)
(* Status.ObservedGeneration, and whether its resource version is still    *)
(* the newest.                                                             *)
(* reported: ObservedGeneration of the status the pass means to write.     *)
(* slot: the pass counts in nonReconcilingBeingProcessed.                  *)
Pass == [pc : PC, key : Installations \cup {NoInstallation},
         generation : Nat, state : RunningState \cup {"absent"}, observed : Nat,
         current : BOOLEAN, reported : Nat, slot : BOOLEAN]

Idle == [pc |-> "idle", key |-> NoInstallation,
         generation |-> 0, state |-> "absent", observed |-> 0,
         current |-> FALSE, reported |-> 0, slot |-> FALSE]

Busy(w)  == worker[w].pc # "idle"
Goto(w, label) == worker' = [worker EXCEPT ![w].pc = label]

(* The installations whose pass holds a slot of the rate limiter.          *)
Held == {worker[w].key : w \in {v \in Workers : worker[v].slot}}

MutexFree == \A w \in Workers : worker[w].pc # "listed"

(* The workers as they are after somebody else wrote m.                    *)
Outdated(m) ==
    [w \in Workers |-> IF worker[w].key = m THEN [worker[w] EXCEPT !.current = FALSE]
                                            ELSE worker[w]]

-----------------------------------------------------------------------------
Init ==
    /\ versions = [m \in Installations |-> <<Absent>>]
    /\ queue = {}
    /\ worker = [w \in Workers |-> Idle]
    /\ processing = 0
    /\ listed = {}

(* A worker takes m from the queue (the queue hands a key to one worker at *)
(* a time) and reads it from the cache.  The status it will write carries  *)
(* the generation it read.                                                 *)
Pick(w, m) ==
    /\ ~Busy(w)
    /\ m \in queue
    /\ \A v \in Workers : worker[v].key # m
    /\ Cached(m).state # "absent"
    /\ queue' = queue \ {m}
    /\ worker' = [worker EXCEPT ![w] =
                    [pc         |-> IF Cached(m).state \in Unsettled THEN "spec" ELSE "limit",
                     key        |-> m,
                     generation |-> Cached(m).generation,
                     state      |-> Cached(m).state,
                     observed   |-> Cached(m).observed,
                     current    |-> Len(versions[m]) = 1,
                     reported   |-> Cached(m).generation,
                     slot       |-> FALSE]]
    /\ UNCHANGED <<versions, processing, listed>>

(* Get answers NotFound: the request is dropped.                           *)
PickAbsent(m) ==
    /\ m \in queue
    /\ \E w \in Workers : ~Busy(w)
    /\ \A v \in Workers : worker[v].key # m
    /\ Cached(m).state = "absent"
    /\ queue' = queue \ {m}
    /\ UNCHANGED <<versions, worker, processing, listed>>

(* startNonReconcilingMMProcessing takes the mutex and lists the resources. *)
LockAndList(w) ==
    /\ worker[w].pc = "limit"
    /\ MutexFree
    /\ Goto(w, "listed")
    /\ listed' = {m \in Installations : Cached(m).state \in Unsettled}
    /\ UNCHANGED <<versions, queue, processing>>

(* Fault: the comparison is off by one.                                    *)
LimitReachedOffByOne == Cardinality(listed) + processing > MaxReconciling

(* rCount + nonReconcilingBeingProcessed >= MaxReconciling.                *)
LimitReached == Cardinality(listed) + processing >= MaxReconciling

(* ... there is room: count the pass in and release the mutex.             *)
Admit(w) ==
    /\ worker[w].pc = "listed"
    /\ ~LimitReached
    /\ processing' = processing + 1
    /\ worker' = [worker EXCEPT ![w].pc = IF worker[w].state = "new" THEN "mark" ELSE "spec",
                                ![w].slot = TRUE]
    /\ listed' = {}
    /\ UNCHANGED <<versions, queue>>

(* ... the pass ends without a slot, to be tried again later.              *)
Turned(w) ==
    /\ worker' = [worker EXCEPT ![w] = Idle]
    /\ queue' = queue \cup {worker[w].key}
    /\ listed' = {}
    /\ UNCHANGED <<versions, processing>>

(* Fault: a pass that is turned away is not queued again.                  *)
RejectForgets(w) ==
    /\ worker[w].pc = "listed"
    /\ LimitReached
    /\ worker' = [worker EXCEPT ![w] = Idle]
    /\ listed' = {}
    /\ UNCHANGED <<versions, queue, processing>>

(* ... because the limit is reached (RequeueAfter RequeueOnLimitDelay).    *)
Reject(w) ==
    /\ worker[w].pc = "listed"
    /\ LimitReached
    /\ Turned(w)

(* ... because List failed.                                                *)
ListFails(w) ==
    /\ worker[w].pc = "limit"
    /\ MutexFree
    /\ Turned(w)

(* Fault: the status is written over whatever the API server holds, as a   *)
(* write that does not carry the resource version would.                   *)
UpdateStatusForced(w, s, o, result) ==
    LET m == worker[w].key IN
    /\ result = "skipped" => worker[w].state = s /\ worker[w].observed = o
    /\ versions' = IF result \in {"stored", "lost"}
                   THEN Published(m, WithStatus(Live(m), s, o))
                   ELSE versions

(* updateStatus: write status (s, o) unless the local copy already has it. *)
(* skipped:  DeepEqual, no write (other fields may still force one);       *)
(* stored:   accepted, and the local copy becomes the newest version;      *)
(* rejected: a conflict, a deleted resource or any other error;            *)
(* lost:     stored, but the call returns an error.                        *)
(* The local copy's Status is assigned before the write.                   *)
UpdateStatus(w, s, o, result) ==
    LET m == worker[w].key IN
    /\ result = "skipped" => worker[w].state = s /\ worker[w].observed = o
    /\ result \in {"stored", "lost"} => worker[w].current
    /\ versions' = IF result \in {"stored", "lost"}
                   THEN Published(m, WithStatus(Live(m), s, o))
                   ELSE versions

(* The pass after that call, continuing at label.                          *)
Wrote(w, s, o, result, label) ==
    worker' = [worker EXCEPT ![w].pc = label,
                             ![w].state = s,
                             ![w].observed = o,
                             ![w].reported = o,
                             ![w].current = @ /\ result # "lost"]

(* A new installation is marked reconciling before anything else.          *)
MarkReconciling(w, result) ==
    /\ worker[w].pc = "mark"
    /\ result # "skipped"
    /\ UpdateStatus(w, "reconciling", worker[w].reported, result)
    /\ Wrote(w, "reconciling", worker[w].reported, result,
             IF result = "stored" THEN "spec" ELSE "exit")
    /\ queue' = queue \cup IF result = "stored" THEN Notified(worker[w].key)
                                                ELSE {worker[w].key}
    /\ UNCHANGED <<processing, listed>>

(* SetDefaults and the size change nothing.                                *)
SpecUpToDate(w) ==
    /\ worker[w].pc = "spec"
    /\ Goto(w, "work")
    /\ UNCHANGED <<versions, queue, processing, listed>>

(* SetDefaults or the size changed the spec: updateSpec.  The answer gives *)
(* the local copy the new generation; reported is still the old one.       *)
UpdateSpec(w) ==
    LET m == worker[w].key IN
    /\ worker[w].pc = "spec"
    /\ worker[w].current
    /\ Live(m).generation < MaxGeneration
    /\ versions' = Published(m, NextGeneration(Live(m)))
    /\ worker' = [worker EXCEPT ![w].pc = "work",
                                ![w].generation = Live(m).generation + 1]
    /\ queue' = queue \cup Notified(m)
    /\ UNCHANGED <<processing, listed>>

(* ... and it fails: the pass goes on with the original copy to report it. *)
UpdateSpecFails(w) ==
    /\ worker[w].pc = "spec"
    /\ Goto(w, "report")
    /\ UNCHANGED <<versions, queue, processing, listed>>

(* ... and it fails although the API server applied it.                    *)
UpdateSpecLost(w) ==
    LET m == worker[w].key IN
    /\ worker[w].pc = "spec"
    /\ worker[w].current
    /\ Live(m).generation < MaxGeneration
    /\ versions' = Published(m, NextGeneration(Live(m)))
    /\ worker' = [worker EXCEPT ![w].pc = "report", ![w].current = FALSE]
    /\ queue' = queue \cup Notified(m)
    /\ UNCHANGED <<processing, listed>>

(* updateStatusReconcilingAndLogError after an error of SetDefaults, of    *)
(* updateSpec, of one of the checks or of the final status update, and     *)
(* updateStatusReconciling when resources are not ready: whatever the      *)
(* write does, the pass ends and the key is queued again.                  *)
Report(w, result) ==
    /\ worker[w].pc \in {"spec", "work", "report"}
    /\ UpdateStatus(w, "reconciling", worker[w].reported, result)
    /\ Wrote(w, "reconciling", worker[w].reported, result, "exit")
    /\ queue' = queue \cup {worker[w].key}
    /\ UNCHANGED <<processing, listed>>

(* checkMattermostHealth builds a new status, with the generation the      *)
(* local copy has by now.  It reports the state it reached along with an   *)
(* error: the status is written, failures are only logged, the key is      *)
(* requeued.                                                               *)
NotHealthy(w, s, result) ==
    /\ worker[w].pc = "work"
    /\ UpdateStatus(w, s, worker[w].generation, result)
    /\ Wrote(w, s, worker[w].generation, result, "exit")
    /\ queue' = queue \cup {worker[w].key}
    /\ UNCHANGED <<processing, listed>>

(* Fault: the final status keeps the generation copied before updateSpec.  *)
HealthyOldGeneration(w, result) ==
    /\ worker[w].pc = "work"
    /\ result \in {"skipped", "stored"}
    /\ UpdateStatus(w, "stable", worker[w].reported, result)
    /\ Wrote(w, "stable", worker[w].reported, result, "exit")
    /\ queue' = queue \cup IF result = "stored" THEN Notified(worker[w].key) ELSE {}
    /\ UNCHANGED <<processing, listed>>

(* Everything checks out: the status becomes stable, nothing is requeued.  *)
Healthy(w, result) ==
    /\ worker[w].pc = "work"
    /\ result \in {"skipped", "stored"}
    /\ UpdateStatus(w, "stable", worker[w].generation, result)
    /\ Wrote(w, "stable", worker[w].generation, result, "exit")
    /\ queue' = queue \cup IF result = "stored" THEN Notified(worker[w].key) ELSE {}
    /\ UNCHANGED <<processing, listed>>

(* ... but that write fails, which is reported with the same new status.   *)
HealthyWriteFails(w, result) ==
    /\ worker[w].pc = "work"
    /\ result \in {"rejected", "lost"}
    /\ UpdateStatus(w, "stable", worker[w].generation, result)
    /\ Wrote(w, "stable", worker[w].generation, result, "report")
    /\ queue' = queue \cup IF result = "lost" THEN Notified(worker[w].key) ELSE {}
    /\ UNCHANGED <<processing, listed>>

(* Fault: decrementProcessing does not take the mutex.                     *)
FinishWithoutMutex(w) ==
    /\ worker[w].pc = "exit"
    /\ processing' = IF worker[w].slot THEN processing - 1 ELSE processing
    /\ worker' = [worker EXCEPT ![w] = Idle]
    /\ UNCHANGED <<versions, queue, listed>>

(* Fault: a pass that never took a slot gives one back.                    *)
FinishAlwaysDecrements(w) ==
    /\ worker[w].pc = "exit"
    /\ MutexFree
    /\ processing' = processing - 1
    /\ worker' = [worker EXCEPT ![w] = Idle]
    /\ UNCHANGED <<versions, queue, listed>>

(* Fault: the slot is given back on the successful way out only.           *)
FinishLeaks(w) ==
    /\ worker[w].pc = "exit"
    /\ MutexFree
    /\ processing' = IF worker[w].slot /\ worker[w].state = "stable"
                     THEN processing - 1 ELSE processing
    /\ worker' = [worker EXCEPT ![w] = Idle]
    /\ UNCHANGED <<versions, queue, listed>>

(* The deferred decrementProcessing, if the pass holds a slot, and the end *)
(* of the pass.                                                            *)
Finish(w) ==
    /\ worker[w].pc = "exit"
    /\ worker[w].slot => MutexFree
    /\ processing' = IF worker[w].slot THEN processing - 1 ELSE processing
    /\ worker' = [worker EXCEPT ![w] = Idle]
    /\ UNCHANGED <<versions, queue, listed>>

-----------------------------------------------------------------------------
(* The operator's surroundings.                                            *)

(* A user creates, edits or deletes a Mattermost resource.                 *)
UserWrites(m, v) ==
    /\ versions' = Published(m, v)
    /\ worker' = Outdated(m)
    /\ queue' = queue \cup Notified(m)
    /\ UNCHANGED <<processing, listed>>

CreateCR(m) == Live(m) = Absent /\ UserWrites(m, Created)
EditCR(m)   == /\ Live(m) # Absent
               /\ Live(m).generation < MaxGeneration
               /\ UserWrites(m, NextGeneration(Live(m)))
DeleteCR(m) == Live(m) # Absent /\ UserWrites(m, Absent)

(* The informer delivers the next version of m.                            *)
Deliver(m) ==
    /\ Len(versions[m]) > 1
    /\ versions' = [versions EXCEPT ![m] = Tail(@)]
    /\ queue' = queue \cup {m}
    /\ UNCHANGED <<worker, processing, listed>>

(* An object owned by m changed (SetupWithManager's Owns), or a resync.    *)
OwnedEvent(m) ==
    /\ m \notin queue
    /\ queue' = queue \cup {m}
    /\ UNCHANGED <<versions, worker, processing, listed>>

(* The operator process dies and starts again: NewMattermostReconciler     *)
(* with a zero counter, caches synced, every resource queued.              *)
Restart ==
    /\ versions' = [m \in Installations |-> <<Live(m)>>]
    /\ queue' = {m \in Installations : Live(m) # Absent}
    /\ worker' = [w \in Workers |-> Idle]
    /\ processing' = 0
    /\ listed' = {}

-----------------------------------------------------------------------------
Results == {"skipped", "stored", "rejected", "lost"}

(* The steps of a pass when nothing disturbs it: no call fails but for a   *)
(* local copy that is out of date, and the installation is found healthy.  *)
Progress(w) ==
    \/ \E m \in Installations : Pick(w, m)
    \/ LockAndList(w)
    \/ Admit(w)
    \/ Reject(w)
    \/ MarkReconciling(w, IF worker[w].current THEN "stored" ELSE "rejected")
    \/ SpecUpToDate(w)
    \/ Healthy(w, IF /\ worker[w].state = "stable"
                     /\ worker[w].observed = worker[w].generation
                  THEN "skipped" ELSE "stored")
    \/ ~worker[w].current /\ HealthyWriteFails(w, "rejected")
    \/ worker[w].pc = "report" /\ \E r \in Results : Report(w, r)
    \/ Finish(w)

(* The steps in which a pass meets an error, an installation that is not   *)
(* healthy yet, or a reason to write what was already settled.             *)
Setback(w) ==
    \/ ListFails(w)
    \/ \E r \in {"rejected", "lost"} : MarkReconciling(w, r)
    \/ UpdateSpec(w)
    \/ UpdateSpecFails(w)
    \/ UpdateSpecLost(w)
    \/ \E r \in Results : Report(w, r)
    \/ \E r \in Results, s \in Unsettled : NotHealthy(w, s, r)
    \/ Healthy(w, "stored")
    \/ \E r \in Results : HealthyWriteFails(w, r)

Surroundings ==
    \/ \E m \in Installations : CreateCR(m) \/ EditCR(m) \/ DeleteCR(m) \/ OwnedEvent(m)
    \/ Restart

(* The steps of the operator and its informer when all goes well.          *)
Ordinary ==
    \/ \E w \in Workers : Progress(w)
    \/ \E m \in Installations : PickAbsent(m) \/ Deliver(m)

Next ==
    \/ Ordinary
    \/ \E w \in Workers : Setback(w)
    \/ Surroundings

Spec == Init /\ [][Next]_vars

(* Workers keep running, the informer keeps delivering, a queued key is    *)
(* not passed over for ever, and neither is a goroutine that waits for the *)
(* mutex (sync.Mutex is starvation free).                                  *)
Fairness ==
    /\ \A w \in Workers : WF_vars(Progress(w))
    /\ \A w \in Workers : SF_vars(LockAndList(w)) /\ SF_vars(Finish(w))
    /\ \A m \in Installations : WF_vars(Deliver(m))
    /\ \A m \in Installations : SF_vars(\E w \in Workers : Pick(w, m))

FairSpec == Spec /\ Fairness

-----------------------------------------------------------------------------
(* Properties.                                                             *)

(* The variables have the types the declarations above describe.           *)
TypeOK ==
    /\ versions \in [Installations -> Seq(Version)]
    /\ \A m \in Installations : Len(versions[m]) \in 1 .. CacheLag + 1
    /\ queue \subseteq Installations
    /\ worker \in [Workers -> Pass]
    /\ processing \in Nat
    /\ listed \subseteq Installations

(* nonReconcilingBeingProcessed is exactly the number of resources whose   *)
(* pass was let in by the limiter and has not returned: every way out of   *)
(* Reconcile gives back what startNonReconcilingMMProcessing took, once.   *)
SlotAccounting == processing = Cardinality(Held)

(* The rate limit: however many workers ask at once, whatever writes fail  *)
(* and wherever the operator dies, at most MaxReconciling installations    *)
(* are reconciling, ready or let in by startNonReconcilingMMProcessing.    *)
LimitRespected == Cardinality(Reconciling \cup Held) <= MaxReconciling

(* A status that says stable is for the spec the API server holds at the   *)
(* moment it is stored: whoever edits the resource while a pass works on   *)
(* an older generation (a user, or the pass itself with its defaults), and *)
(* however old the copy the pass began with, the status update that ends   *)
(* the pass neither covers the edit up nor names a generation it replaced. *)
StableSeesSpec ==
    [][\A m \in Installations :
          /\ Live(m)'.state = "stable"
          /\ \/ Live(m)'.state # Live(m).state
             \/ Live(m)'.observed # Live(m).observed
          => Live(m)'.observed = Live(m)'.generation]_vars

(* Every installation is stable for its newest spec.                       *)
Settled ==
    \A m \in Installations :
        \/ Live(m) = Absent
        \/ Live(m).state = "stable" /\ Live(m).observed = Live(m).generation

(* Once users, failures and restarts stop interfering, every installation  *)
(* becomes and stays stable for its newest spec: no key is lost from the   *)
(* queue and no slot of the rate limiter leaks, on any way out of          *)
(* Reconcile taken before.                                                 *)
EventuallySettled == <>[][Ordinary]_vars => <>[]Settled

(* The limiter implements the admission control it stands for.             *)
Limiter == INSTANCE Admission WITH Clients <- Installations, Limit <- MaxReconciling,
                                   admitted <- Reconciling \cup Held

(* Installations enter the reconciling, ready or admitted set one at a     *)
(* time and only while there is room.                                      *)
ImplementsAdmission == Limiter!Spec

=============================================================================
