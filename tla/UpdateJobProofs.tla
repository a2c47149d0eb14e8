--------------------------- MODULE UpdateJobProofs ---------------------------
(***************************************************************************)
(* Proofs about image upgrades, for any images, any lag of the informer    *)
(* cache, and wherever a pass is cut short: type correctness for any       *)
(* number of installations in the namespace; that some job of the          *)
(* namespace ran a new image before any of them gets it; and, for an       *)
(* installation that has the namespace to itself, that it was its own.     *)
(***************************************************************************)
EXTENDS UpdateJob, TLAPS

(* The histories of an object that the cache can be behind of.             *)
Versions(S) == {s \in Seq(S) : Len(s) \in 1 .. CacheLag + 1}

(* Every version of s is in T.                                             *)
Within(s, T) == \A i \in 1 .. Len(s) : s[i] \in T

-----------------------------------------------------------------------------
(* Versions *)

(* Storing v makes it the live version and brings in nothing else.         *)
LEMMA PublishedVersions ==
    ASSUME NEW S, NEW s \in Versions(S), NEW v \in S
    PROVE  /\ Published(s, v) \in Versions(S)
           /\ Live(Published(s, v)) = v
           /\ \A T : Within(s, T) /\ v \in T => Within(Published(s, v), T)
<1> DEFINE longer == Append(s, v)
<1>1. s \in Seq(S) /\ Len(s) \in Nat /\ 1 <= Len(s) /\ Len(s) <= CacheLag + 1
  BY ConstantsAssumption DEF Versions
<1>2. /\ longer \in Seq(S) /\ Len(longer) = Len(s) + 1 /\ longer[Len(longer)] = v
      /\ \A i \in 1 .. Len(s) : longer[i] = s[i]
  BY <1>1
<1>3. Published(s, v) = IF Len(longer) > CacheLag + 1 THEN Tail(longer) ELSE longer
  BY DEF Published
<1> HIDE DEF longer
<1>4. CASE Len(longer) > CacheLag + 1
  <2>1. Len(s) = CacheLag + 1
    BY <1>1, <1>2, <1>4, ConstantsAssumption
  <2>2. /\ Tail(longer) \in Seq(S) /\ Len(Tail(longer)) = Len(s)
        /\ \A i \in 1 .. Len(s) : Tail(longer)[i] = longer[i + 1]
    BY <1>1, <1>2
  <2>3. Published(s, v) = Tail(longer)
    BY <1>3, <1>4
  <2>4. Tail(longer)[Len(s)] = v
    BY <1>1, <1>2, <2>2
  <2>5. \A i \in 1 .. Len(s) : i # Len(s) => Tail(longer)[i] = s[i + 1] /\ i + 1 \in 1 .. Len(s)
    BY <1>1, <1>2, <2>2
  <2>6. ASSUME NEW T, Within(s, T), v \in T
        PROVE  Within(Tail(longer), T)
    BY <1>1, <2>2, <2>4, <2>5, <2>6 DEF Within
  <2> QED BY <1>1, <2>2, <2>3, <2>4, <2>6 DEF Versions, Live
<1>5. CASE ~(Len(longer) > CacheLag + 1)
  <2>1. Published(s, v) = longer
    BY <1>3, <1>5
  <2>2. longer \in Versions(S) /\ Live(longer) = v
    BY <1>1, <1>2, <1>5, ConstantsAssumption DEF Versions, Live
  <2>3. ASSUME NEW T, Within(s, T), v \in T
        PROVE  Within(longer, T)
    BY <1>1, <1>2, <2>3 DEF Within
  <2> QED BY <2>1, <2>2, <2>3
<1> QED BY <1>4, <1>5

(* A delivery moves the cache on and leaves the live version.              *)
LEMMA DeliveredVersions ==
    ASSUME NEW S, NEW s \in Versions(S), Len(s) > 1
    PROVE  /\ Tail(s) \in Versions(S)
           /\ Live(Tail(s)) = Live(s)
           /\ \A T : Within(s, T) => Within(Tail(s), T)
<1>1. s \in Seq(S) /\ Len(s) \in Nat /\ 1 < Len(s) /\ Len(s) <= CacheLag + 1
  BY ConstantsAssumption DEF Versions
<1>2. /\ Tail(s) \in Seq(S) /\ Len(Tail(s)) = Len(s) - 1
      /\ \A i \in 1 .. Len(s) - 1 : Tail(s)[i] = s[i + 1] /\ i + 1 \in 1 .. Len(s)
  BY <1>1
<1>3. Tail(s) \in Versions(S) /\ Live(Tail(s)) = Live(s)
  BY <1>1, <1>2, ConstantsAssumption DEF Versions, Live
<1>4. ASSUME NEW T, Within(s, T)
      PROVE  Within(Tail(s), T)
  BY <1>1, <1>2, <1>4 DEF Within
<1> QED BY <1>3, <1>4

(* What is cached and what is live are versions, and a restart keeps the   *)
(* live one alone.                                                         *)
LEMMA HeldVersions ==
    ASSUME NEW S, NEW s \in Versions(S)
    PROVE  /\ Cached(s) \in S /\ Live(s) \in S
           /\ <<Live(s)>> \in Versions(S) /\ Live(<<Live(s)>>) = Live(s)
           /\ \A T : Within(s, T) => /\ Cached(s) \in T /\ Live(s) \in T
                                     /\ Within(<<Live(s)>>, T)
<1>1. s \in Seq(S) /\ Len(s) \in Nat /\ 1 <= Len(s) /\ Len(s) <= CacheLag + 1
  BY ConstantsAssumption DEF Versions
<1>2. Cached(s) = s[1] /\ Live(s) = s[Len(s)] /\ 1 \in 1 .. Len(s) /\ Len(s) \in 1 .. Len(s)
  BY <1>1 DEF Cached, Live
<1>3. Cached(s) \in S /\ Live(s) \in S
  BY <1>1, <1>2
<1>4. Len(<<Live(s)>>) = 1 /\ <<Live(s)>>[1] = Live(s) /\ <<Live(s)>> \in Seq(S)
  BY <1>3
<1>5. <<Live(s)>> \in Versions(S) /\ Live(<<Live(s)>>) = Live(s)
  BY <1>4, ConstantsAssumption DEF Versions, Live
<1>6. ASSUME NEW T, Within(s, T)
      PROVE  Cached(s) \in T /\ Live(s) \in T /\ Within(<<Live(s)>>, T)
  BY <1>2, <1>4, <1>6 DEF Within
<1> QED BY <1>3, <1>5, <1>6

-----------------------------------------------------------------------------
(* Types *)

(* Beyond "idle" a pass has an image.                                      *)
Imaged == \A m \in Installations : pass[m].pc # "idle" => pass[m].image \in Images

(* The types, and the image of every pass under way. *)
TypeInv == TypeOK /\ Imaged

(* The job and the deployments are stored as histories of versions.        *)
LEMMA Histories ==
    ASSUME TypeOK
    PROVE  /\ job \in Versions(Job \cup {None})
           /\ \A m \in Installations : deployment[m] \in Versions(Images \cup {None})
  BY DEF TypeOK, Versions

(* A pass that has not begun. *)
LEMMA IdlePass == Idle \in Pass /\ Idle.pc = "idle" /\ ~Idle.disabled
  BY DEF Idle, Pass

(* What a step of the pass over m does to the passes: that of m becomes    *)
(* idle, or moves on with the image it has.                                *)
Moved(m, labels) ==
    \/ Return(m)
    \/ \E label \in labels : Goto(m, label)

(* A pass that moves on keeps its type. *)
LEMMA MovedTyped ==
    ASSUME TypeInv, NEW m \in Installations, pass[m].pc # "idle",
           Moved(m, {"launch", "delete", "create", "apply", "cleanup"})
    PROVE  pass' \in [Installations -> Pass] /\ Imaged'
<1>1. pass \in [Installations -> Pass] /\ pass[m].image \in Images
  BY DEF TypeInv, TypeOK, Imaged
<1>2. CASE Return(m)
  BY <1>1, <1>2, IdlePass DEF Return, TypeInv, Imaged
<1>3. ASSUME NEW label \in {"launch", "delete", "create", "apply", "cleanup"}, Goto(m, label)
      PROVE  pass' \in [Installations -> Pass] /\ Imaged'
  <2>1. pass' = [pass EXCEPT ![m].pc = label]
    BY <1>3 DEF Goto
  <2>2. [pass[m] EXCEPT !.pc = label] \in Pass
    BY <1>1, <1>3 DEF Pass
  <2>3. pass' \in [Installations -> Pass]
    BY <1>1, <2>1, <2>2
  <2>4. Imaged'
    BY <1>1, <2>1 DEF TypeInv, Imaged, Pass
  <2> QED BY <2>3, <2>4
<1> QED BY <1>2, <1>3 DEF Moved

(* Every verdict on the job leads to a step of the pass. *)
LEMMA VerdictLabel ==
    ASSUME NEW j, NEW image
    PROVE  Verdict(j, image) \in {"launch", "delete", "idle", "cleanup", "apply"}
  BY DEF Verdict

(* A job that a pass creates has its type. *)
LEMMA NewJobTyped ==
    ASSUME TypeInv, NEW m \in Installations, pass[m].pc # "idle"
    PROVE  /\ NewJob(m) \in Job /\ NewJob(m).phase = "running"
           /\ NewJob(m).image = pass[m].image /\ NewJob(m).owner = m
  BY DEF TypeInv, TypeOK, Imaged, NewJob, Job

(* What a step does to the deployments: nothing, or one of them gets the   *)
(* image of its pass.                                                      *)
LEMMA DeploymentTyped ==
    ASSUME TypeInv, NEW m \in Installations, pass[m].pc # "idle",
           deployment' \in {deployment, [deployment EXCEPT ![m] = Published(@, pass[m].image)]}
    PROVE  /\ deployment' \in [Installations -> Seq(Images \cup {None})]
           /\ \A n \in Installations : Len(deployment'[n]) \in 1 .. CacheLag + 1
<1>1. pass[m].image \in Images \cup {None} /\ deployment[m] \in Versions(Images \cup {None})
  BY Histories DEF TypeInv, Imaged
<1>2. Published(deployment[m], pass[m].image) \in Versions(Images \cup {None})
  BY <1>1, PublishedVersions
<1> QED BY <1>2 DEF TypeInv, TypeOK, Versions

(* ... and to the job: nothing, gone, or a new one of m's.                 *)
LEMMA JobTyped ==
    ASSUME TypeInv, NEW m \in Installations, pass[m].pc # "idle",
           job' \in {job, Published(job, None), Published(job, NewJob(m))}
    PROVE  job' \in Versions(Job \cup {None})
  BY Histories, PublishedVersions, NewJobTyped DEF TypeInv

(* Every step of a pass keeps the types, *)
LEMMA StepTyped ==
    ASSUME TypeInv, NEW m \in Installations, Step(m)
    PROVE  TypeInv'
<1> USE DEF TypeInv
<1>1. CASE Begin(m)
  <2>1. pass' = [pass EXCEPT ![m] = [pc |-> "compare", image |-> spec[m].image,
                                     disabled |-> spec[m].disabled, current |-> FALSE]]
    BY <1>1 DEF Begin
  <2>2. spec[m].image \in Images /\ spec[m].disabled \in BOOLEAN
    BY DEF TypeOK, Wanted
  <2>3. [pc |-> "compare", image |-> spec[m].image,
         disabled |-> spec[m].disabled, current |-> FALSE] \in Pass
    BY <2>2 DEF Pass
  <2>4. pass' \in [Installations -> Pass] /\ Imaged'
    BY <2>1, <2>2, <2>3 DEF TypeOK, Imaged
  <2> QED BY <1>1, <2>4 DEF Begin, TypeOK
<1>2. CASE CreateDeployment(m)
  <2>1. pass[m].pc # "idle" /\ Moved(m, {"launch", "delete", "create", "apply", "cleanup"})
    BY <1>2 DEF CreateDeployment, Moved
  <2>2. deployment' \in {deployment, [deployment EXCEPT ![m] = Published(@, pass[m].image)]}
    BY <1>2 DEF CreateDeployment
  <2> QED BY <1>2, <2>1, <2>2, MovedTyped, DeploymentTyped DEF CreateDeployment, TypeOK
<1>3. CASE SameImage(m)
  <2>1. pass[m].pc # "idle" /\ Moved(m, {"launch", "delete", "create", "apply", "cleanup"})
    BY <1>3 DEF SameImage, Moved
  <2> QED BY <1>3, <2>1, MovedTyped DEF SameImage, TypeOK
<1>4. CASE OtherImage(m)
  <2> DEFINE label == IF pass[m].disabled THEN "roll" ELSE "check"
             now == Len(deployment[m]) = 1
  <2>1. pass' = [pass EXCEPT ![m].pc = label, ![m].current = now] /\ pass[m].pc # "idle"
    BY <1>4 DEF OtherImage
  <2>2. label \in {"roll", "check"} /\ now \in BOOLEAN
    OBVIOUS
  <2> HIDE DEF label, now
  <2>3. [pass[m] EXCEPT !.pc = label, !.current = now] \in Pass
    BY <2>2 DEF TypeOK, Pass
  <2>4. pass' \in [Installations -> Pass] /\ Imaged'
    BY <2>1, <2>3 DEF TypeOK, Imaged, Pass
  <2> QED BY <1>4, <2>4 DEF OtherImage, TypeOK
<1>5. CASE CheckUpdateJob(m)
  <2>1. pass[m].pc # "idle" /\ Moved(m, {"launch", "delete", "create", "apply", "cleanup"})
    BY <1>5, VerdictLabel DEF CheckUpdateJob, Moved
  <2> QED BY <1>5, <2>1, MovedTyped DEF CheckUpdateJob, TypeOK
<1>6. CASE Launch(m)
  <2>1. /\ pass[m].pc # "idle" /\ Moved(m, {"launch", "delete", "create", "apply", "cleanup"})
        /\ job' \in {job, Published(job, None), Published(job, NewJob(m))}
    BY <1>6 DEF Launch, Moved
  <2> QED BY <1>6, <2>1, MovedTyped, JobTyped DEF Launch, TypeOK, Versions
<1>7. CASE DeleteOutdated(m)
  <2>1. /\ pass[m].pc # "idle" /\ Moved(m, {"launch", "delete", "create", "apply", "cleanup"})
        /\ job' \in {job, Published(job, None), Published(job, NewJob(m))}
    BY <1>7 DEF DeleteOutdated, Moved
  <2> QED BY <1>7, <2>1, MovedTyped, JobTyped DEF DeleteOutdated, TypeOK, Versions
<1>8. CASE CreateAgain(m)
  <2>1. /\ pass[m].pc # "idle" /\ Moved(m, {"launch", "delete", "create", "apply", "cleanup"})
        /\ job' \in {job, Published(job, None), Published(job, NewJob(m))}
    BY <1>8 DEF CreateAgain, Moved
  <2> QED BY <1>8, <2>1, MovedTyped, JobTyped DEF CreateAgain, TypeOK, Versions
<1>9. CASE Apply(m)
  <2>1. /\ pass[m].pc # "idle" /\ Moved(m, {"launch", "delete", "create", "apply", "cleanup"})
        /\ deployment' \in {deployment, [deployment EXCEPT ![m] = Published(@, pass[m].image)]}
    BY <1>9 DEF Apply, UpdateDeployment, Moved
  <2> QED BY <1>9, <2>1, MovedTyped, DeploymentTyped DEF Apply, TypeOK
<1>10. CASE Roll(m)
  <2>1. /\ pass[m].pc # "idle" /\ Moved(m, {"launch", "delete", "create", "apply", "cleanup"})
        /\ deployment' \in {deployment, [deployment EXCEPT ![m] = Published(@, pass[m].image)]}
    BY <1>10 DEF Roll, UpdateDeployment, Moved
  <2> QED BY <1>10, <2>1, MovedTyped, DeploymentTyped DEF Roll, TypeOK
<1>11. CASE Cleanup(m)
  <2>1. /\ pass[m].pc # "idle" /\ Moved(m, {"launch", "delete", "create", "apply", "cleanup"})
        /\ job' \in {job, Published(job, None), Published(job, NewJob(m))}
    BY <1>11 DEF Cleanup, Moved
  <2> QED BY <1>11, <2>1, MovedTyped, JobTyped DEF Cleanup, TypeOK, Versions
<1> QED
  BY <1>1, <1>2, <1>3, <1>4, <1>5, <1>6, <1>7, <1>8, <1>9, <1>10, <1>11 DEF Step

(* A job that runs is stored.                                              *)
LEMMA LiveJob ==
    ASSUME TypeOK, JobRunning
    PROVE  Live(job) \in Job
<1>1. Live(job) \in Job \cup {None}
  BY Histories, HeldVersions
<1>2. Live(job) # None
  BY DEF JobRunning
<1> QED BY <1>1, <1>2

(* The job controller stores another version of the live job.              *)
LEMMA JobControllerTyped ==
    ASSUME TypeInv, PodFails \/ JobCompletes \/ JobGivesUp
    PROVE  TypeInv'
<1>1. JobRunning
  BY DEF PodFails, JobCompletes, JobGivesUp
<1>2. Live(job) \in Job
  BY <1>1, LiveJob DEF TypeInv
<1>3. /\ [Live(job) EXCEPT !.failed = TRUE] \in Job
      /\ [Live(job) EXCEPT !.phase = "complete"] \in Job
      /\ [Live(job) EXCEPT !.phase = "gaveup"] \in Job
  BY <1>2 DEF Job
<1>4. job' \in Versions(Job \cup {None})
  BY <1>3, Histories, PublishedVersions DEF TypeInv, PodFails, JobCompletes, JobGivesUp
<1>5. verified' \subseteq Installations \X Images
  BY <1>2 DEF TypeInv, TypeOK, PodFails, JobCompletes, JobGivesUp, Job
<1>6. UNCHANGED <<spec, deployment, pass>>
  BY DEF PodFails, JobCompletes, JobGivesUp
<1> QED BY <1>4, <1>5, <1>6 DEF TypeInv, TypeOK, Imaged, Versions

(* A restart of the operator keeps the types, *)
LEMMA CrashTyped ==
    ASSUME TypeInv, Crash
    PROVE  TypeInv'
<1>1. pass' = [m \in Installations |-> Idle]
  BY DEF Crash
<1>2. job' \in Versions(Job \cup {None})
  BY Histories, HeldVersions DEF TypeInv, Crash
<1>3. \A m \in Installations : <<Live(deployment[m])>> \in Versions(Images \cup {None})
  BY Histories, HeldVersions DEF TypeInv
<1>4. deployment' = [m \in Installations |-> <<Live(deployment[m])>>]
  BY DEF Crash
<1>5. /\ deployment' \in [Installations -> Seq(Images \cup {None})]
      /\ \A n \in Installations : Len(deployment'[n]) \in 1 .. CacheLag + 1
  BY <1>3, <1>4 DEF Versions
<1>6. UNCHANGED <<spec, verified>>
  BY DEF Crash
<1>7. pass' \in [Installations -> Pass] /\ Imaged'
  BY <1>1, IdlePass DEF Imaged
<1> QED BY <1>2, <1>5, <1>6, <1>7 DEF TypeInv, TypeOK, Versions

(* and so every step of the system. *)
LEMMA NextTyped == TypeInv /\ [Next]_vars => TypeInv'
<1> SUFFICES ASSUME TypeInv, [Next]_vars PROVE TypeInv'
  OBVIOUS
<1> USE DEF TypeInv
<1>1. ASSUME NEW m \in Installations, Step(m) PROVE TypeInv'
  BY <1>1, StepTyped
<1>2. ASSUME NEW m \in Installations, DeliverDeployment(m) PROVE TypeInv'
  <2>1. Tail(deployment[m]) \in Versions(Images \cup {None})
    BY <1>2, Histories, DeliveredVersions DEF DeliverDeployment
  <2>2. /\ deployment' \in [Installations -> Seq(Images \cup {None})]
        /\ \A n \in Installations : Len(deployment'[n]) \in 1 .. CacheLag + 1
    BY <1>2, <2>1 DEF DeliverDeployment, TypeOK, Versions
  <2> QED BY <1>2, <2>2 DEF DeliverDeployment, TypeOK, Imaged
<1>3. CASE DeliverJob
  <2>1. job' \in Versions(Job \cup {None})
    BY <1>3, Histories, DeliveredVersions DEF DeliverJob
  <2> QED BY <1>3, <2>1 DEF DeliverJob, TypeOK, Imaged, Versions
<1>4. CASE PodFails \/ JobCompletes \/ JobGivesUp
  BY <1>4, JobControllerTyped
<1>5. ASSUME NEW m \in Installations, CallFails(m) PROVE TypeInv'
  <2>1. pass[m].pc # "idle" /\ Moved(m, {"launch", "delete", "create", "apply", "cleanup"})
    BY <1>5 DEF CallFails, Moved
  <2> QED BY <1>5, <2>1, MovedTyped DEF CallFails, TypeOK
<1>6. ASSUME NEW m \in Installations, EditSpec(m) PROVE TypeInv'
  BY <1>6 DEF EditSpec, TypeOK, Imaged
<1>7. CASE Crash
  BY <1>7, CrashTyped
<1>8. CASE UNCHANGED vars
  BY <1>8 DEF vars, TypeOK, Imaged
<1> QED
  BY <1>1, <1>2, <1>3, <1>4, <1>5, <1>6, <1>7, <1>8 DEF Next, Ordinary, Disturbance

(* The types at the start. *)
LEMMA InitTyped == Init => TypeInv
<1> SUFFICES ASSUME Init PROVE TypeInv
  OBVIOUS
<1>1. /\ <<None>> \in Seq(Images \cup {None}) /\ <<None>> \in Seq(Job \cup {None})
      /\ Len(<<None>>) \in 1 .. CacheLag + 1
  BY ConstantsAssumption
<1>2. /\ deployment \in [Installations -> Seq(Images \cup {None})]
      /\ \A m \in Installations : Len(deployment[m]) \in 1 .. CacheLag + 1
  BY <1>1 DEF Init
<1>3. pass \in [Installations -> Pass] /\ Imaged
  BY IdlePass DEF Init, Imaged
<1> QED BY <1>1, <1>2, <1>3 DEF Init, TypeInv, TypeOK, Wanted

(* The variables of the upgrades have their types: in particular the cache *)
(* is never further behind than CacheLag writes, and what a pass launches  *)
(* or rolls out is an image (checkMattermostDeployment, checkUpdateJob).   *)
THEOREM UpgradeTyped == Spec => []TypeOK
<1>1. TypeInv => TypeOK
  BY DEF TypeInv
<1> QED BY <1>1, InitTyped, NextTyped, PTL DEF Spec

-----------------------------------------------------------------------------
(* Verified upgrades *)

(* The jobs that, if they ran to the end without a failed pod, have the    *)
(* (installation, image) pair they vouch for in V.                         *)
Honest(V) ==
    {j \in Job \cup {None} :
        j # None /\ j.phase = "complete" /\ ~j.failed => <<j.owner, j.image>> \in V}

(* Every job that a pass can still read is honest.                         *)
JobsHonest == Within(job, Honest(verified))

(* A pass that is about to change the image found a job that ran it.       *)
ApplyTried ==
    \A m \in Installations : pass[m].pc = "apply" =>
        \E n \in Installations : <<n, pass[m].image>> \in verified

(* Only a pass whose job is disabled does so without one.                  *)
RollDisabled == \A m \in Installations : pass[m].pc = "roll" => pass[m].disabled

(* The invariant that both theorems rest on. *)
UpgradeInv == TypeInv /\ JobsHonest /\ ApplyTried /\ RollDisabled

(* Some job of the namespace ran an image to the end, without a failed     *)
(* pod, before any installation there gets it.                             *)
TriedUpgrade ==
    [][\A m \in Installations :
          /\ Live(deployment[m]) # None
          /\ Live(deployment'[m]) # Live(deployment[m])
          /\ ~pass[m].disabled
          => \E n \in Installations : <<n, Live(deployment'[m])>> \in verified]_vars

(* Jobs that tell the truth go on doing so when more images have been      *)
(* tried.                                                                  *)
LEMMA HonestGrows ==
    ASSUME NEW V, NEW W, V \subseteq W, NEW s, Within(s, Honest(V))
    PROVE  Within(s, Honest(W))
  BY DEF Within, Honest

(* New jobs vouch for nothing, and neither does the absence of one.        *)
LEMMA JobStaysHonest ==
    ASSUME UpgradeInv, NEW m \in Installations, pass[m].pc # "idle",
           job' \in {job, Published(job, None), Published(job, NewJob(m))},
           UNCHANGED verified
    PROVE  JobsHonest'
<1>1. job \in Versions(Job \cup {None}) /\ Within(job, Honest(verified))
  BY Histories DEF UpgradeInv, TypeInv, JobsHonest
<1>2. None \in Honest(verified)
  BY DEF Honest
<1>3. NewJob(m) \in Job /\ NewJob(m).phase = "running"
  BY NewJobTyped DEF UpgradeInv
<1>4. NewJob(m) \in Honest(verified)
  BY <1>3 DEF Honest
<1>5. Within(job', Honest(verified))
  BY <1>1, <1>2, <1>3, <1>4, PublishedVersions
<1> QED BY <1>5 DEF JobsHonest

(* A pass that goes idle, or to where nothing is rolled out.               *)
LEMMA PassStaysTried ==
    ASSUME UpgradeInv, NEW m \in Installations,
           Moved(m, {"launch", "delete", "create", "cleanup"}), verified \subseteq verified'
    PROVE  ApplyTried' /\ RollDisabled'
<1>1. pass \in [Installations -> Pass]
  BY DEF UpgradeInv, TypeInv, TypeOK
<1>2. CASE Return(m)
  BY <1>1, <1>2, IdlePass DEF Return, UpgradeInv, ApplyTried, RollDisabled
<1>3. ASSUME NEW label \in {"launch", "delete", "create", "cleanup"}, Goto(m, label)
      PROVE  ApplyTried' /\ RollDisabled'
  <2>1. pass' = [pass EXCEPT ![m].pc = label] /\ label # "apply" /\ label # "roll"
    BY <1>3 DEF Goto
  <2>2. \A n \in Installations : n # m => pass'[n] = pass[n]
    BY <1>1, <2>1
  <2>3. pass'[m].pc = label
    BY <1>1, <2>1 DEF Pass
  <2> QED BY <2>1, <2>2, <2>3 DEF UpgradeInv, ApplyTried, RollDisabled
<1> QED BY <1>2, <1>3 DEF Moved

(* checkUpdateJob says "apply" only of a job that is there, has the image, *)
(* and is over without a failed pod.                                       *)
LEMMA VerdictApply ==
    ASSUME NEW j, NEW image, Verdict(j, image) = "apply"
    PROVE  j # None /\ j.image = image /\ j.phase = "complete" /\ ~j.failed
  BY DEF Verdict

(* A pass that is let through by checkUpdateJob has an image that was      *)
(* tried.                                                                  *)
LEMMA CheckStaysTried ==
    ASSUME UpgradeInv, NEW m \in Installations, CheckUpdateJob(m)
    PROVE  ApplyTried' /\ RollDisabled'
<1> DEFINE found == Cached(job)
           next == Verdict(found, pass[m].image)
<1>1. CASE next # "apply"
  <2>1. Moved(m, {"launch", "delete", "create", "cleanup"})
    BY <1>1, VerdictLabel DEF CheckUpdateJob, Moved
  <2> QED BY <2>1, PassStaysTried DEF CheckUpdateJob
<1>2. CASE next = "apply"
  <2>1. pass' = [pass EXCEPT ![m].pc = "apply"] /\ UNCHANGED verified
    BY <1>2 DEF CheckUpdateJob, Goto
  <2>2. found \in Honest(verified)
    BY Histories, HeldVersions DEF UpgradeInv, TypeInv, JobsHonest
  <2>3. found # None /\ found.image = pass[m].image /\ found.phase = "complete" /\ ~found.failed
    BY <1>2, VerdictApply
  <2> HIDE DEF found, next
  <2>4. found \in Job /\ <<found.owner, pass[m].image>> \in verified
    BY <2>2, <2>3 DEF Honest
  <2>5. \E n \in Installations : <<n, pass[m].image>> \in verified
    BY <2>4 DEF Job
  <2>6. pass \in [Installations -> Pass]
    BY DEF UpgradeInv, TypeInv, TypeOK
  <2>7. /\ pass'[m].pc = "apply" /\ pass'[m].image = pass[m].image
        /\ \A n \in Installations : n # m => pass'[n] = pass[n]
    BY <2>1, <2>6 DEF Pass
  <2> QED BY <2>1, <2>5, <2>7 DEF UpgradeInv, ApplyTried, RollDisabled
<1> QED BY <1>1, <1>2

(* Every step of a pass keeps the invariant, *)
LEMMA StepStaysTried ==
    ASSUME UpgradeInv, NEW m \in Installations, Step(m)
    PROVE  JobsHonest' /\ ApplyTried' /\ RollDisabled'
<1>1. CASE Begin(m)
  <2>1. pass \in [Installations -> Pass]
    BY DEF UpgradeInv, TypeInv, TypeOK
  <2>2. pass'[m].pc = "compare" /\ \A n \in Installations : n # m => pass'[n] = pass[n]
    BY <1>1, <2>1 DEF Begin
  <2>3. ApplyTried' /\ RollDisabled'
    BY <1>1, <2>2 DEF Begin, UpgradeInv, ApplyTried, RollDisabled
  <2> QED BY <1>1, <2>3 DEF Begin, UpgradeInv, JobsHonest
<1>2. CASE OtherImage(m)
  <2> DEFINE label == IF pass[m].disabled THEN "roll" ELSE "check"
             now == Len(deployment[m]) = 1
  <2>1. pass' = [pass EXCEPT ![m].pc = label, ![m].current = now]
    BY <1>2 DEF OtherImage
  <2>2. label # "apply" /\ (label = "roll" => pass[m].disabled)
    OBVIOUS
  <2> HIDE DEF label, now
  <2>3. pass \in [Installations -> Pass]
    BY DEF UpgradeInv, TypeInv, TypeOK
  <2>4. /\ pass'[m].pc = label /\ pass'[m].disabled = pass[m].disabled
        /\ \A n \in Installations : n # m => pass'[n] = pass[n]
    BY <2>1, <2>3 DEF Pass
  <2>5. ApplyTried'
    <3>1. UNCHANGED verified /\ ApplyTried
      BY <1>2 DEF OtherImage, UpgradeInv
    <3>2. pass'[m].pc # "apply" /\ \A n \in Installations : n # m => pass'[n] = pass[n]
      BY <2>2, <2>4
    <3> QED BY <3>1, <3>2 DEF ApplyTried
  <2>6. RollDisabled'
    BY <2>2, <2>4 DEF UpgradeInv, RollDisabled
  <2> QED BY <1>2, <2>5, <2>6 DEF OtherImage, UpgradeInv, JobsHonest
<1>3. CASE CheckUpdateJob(m)
  BY <1>3, CheckStaysTried DEF CheckUpdateJob, UpgradeInv, JobsHonest
<1>4. CASE CreateDeployment(m) \/ SameImage(m) \/ Apply(m) \/ Roll(m)
  <2>1. Moved(m, {"launch", "delete", "create", "cleanup"}) /\ UNCHANGED <<job, verified>>
    BY <1>4 DEF CreateDeployment, SameImage, Apply, Roll, Moved
  <2> QED BY <2>1, PassStaysTried DEF UpgradeInv, JobsHonest
<1>5. CASE Launch(m) \/ DeleteOutdated(m) \/ CreateAgain(m) \/ Cleanup(m)
  <2>1. /\ Moved(m, {"launch", "delete", "create", "cleanup"}) /\ UNCHANGED verified
        /\ pass[m].pc # "idle"
        /\ job' \in {job, Published(job, None), Published(job, NewJob(m))}
    BY <1>5 DEF Launch, DeleteOutdated, CreateAgain, Cleanup, Moved
  <2> QED BY <2>1, PassStaysTried, JobStaysHonest
<1> QED BY <1>1, <1>2, <1>3, <1>4, <1>5 DEF Step

(* A job that completes is entered in verified as it does.                 *)
LEMMA JobControllerHonest ==
    ASSUME UpgradeInv, PodFails \/ JobCompletes \/ JobGivesUp
    PROVE  JobsHonest' /\ ApplyTried' /\ RollDisabled'
<1>1. JobRunning /\ UNCHANGED pass /\ verified \subseteq verified'
  BY DEF PodFails, JobCompletes, JobGivesUp
<1>2. job \in Versions(Job \cup {None}) /\ Within(job, Honest(verified'))
  BY <1>1, Histories, HonestGrows DEF UpgradeInv, TypeInv, JobsHonest
<1>3. Live(job) \in Job
  BY <1>1, LiveJob DEF UpgradeInv, TypeInv
<1>4. PICK v \in Job : job' = Published(job, v) /\ v \in Honest(verified')
  <2>1. CASE PodFails
    <3> DEFINE failed == [Live(job) EXCEPT !.failed = TRUE]
    <3>1. failed \in Job /\ failed.failed /\ job' = Published(job, failed)
      BY <1>3, <2>1 DEF PodFails, Job
    <3> HIDE DEF failed
    <3> QED BY <3>1 DEF Honest
  <2>2. CASE JobGivesUp
    <3> DEFINE given == [Live(job) EXCEPT !.phase = "gaveup"]
    <3>1. given \in Job /\ given.phase = "gaveup" /\ job' = Published(job, given)
      BY <1>3, <2>2 DEF JobGivesUp, Job
    <3> HIDE DEF given
    <3> QED BY <3>1 DEF Honest
  <2>3. CASE JobCompletes
    <3> DEFINE over == [Live(job) EXCEPT !.phase = "complete"]
    <3>1. /\ over \in Job /\ over.owner = Live(job).owner
          /\ over.image = Live(job).image /\ over.failed = Live(job).failed
      BY <1>3 DEF Job
    <3>2. job' = Published(job, over)
      BY <2>3 DEF JobCompletes
    <3>3. ~Live(job).failed => <<Live(job).owner, Live(job).image>> \in verified'
      BY <2>3 DEF JobCompletes
    <3> HIDE DEF over
    <3> QED BY <3>1, <3>2, <3>3 DEF Honest
  <2> QED BY <2>1, <2>2, <2>3
<1>5. JobsHonest'
  BY <1>2, <1>4, PublishedVersions DEF JobsHonest
<1> QED BY <1>1, <1>5 DEF UpgradeInv, ApplyTried, RollDisabled

(* and so does every step of the system. *)
LEMMA NextTried == UpgradeInv /\ [Next]_vars => UpgradeInv'
<1> SUFFICES ASSUME UpgradeInv, [Next]_vars PROVE UpgradeInv'
  OBVIOUS
<1>1. TypeInv'
  BY NextTyped DEF UpgradeInv
<1> SUFFICES JobsHonest' /\ ApplyTried' /\ RollDisabled'
  BY <1>1 DEF UpgradeInv
<1>2. ASSUME NEW m \in Installations, Step(m)
      PROVE  JobsHonest' /\ ApplyTried' /\ RollDisabled'
  BY <1>2, StepStaysTried
<1>3. ASSUME NEW m \in Installations, DeliverDeployment(m) \/ EditSpec(m)
      PROVE  JobsHonest' /\ ApplyTried' /\ RollDisabled'
  BY <1>3 DEF DeliverDeployment, EditSpec, UpgradeInv, JobsHonest, ApplyTried, RollDisabled
<1>4. CASE DeliverJob
  <2>1. JobsHonest'
    BY <1>4, Histories, DeliveredVersions DEF DeliverJob, UpgradeInv, TypeInv, JobsHonest
  <2> QED BY <1>4, <2>1 DEF DeliverJob, UpgradeInv, ApplyTried, RollDisabled
<1>5. CASE PodFails \/ JobCompletes \/ JobGivesUp
  BY <1>5, JobControllerHonest
<1>6. ASSUME NEW m \in Installations, CallFails(m)
      PROVE  JobsHonest' /\ ApplyTried' /\ RollDisabled'
  <2>1. Moved(m, {"launch", "delete", "create", "cleanup"}) /\ UNCHANGED <<job, verified>>
    BY <1>6 DEF CallFails, Moved
  <2> QED BY <2>1, PassStaysTried DEF UpgradeInv, JobsHonest
<1>7. CASE Crash
  <2>1. pass' = [m \in Installations |-> Idle] /\ job' = <<Live(job)>> /\ UNCHANGED verified
    BY <1>7 DEF Crash
  <2>2. ApplyTried' /\ RollDisabled'
    BY <2>1, IdlePass DEF ApplyTried, RollDisabled
  <2>3. JobsHonest'
    BY <2>1, Histories, HeldVersions DEF UpgradeInv, TypeInv, JobsHonest
  <2> QED BY <2>2, <2>3
<1>8. CASE UNCHANGED vars
  BY <1>8 DEF vars, UpgradeInv, JobsHonest, ApplyTried, RollDisabled
<1> QED
  BY <1>2, <1>3, <1>4, <1>5, <1>6, <1>7, <1>8 DEF Next, Ordinary, Disturbance

(* The invariant at the start. *)
LEMMA InitTried == Init => UpgradeInv
<1> SUFFICES ASSUME Init PROVE UpgradeInv
  OBVIOUS
<1>1. job = <<None>> /\ pass = [m \in Installations |-> Idle]
  BY DEF Init
<1>2. Within(<<None>>, Honest(verified))
  BY DEF Within, Honest
<1>3. ApplyTried /\ RollDisabled
  BY <1>1, IdlePass DEF ApplyTried, RollDisabled
<1> QED BY <1>1, <1>2, <1>3, InitTyped DEF UpgradeInv, JobsHonest

(* Only three steps of a pass change the live deployment of m: one creates *)
(* it, one is disabled, and one applies an image that a job ran.           *)
LEMMA ChangeTried ==
    ASSUME UpgradeInv, [Next]_vars, NEW m \in Installations,
           Live(deployment[m]) # None, Live(deployment'[m]) # Live(deployment[m]),
           ~pass[m].disabled
    PROVE  \E n \in Installations : <<n, Live(deployment'[m])>> \in verified
<1>1. /\ TypeOK /\ Imaged /\ deployment[m] \in Versions(Images \cup {None})
      /\ deployment \in [Installations -> Seq(Images \cup {None})]
  BY Histories DEF UpgradeInv, TypeInv, TypeOK
<1>2. ASSUME NEW n \in Installations,
             deployment' \in {deployment, [deployment EXCEPT ![n] = Published(@, pass[n].image)]}
      PROVE  n = m
  BY <1>1, <1>2
<1>3. ASSUME NEW n \in Installations, CreateDeployment(n)
      PROVE  FALSE
  <2>1. deployment' \in {deployment, [deployment EXCEPT ![n] = Published(@, pass[n].image)]}
    BY <1>3 DEF CreateDeployment
  <2>2. n = m
    BY <1>2, <2>1
  <2> QED BY <1>1, <1>3, <2>2 DEF CreateDeployment
<1>4. ASSUME NEW n \in Installations, Roll(n)
      PROVE  FALSE
  <2>1. deployment' \in {deployment, [deployment EXCEPT ![n] = Published(@, pass[n].image)]}
    BY <1>4 DEF Roll, UpdateDeployment
  <2>2. n = m
    BY <1>2, <2>1
  <2> QED BY <1>4, <2>2 DEF Roll, UpgradeInv, RollDisabled
<1>5. ASSUME NEW n \in Installations, Apply(n)
      PROVE  \E o \in Installations : <<o, Live(deployment'[m])>> \in verified
  <2>1. deployment' \in {deployment, [deployment EXCEPT ![n] = Published(@, pass[n].image)]}
    BY <1>5 DEF Apply, UpdateDeployment
  <2>2. n = m
    BY <1>2, <2>1
  <2>3. pass[m].pc = "apply" /\ pass[m].image \in Images
    BY <1>1, <1>5, <2>2 DEF Apply, Imaged
  <2>4. Live(Published(deployment[m], pass[m].image)) = pass[m].image
    BY <1>1, <2>3, PublishedVersions
  <2>5. Live(deployment'[m]) = pass[m].image
    BY <1>1, <2>1, <2>2, <2>4
  <2> QED BY <2>3, <2>5 DEF UpgradeInv, ApplyTried
<1>6. ASSUME NEW n \in Installations, DeliverDeployment(n)
      PROVE  FALSE
  <2>1. Live(Tail(deployment[n])) = Live(deployment[n])
    BY <1>1, <1>6, Histories, DeliveredVersions DEF DeliverDeployment
  <2> QED BY <1>1, <1>6, <2>1 DEF DeliverDeployment
<1>7. CASE Crash
  BY <1>1, <1>7, HeldVersions DEF Crash
<1>8. ASSUME UNCHANGED deployment
      PROVE  FALSE
  BY <1>8
<1>9. \/ UNCHANGED deployment \/ Crash
      \/ \E n \in Installations :
            CreateDeployment(n) \/ Roll(n) \/ Apply(n) \/ DeliverDeployment(n)
  BY DEF Next, Ordinary, Disturbance, Step, Begin, SameImage, OtherImage, CheckUpdateJob,
         Launch, DeleteOutdated, CreateAgain, Cleanup, CallFails, EditSpec, PodFails,
         JobGivesUp, JobCompletes, DeliverJob, vars
<1> QED BY <1>3, <1>4, <1>5, <1>6, <1>7, <1>8, <1>9

(* A running installation gets a new image only after some job of its      *)
(* namespace ran that image to the end without a failed pod, unless the    *)
(* job is disabled: for any number of installations that share the one     *)
(* job, any lag of the cache, any edits, failures and restarts             *)
(* (updateMattermostDeployment, checkUpdateJob).                           *)
THEOREM UpgradesTried == Spec => TriedUpgrade
<1>1. UpgradeInv /\ [Next]_vars =>
        [\A m \in Installations :
            /\ Live(deployment[m]) # None
            /\ Live(deployment'[m]) # Live(deployment[m])
            /\ ~pass[m].disabled
            => \E n \in Installations : <<n, Live(deployment'[m])>> \in verified]_vars
  BY ChangeTried
<1> QED BY <1>1, InitTried, NextTried, PTL DEF Spec, TriedUpgrade

(* In a namespace of its own it was a job of the installation itself: the  *)
(* image has run against its database.  With a second installation there   *)
(* this is false, see run shared_job (updateMattermostDeployment).         *)
THEOREM UpgradesVerified ==
    ASSUME \A m, n \in Installations : m = n
    PROVE  Spec => VerifiedUpgrade
<1>1. UpgradeInv /\ [Next]_vars =>
        [\A m \in Installations :
            /\ Live(deployment[m]) # None
            /\ Live(deployment'[m]) # Live(deployment[m])
            /\ ~pass[m].disabled
            => <<m, Live(deployment'[m])>> \in verified]_vars
  BY ChangeTried
<1> QED BY <1>1, InitTried, NextTried, PTL DEF Spec, VerifiedUpgrade

=============================================================================
