-------------------------- MODULE OwnedObjectsProofs --------------------------
(***************************************************************************)
(* Proofs about OwnedObjects, for any templates and specs, any number of   *)
(* replicas, any lag of the informer cache and any number of disturbances: *)
(* type correctness with the bounds on the cache, and that the health      *)
(* check counts the pods of the template that its pass asked for.          *)
(***************************************************************************)
EXTENDS OwnedObjects, FiniteSetTheorems, TLAPS

-----------------------------------------------------------------------------
(* Versions *)

(* A write makes v the live version and keeps the older ones; a write of   *)
(* what is there changes nothing.                                          *)
LEMMA Written ==
    ASSUME NEW S, NEW s \in Seq(S), Len(s) \in Nat \ {0}, NEW v \in S
    PROVE  /\ Write(s, v) \in Seq(S) /\ Live(Write(s, v)) = v
           /\ v = Live(s) => Write(s, v) = s
           /\ v # Live(s) => /\ Len(Write(s, v)) = Len(s) + 1
                             /\ \A i \in 1 .. Len(s) : Write(s, v)[i] = s[i]
  BY DEF Write, Live

LEMMA MoreThanOne == \A n \in Nat \ {0} : n # 1 => n > 1 /\ 1 \in 1 .. n - 1
  OBVIOUS

(* A delivery moves the cache on and leaves the live version.              *)
LEMMA Delivered ==
    ASSUME NEW S, NEW s \in Seq(S), Len(s) \in Nat \ {0}, ~Current(s)
    PROVE  /\ Tail(s) \in Seq(S) /\ Live(Tail(s)) = Live(s)
           /\ Len(Tail(s)) = Len(s) - 1 /\ Len(Tail(s)) \in Nat \ {0}
           /\ \A i \in 1 .. Len(s) - 1 : Tail(s)[i] = s[i + 1]
<1>1. Len(s) \in Nat /\ Len(s) > 1
  BY MoreThanOne, Zenon DEF Current
<1>2. Tail(s) \in Seq(S) /\ Len(Tail(s)) = Len(s) - 1
  BY <1>1
<1>3. \A i \in 1 .. Len(s) - 1 : Tail(s)[i] = s[i + 1]
  BY <1>1
<1> QED BY <1>1, <1>2, <1>3 DEF Live

LEMMA Held ==
    ASSUME NEW S, NEW s \in Seq(S), Len(s) \in Nat \ {0}
    PROVE  /\ Cached(s) \in S /\ Cached(s) = s[1]
           /\ Live(s) \in S /\ Live(s) = s[Len(s)]
           /\ <<Live(s)>> \in Seq(S) /\ Len(<<Live(s)>>) = 1 /\ Live(<<Live(s)>>) = Live(s)
  BY DEF Cached, Live

(* The number of pods is a number. *)
LEMMA TotalType == Total \in Nat
<1>1. IsFiniteSet(1 .. Replicas)
  BY FS_Interval, ConstantsAssumption
<1>2. IsFiniteSet(Templates \X (1 .. Replicas))
  BY <1>1, FS_Product, ConstantsAssumption
<1> DEFINE P == {p \in Templates \X (1 .. Replicas) : p[2] <= pods[p[1]]}
<1>3. P \in SUBSET (Templates \X (1 .. Replicas))
  OBVIOUS
<1>4. IsFiniteSet(P)
  BY <1>2, <1>3, FS_Subset
<1> QED BY <1>4, FS_CardinalityType DEF Total

LEMMA DesiredType ==
    ASSUME NEW kind \in Kind, NEW spec \in Specs
    PROVE  /\ Desired(kind, spec) \in Values
           /\ spec.Template \in Templates
           /\ kind = "Deployment" => Desired(kind, spec) = spec.Template
  BY ConstantsAssumption DEF Desired, Values, Kind

-----------------------------------------------------------------------------
(* The versions of the Mattermost.  No version is the live one but the     *)
(* last; what a pass read is not newer, and if it is the live one the      *)
(* cache is up to date: so a status write finds it so.                     *)

MattermostInv ==
    /\ mattermost \in Seq(Mattermost) /\ Len(mattermost) \in 1 .. CacheLag + 1
    /\ \A i \in 1 .. Len(mattermost) - 1 :
        /\ mattermost[i].Generation <= Live(mattermost).Generation
        /\ mattermost[i] # Live(mattermost)
    /\ pass.pc # "idle" =>
        /\ pass.read \in Mattermost
        /\ pass.read.Generation <= Live(mattermost).Generation
        /\ Accepted => Current(mattermost)

LEMMA Edited ==
    ASSUME NEW old \in Mattermost, NEW spec \in Specs, NEW n \in Nat
    PROVE  LET new == [old EXCEPT !.Spec = spec, !.Generation = n]
           IN new \in Mattermost /\ new.Generation = n
  BY DEF Mattermost

(* A step of the pass: on with the Mattermost that was read, or to its     *)
(* end, with or without a status.                                          *)
PassStep ==
    /\ pass.pc # "idle"
    /\ \/ /\ UNCHANGED mattermost
          /\ pass' = Idle \/ pass'.read = pass.read
       \/ /\ pass' = Idle
          /\ \E state \in RunningState : UpdateStatus(state)

PassAction ==
    Ensure \/ Remove \/ GetMisses \/ Unchanged \/ Update \/ DeleteService \/ Recreate
        \/ Rollout \/ Count \/ Conclude \/ CallFails

LEMMA PassActions ==
    ASSUME pass \in Pass, PassAction
    PROVE  PassStep
<1> USE DEF PassStep, At, RunningState
<1>e. pass.pc # "idle" /\ Error => PassStep
  BY DEF Error, Return
<1>u. ASSUME NEW state \in RunningState, pass.pc # "idle", Unhealthy(state)
      PROVE  PassStep
  BY <1>u DEF Unhealthy, Return
<1>p. pass.pc # "idle" /\ Proceed => PassStep
  BY DEF Proceed, Pass
<1>g. ASSUME NEW pc, pass.pc # "idle", Goto(pc)
      PROVE  PassStep
  BY <1>g DEF Goto, Pass
<1>1. CASE Ensure
  BY <1>1, <1>e, <1>g DEF Ensure
<1>2. CASE Remove
  BY <1>2, <1>e, <1>p DEF Remove
<1>3. CASE GetMisses
  BY <1>3, <1>e DEF GetMisses
<1>4. CASE Unchanged
  BY <1>4, <1>p DEF Unchanged, Found, Pass
<1>5. CASE Update
  BY <1>5, <1>p, <1>e DEF Update, Found
<1>6. CASE DeleteService
  BY <1>6, <1>g, <1>e DEF DeleteService, Found
<1>7. CASE Recreate
  BY <1>7, <1>p DEF Recreate
<1>8. CASE Rollout
  BY <1>8, <1>u DEF Rollout, Pass
<1>9. CASE Count
  BY <1>9, <1>u DEF Count, Pass
<1>10. CASE Conclude
  BY <1>10, <1>u DEF Conclude, Return
<1>11. CASE CallFails
  BY <1>11, <1>e DEF CallFails, Return
<1> QED
  BY <1>1, <1>2, <1>3, <1>4, <1>5, <1>6, <1>7, <1>8, <1>9, <1>10, <1>11 DEF PassAction

LEMMA MattermostKept ==
    ASSUME MattermostInv, pass \in Pass, [Next]_vars
    PROVE  MattermostInv'
<1>0. /\ mattermost \in Seq(Mattermost) /\ Len(mattermost) \in Nat \ {0}
      /\ Cached(mattermost) \in Mattermost /\ Cached(mattermost) = mattermost[1]
      /\ Live(mattermost) \in Mattermost /\ Live(mattermost) = mattermost[Len(mattermost)]
  <2>1. mattermost \in Seq(Mattermost) /\ Len(mattermost) \in Nat \ {0}
    BY ConstantsAssumption DEF MattermostInv
  <2> QED BY <2>1, Held
<1>q. ASSUME UNCHANGED mattermost,
             pass' = Idle \/ UNCHANGED pass \/ (pass.pc # "idle" /\ pass'.read = pass.read)
      PROVE  MattermostInv'
  <2>1. pass'.pc # "idle" => pass.pc # "idle" /\ pass'.read = pass.read
    BY <1>q DEF Idle
  <2>2. Live(mattermost)' = Live(mattermost) /\ Current(mattermost)' = Current(mattermost)
    BY <1>q DEF Live, Current
  <2> QED BY <1>q, <2>1, <2>2 DEF MattermostInv, Accepted
<1>1. CASE PassAction
  <2>1. PassStep
    BY <1>1, PassActions
  <2>2. CASE UNCHANGED mattermost
    BY <2>1, <2>2, <1>q DEF PassStep, UpdateStatus, Idle
  <2>3. CASE mattermost' # mattermost
    <3>1. PICK state \in RunningState : UpdateStatus(state)
      BY <2>1, <2>3 DEF PassStep
    <3> DEFINE v == [pass.read EXCEPT !.State = state]
    <3>2. pass' = Idle /\ Accepted /\ Current(mattermost) /\ pass.read \in Mattermost
      BY <2>1, <2>3, <3>1 DEF PassStep, UpdateStatus, MattermostInv
    <3>3. v \in Mattermost /\ v.Generation = pass.read.Generation
      BY <3>2 DEF Mattermost
    <3>4. mattermost' = Write(mattermost, v) /\ v # Live(mattermost)
      BY <2>3, <3>1, <3>2, <3>3, <1>0, Written DEF UpdateStatus
    <3> HIDE DEF v
    <3>5. /\ mattermost' \in Seq(Mattermost) /\ Live(mattermost') = v
          /\ Len(mattermost') = 2 /\ mattermost'[1] = Live(mattermost)
      <4>1. Len(mattermost) = 1
        BY <3>2 DEF Current
      <4>2. /\ mattermost' \in Seq(Mattermost) /\ Live(mattermost') = v
            /\ Len(mattermost') = Len(mattermost) + 1
            /\ \A i \in 1 .. Len(mattermost) : mattermost'[i] = mattermost[i]
        BY <1>0, <3>3, <3>4, Written
      <4> QED BY <1>0, <4>1, <4>2
    <3>6. Live(mattermost).Generation = v.Generation /\ v.Generation \in Nat
      BY <3>2, <3>3 DEF Accepted, Mattermost
    <3>7. Len(mattermost') \in 1 .. CacheLag + 1
      BY <3>5, ConstantsAssumption
    <3>8. ASSUME NEW i \in 1 .. Len(mattermost') - 1
          PROVE  /\ mattermost'[i].Generation <= Live(mattermost').Generation
                 /\ mattermost'[i] # Live(mattermost')
      <4>1. i = 1
        BY <3>5
      <4> QED BY <4>1, <3>4, <3>5, <3>6
    <3>9. pass'.pc = "idle"
      BY <3>2 DEF Idle
    <3> QED BY <3>5, <3>7, <3>8, <3>9 DEF MattermostInv
  <2> QED BY <2>2, <2>3
<1>2. CASE Begin
  <2>1. UNCHANGED mattermost /\ pass'.read = Cached(mattermost) /\ pass'.pc = "ensure"
    BY <1>2 DEF Begin, Idle
  <2>2. Cached(mattermost).Generation <= Live(mattermost).Generation
    BY <1>0 DEF MattermostInv, Mattermost
  <2>3. Cached(mattermost) = Live(mattermost) => Len(mattermost) = 1
    <3>1. Len(mattermost) # 1 => 1 \in 1 .. Len(mattermost) - 1
      BY <1>0, MoreThanOne, Zenon
    <3> QED BY <1>0, <3>1 DEF MattermostInv
  <2> QED BY <1>0, <2>1, <2>2, <2>3 DEF MattermostInv, Accepted, Current, Live
<1>3. CASE DeliverMattermost
  <2> DEFINE new == Tail(mattermost)
  <2>1. mattermost' = new /\ UNCHANGED pass /\ ~Current(mattermost)
    BY <1>3 DEF DeliverMattermost
  <2>2. /\ new \in Seq(Mattermost) /\ Live(new) = Live(mattermost)
        /\ Len(new) = Len(mattermost) - 1 /\ Len(new) \in Nat \ {0}
        /\ \A i \in 1 .. Len(mattermost) - 1 : new[i] = mattermost[i + 1]
    BY <1>0, <2>1, Delivered
  <2> HIDE DEF new
  <2>3. Len(new) \in 1 .. CacheLag + 1
    BY <2>2, <1>0, ConstantsAssumption DEF MattermostInv
  <2>4. ASSUME NEW i \in 1 .. Len(new) - 1
        PROVE  new[i].Generation <= Live(new).Generation /\ new[i] # Live(new)
    BY <2>2, <1>0 DEF MattermostInv
  <2>5. pass.pc # "idle" => pass.read # Live(mattermost)
    BY <2>1 DEF MattermostInv, Accepted
  <2> QED BY <2>1, <2>2, <2>3, <2>4, <2>5 DEF MattermostInv, Accepted
<1>4. CASE EditSpec
  <2>1. PICK spec \in Specs :
            mattermost' = Append(mattermost, [Live(mattermost) EXCEPT !.Spec = spec,
                                                                      !.Generation = @ + 1])
    BY <1>4 DEF EditSpec
  <2> DEFINE v == [Live(mattermost) EXCEPT !.Spec = spec, !.Generation = @ + 1]
  <2>2. v \in Mattermost /\ v.Generation = Live(mattermost).Generation + 1
    <3>1. Live(mattermost).Generation + 1 \in Nat
      BY <1>0 DEF Mattermost
    <3> QED BY <1>0, <2>1, <3>1, Edited
  <2>3. mattermost' = Append(mattermost, v) /\ UNCHANGED pass /\ Len(mattermost) <= CacheLag
    BY <1>4, <2>1 DEF EditSpec, Room
  <2> HIDE DEF v
  <2>4. /\ mattermost' \in Seq(Mattermost) /\ Len(mattermost') = Len(mattermost) + 1
        /\ Live(mattermost') = v /\ \A i \in 1 .. Len(mattermost) : mattermost'[i] = mattermost[i]
    BY <1>0, <2>2, <2>3 DEF Live
  <2>5. Len(mattermost') \in 1 .. CacheLag + 1
    BY <1>0, <2>3, <2>4, ConstantsAssumption
  <2>6. ASSUME NEW i \in 1 .. Len(mattermost)
        PROVE  mattermost[i].Generation \in Nat /\ mattermost[i].Generation < v.Generation
    <3>1. mattermost[i] \in Mattermost
      BY <1>0
    <3>2. mattermost[i].Generation <= Live(mattermost).Generation
      BY <1>0, <3>1 DEF MattermostInv, Mattermost
    <3> QED BY <1>0, <2>2, <3>1, <3>2 DEF Mattermost
  <2>7. pass.pc # "idle" =>
            /\ pass.read \in Mattermost
            /\ pass.read.Generation <= v.Generation /\ pass.read # v
    BY <1>0, <2>2 DEF MattermostInv, Mattermost
  <2>8. ASSUME NEW i \in 1 .. Len(mattermost') - 1
        PROVE  /\ mattermost'[i].Generation <= Live(mattermost').Generation
               /\ mattermost'[i] # Live(mattermost')
    <3>1. i \in 1 .. Len(mattermost) /\ mattermost'[i] = mattermost[i]
      BY <1>0, <2>4
    <3> QED BY <3>1, <2>2, <2>4, <2>6 DEF Mattermost
  <2> QED BY <2>3, <2>4, <2>5, <2>7, <2>8 DEF MattermostInv, Accepted
<1>5. CASE Restart
  <2>1. mattermost' = <<Live(mattermost)>> /\ pass'.pc = "idle"
    BY <1>5 DEF Restart, Idle
  <2>2. mattermost' \in Seq(Mattermost) /\ Len(mattermost') = 1
    BY <1>0, <2>1
  <2> QED BY <2>1, <2>2, ConstantsAssumption DEF MattermostInv
<1>6. CASE UNCHANGED <<mattermost, pass>>
  BY <1>6, <1>q
<1> QED
  BY <1>1, <1>2, <1>3, <1>4, <1>5, <1>6
  DEF Next, Operator, PassAction, vars, Deliver, DeleteObject, ObserveDeployment,
      ObserveReplicaSet, StartPod, StopOldPod, AssignAddress, PodFails

-----------------------------------------------------------------------------
(* The versions of the objects.                                            *)

VersionsInv ==
    /\ objects \in [Kind -> Seq(Object \cup {None})]
    /\ \A k \in Kind : /\ Len(objects[k]) \in 1 .. CacheLag + 3
                       /\ Live(objects[k]) = None => Len(objects[k]) <= CacheLag + 2

(* Nobody else creates the service between its deletion and its creation.  *)
RecreateInv == pass.pc = "recreate" => Here = "Service" /\ Live(objects[Here]) = None

(* A deployment that its controller has observed has the revision of its   *)
(* template.                                                               *)
DeploymentInv ==
    Deployment # None =>
        /\ Deployment.value \in Templates
        /\ Deployment.observed => Deployment.revision = Deployment.value

(* The health check of a pass that read the deployment from a cache that   *)
(* was up to date is about the template that the pass asked for.           *)
AskedInv ==
    /\ pass.pc = "rollout" /\ ~pass.behind /\ Deployment # None =>
            Deployment.value = pass.read.Spec.Template
    /\ pass.pc = "count" /\ ~pass.behind => pass.revision = pass.read.Spec.Template

ObjectsInv == VersionsInv /\ RecreateInv /\ DeploymentInv /\ AskedInv

LEMMA VersionsHeld ==
    ASSUME VersionsInv, NEW k \in Kind
    PROVE  /\ objects[k] \in Seq(Object \cup {None}) /\ Len(objects[k]) \in Nat \ {0}
           /\ Cached(objects[k]) \in Object \cup {None}
           /\ Live(objects[k]) \in Object \cup {None}
           /\ Current(objects[k]) => Cached(objects[k]) = Live(objects[k])
<1>1. objects[k] \in Seq(Object \cup {None}) /\ Len(objects[k]) \in Nat \ {0}
  BY ConstantsAssumption DEF VersionsInv
<1> QED BY <1>1, Held DEF Current

(* A write of an object where there is room for it.                        *)
LEMMA PutKeeps ==
    ASSUME VersionsInv, NEW k \in Kind, NEW v \in Object \cup {None}, Put(k, v),
           Live(objects[k]) = None \/ Len(objects[k]) <= CacheLag + 1
    PROVE  /\ VersionsInv'
           /\ Live(objects'[k]) = v
           /\ \A j \in Kind \ {k} : objects'[j] = objects[j]
<1> DEFINE new == Write(objects[k], v)
<1>1. objects[k] \in Seq(Object \cup {None}) /\ Len(objects[k]) \in Nat \ {0}
  BY VersionsHeld
<1>2. /\ new \in Seq(Object \cup {None}) /\ Live(new) = v
      /\ v = Live(objects[k]) => new = objects[k]
      /\ v # Live(objects[k]) => Len(new) = Len(objects[k]) + 1
  BY <1>1, Written
<1>3. objects' = [objects EXCEPT ![k] = new]
  BY DEF Put
<1> HIDE DEF new
<1>4. objects'[k] = new /\ \A j \in Kind \ {k} : objects'[j] = objects[j]
  BY <1>3 DEF VersionsInv
<1>5. objects' \in [Kind -> Seq(Object \cup {None})]
  BY <1>2, <1>3 DEF VersionsInv
<1>6. /\ Len(new) \in 1 .. CacheLag + 3
      /\ Live(new) = None => Len(new) <= CacheLag + 2
  <2>1. CASE v = Live(objects[k])
    BY <1>2, <2>1 DEF VersionsInv
  <2>2. CASE v # Live(objects[k])
    <3> DEFINE n == Len(objects[k])
    <3>1. Len(new) = n + 1 /\ n \in 1 .. CacheLag + 3 /\ CacheLag \in Nat
      BY <1>2, <2>2, ConstantsAssumption DEF VersionsInv
    <3>2. IF Live(objects[k]) = None THEN n <= CacheLag + 2 /\ v # None ELSE n <= CacheLag + 1
      BY <2>2 DEF VersionsInv
    <3> HIDE DEF n
    <3> QED BY <1>2, <3>1, <3>2
  <2> QED BY <2>1, <2>2
<1> QED BY <1>2, <1>4, <1>5, <1>6 DEF VersionsInv

(* A write of an object other than the deployment, and one of the          *)
(* deployment, by a pass that goes on elsewhere or stays where it is.      *)
LEMMA OtherPut ==
    ASSUME ObjectsInv, NEW k \in Kind \ {"Deployment"}, NEW v \in Object \cup {None}, Put(k, v),
           Live(objects[k]) = None \/ Len(objects[k]) <= CacheLag + 1,
           \/ pass'.pc \notin {"recreate", "rollout", "count"}
           \/ v = None /\ pass'.pc = "recreate" /\ Here' = k /\ k = "Service"
           \/ v = None /\ UNCHANGED pass
    PROVE  ObjectsInv'
<1>1. /\ VersionsInv' /\ Live(objects'[k]) = v
      /\ \A j \in Kind \ {k} : objects'[j] = objects[j]
  BY PutKeeps DEF ObjectsInv
<1>2. Deployment' = Deployment
  BY <1>1 DEF Deployment, Kind
<1>3. RecreateInv'
  <2>1. CASE pass'.pc # "recreate"
    BY <2>1 DEF RecreateInv
  <2>2. CASE v = None /\ Here' = k /\ k = "Service"
    BY <1>1, <2>2 DEF RecreateInv
  <2>3. CASE v = None /\ UNCHANGED pass /\ pass.pc = "recreate"
    <3>1. Here' = Here /\ Here = "Service" /\ Live(objects[Here]) = None
      BY <2>3 DEF Here, ObjectsInv, RecreateInv
    <3>2. Live(objects'[Here]) = None
      <4>1. CASE Here = k
        BY <1>1, <2>3, <4>1
      <4>2. CASE Here # k
        BY <1>1, <3>1, <4>2, <2>3 DEF Put, ObjectsInv, VersionsInv
      <4> QED BY <4>1, <4>2
    <3> QED BY <3>1, <3>2 DEF RecreateInv
  <2> QED BY <2>1, <2>2, <2>3
<1>4. DeploymentInv' /\ AskedInv'
  BY <1>2 DEF ObjectsInv, DeploymentInv, AskedInv
<1> QED BY <1>1, <1>3, <1>4 DEF ObjectsInv

LEMMA DeploymentPut ==
    ASSUME ObjectsInv, NEW v \in Object \cup {None}, Put("Deployment", v),
           Deployment = None \/ Len(objects["Deployment"]) <= CacheLag + 1,
           v # None => v.value \in Templates /\ (v.observed => v.revision = v.value),
           \/ pass'.pc \notin {"recreate", "rollout", "count"}
           \/ pass'.pc = "rollout" /\ v.value = pass'.read.Spec.Template
           \/ UNCHANGED pass /\ (v # None => Deployment # None /\ v.value = Deployment.value)
    PROVE  ObjectsInv'
<1>0. "Deployment" \in Kind
  BY DEF Kind
<1>1. /\ VersionsInv' /\ Live(objects'["Deployment"]) = v
      /\ \A j \in Kind \ {"Deployment"} : objects'[j] = objects[j]
  BY <1>0, PutKeeps DEF ObjectsInv, Deployment
<1>2. Deployment' = v
  BY <1>1 DEF Deployment
<1>3. RecreateInv'
  <2>1. CASE pass'.pc # "recreate"
    BY <2>1 DEF RecreateInv
  <2>2. CASE UNCHANGED pass /\ pass.pc = "recreate"
    <3>1. Here' = Here /\ Here = "Service" /\ Live(objects[Here]) = None
      BY <2>2 DEF Here, ObjectsInv, RecreateInv
    <3> QED BY <1>1, <3>1 DEF RecreateInv, Kind
  <2> QED BY <2>1, <2>2
<1>4. DeploymentInv'
  BY <1>2 DEF DeploymentInv
<1>5. AskedInv'
  BY <1>2 DEF ObjectsInv, AskedInv
<1> QED BY <1>1, <1>3, <1>4, <1>5 DEF ObjectsInv

LEMMA NothingPut ==
    ASSUME ObjectsInv, UNCHANGED objects,
           pass'.pc # "recreate" \/ UNCHANGED pass, AskedInv'
    PROVE  ObjectsInv'
<1>1. VersionsInv'
  BY DEF ObjectsInv, VersionsInv
<1>2. RecreateInv' /\ DeploymentInv'
  BY DEF ObjectsInv, RecreateInv, DeploymentInv, Deployment, Here
<1> QED BY <1>1, <1>2 DEF ObjectsInv

LEMMA ProceedGoes ==
    ASSUME pass \in Pass, Proceed
    PROVE  /\ pass' \in Pass /\ pass'.read = pass.read /\ pass'.behind = pass.behind
           /\ pass'.pc = IF pass.at = 3 THEN "rollout" ELSE "ensure"
<1>1. pass.at \in 1 .. 3
  BY DEF Pass
<1>2. CASE pass.at = 3
  BY <1>2 DEF Proceed, Pass
<1>3. CASE pass.at # 3
  <2> DEFINE to == IF Checked(Kinds[pass.at + 1], pass.read.Spec) THEN pass.at + 1 ELSE pass.at + 2
  <2>1. to \in 1 .. 3
    <3>1. CASE pass.at = 1
      BY <3>1
    <3>2. CASE pass.at = 2
      BY <3>2 DEF Checked, Kinds
    <3> QED BY <1>1, <1>3, <3>1, <3>2
  <2>2. pass' = [pass EXCEPT !.pc = "ensure", !.at = to]
    BY <1>3 DEF Proceed
  <2> HIDE DEF to
  <2> QED BY <1>3, <2>1, <2>2 DEF Pass
<1> QED BY <1>2, <1>3

LEMMA HereKind ==
    ASSUME pass \in Pass
    PROVE  /\ Here \in Kind
           /\ Here = "Deployment" <=> pass.at = 3
<1>1. pass.at \in {1, 2, 3}
  BY DEF Pass
<1> QED BY <1>1 DEF Here, Kinds, Kind

(* The calls of the pass on the objects.                                   *)
LEMMA CallsKeepObjects ==
    ASSUME ObjectsInv, MattermostInv, pass \in Pass,
           Ensure \/ Remove \/ GetMisses \/ Unchanged \/ Update \/ DeleteService \/ Recreate
    PROVE  ObjectsInv'
<1>0. VersionsInv /\ RecreateInv /\ DeploymentInv /\ AskedInv
  BY DEF ObjectsInv
<1> DEFINE value == Desired(Here, pass.read.Spec)
<1>a. pass.pc # "idle" => pass.read.Spec \in Specs
  BY DEF MattermostInv, Mattermost
<1>b. Here \in Kind /\ (Here = "Deployment" <=> pass.at = 3)
  BY HereKind
<1>c. pass.pc # "idle" => /\ value \in Values
                          /\ Here = "Deployment" => value = pass.read.Spec.Template
                          /\ Here = "Deployment" => value \in Templates
  BY <1>a, <1>b, DesiredType
<1>d. /\ Cached(objects[Here]) \in Object \cup {None}
      /\ Live(objects[Here]) \in Object \cup {None}
      /\ Current(objects[Here]) => Cached(objects[Here]) = Live(objects[Here])
  BY <1>0, <1>b, VersionsHeld
<1>n. pass.pc # "idle" => New(value) \in Object /\ New(value).value = value /\ ~New(value).observed
  BY <1>c DEF New, Object
<1>e. ASSUME UNCHANGED objects, Error
      PROVE  ObjectsInv'
  <2>1. pass'.pc = "idle"
    BY <1>e DEF Error, Return, Idle
  <2> QED BY <1>e, <2>1, NothingPut DEF AskedInv
<1> HIDE DEF value
<1>1. CASE Ensure
  <2>1. CASE Live(objects[Here]) = None
    <3>1. Put(Here, New(value)) /\ pass'.pc = "get" /\ pass.pc = "ensure"
      BY <1>1, <2>1 DEF Ensure, Goto, At, value, Pass
    <3>2. CASE Here = "Deployment"
      BY <1>c, <1>n, <2>1, <3>1, <3>2, DeploymentPut DEF Deployment
    <3>3. CASE Here # "Deployment"
      BY <1>b, <1>n, <2>1, <3>1, <3>3, OtherPut
    <3> QED BY <3>2, <3>3
  <2>2. CASE Live(objects[Here]) # None
    BY <1>1, <1>e, <2>2 DEF Ensure
  <2> QED BY <2>1, <2>2
<1>2. CASE Remove
  <2>1. Here = "Ingress"
    BY <1>2 DEF Remove, Wanted
  <2>2. CASE Error /\ UNCHANGED objects
    BY <1>e, <2>2
  <2>3. CASE Proceed
    <3>1. pass'.pc = "ensure"
      BY <1>b, <2>1, <2>3, ProceedGoes
    <3>2. CASE UNCHANGED objects
      BY <3>1, <3>2, NothingPut DEF AskedInv
    <3>3. CASE Put(Here, None)
      BY <1>2, <1>b, <2>1, <3>1, <3>3, OtherPut DEF Remove, DeleteRoom
    <3> QED BY <1>2, <2>3, <3>2, <3>3 DEF Remove
  <2> QED BY <1>2, <2>2, <2>3 DEF Remove
<1>3. CASE GetMisses
  BY <1>3, <1>e DEF GetMisses
<1>4. CASE Unchanged
  <2>1. CASE Here = "Deployment"
    <3>1. /\ pass'.pc = "rollout" /\ pass'.read = pass.read
          /\ pass'.behind = ~Current(objects[Here]) /\ UNCHANGED objects
      BY <1>4, <2>1 DEF Unchanged, Pass
    <3>2. Cached(objects[Here]).value = pass.read.Spec.Template
      BY <1>4, <1>c, <2>1 DEF Unchanged, Found, Differs, At, value
    <3>3. AskedInv'
      BY <1>d, <2>1, <3>1, <3>2 DEF AskedInv, Deployment
    <3> QED BY <3>1, <3>3, NothingPut
  <2>2. CASE Here # "Deployment"
    <3>1. pass'.pc = "ensure" /\ UNCHANGED objects
      BY <1>4, <1>b, <2>2, ProceedGoes DEF Unchanged
    <3> QED BY <3>1, NothingPut DEF AskedInv
  <2> QED BY <2>1, <2>2
<1>5. CASE Update
  <2>0. pass.pc \in {"get", "ensure"} /\ Cached(objects[Here]) # None
    BY <1>5 DEF Update, Found, At
  <2>1. CASE Current(objects[Here])
    <3> DEFINE v == [Live(objects[Here]) EXCEPT !.value = value, !.observed = FALSE]
    <3>1. Live(objects[Here]) \in Object /\ Len(objects[Here]) = 1
      BY <1>d, <2>0, <2>1 DEF Current
    <3>2. v \in Object /\ v.value = value /\ ~v.observed
      BY <1>c, <2>0, <3>1 DEF Object
    <3>3. Put(Here, v) /\ Proceed
      BY <1>5, <2>1 DEF Update, value
    <3>4. /\ pass'.read = pass.read
          /\ pass'.pc = IF pass.at = 3 THEN "rollout" ELSE "ensure"
      BY <3>3, ProceedGoes
    <3>5. Len(objects[Here]) <= CacheLag + 1
      BY <3>1, ConstantsAssumption
    <3> HIDE DEF v
    <3>6. CASE Here = "Deployment"
      <4>1. pass'.pc = "rollout" /\ v.value = pass'.read.Spec.Template
        BY <1>b, <1>c, <2>0, <3>2, <3>4, <3>6
      <4>2. v.value \in Templates
        BY <1>c, <2>0, <3>2, <3>6
      <4>3. v \in Object \cup {None} /\ Put("Deployment", v) /\ pass.pc # "recreate"
        BY <2>0, <3>2, <3>3, <3>6
      <4> QED BY <3>2, <3>5, <3>6, <4>1, <4>2, <4>3, DeploymentPut
    <3>7. CASE Here # "Deployment"
      <4>1. pass'.pc = "ensure"
        BY <1>b, <3>4, <3>7
      <4> QED BY <1>b, <3>2, <3>3, <3>5, <3>7, <4>1, OtherPut
    <3> QED BY <3>6, <3>7
  <2>2. CASE ~Current(objects[Here])
    BY <1>5, <1>e, <2>2 DEF Update
  <2> QED BY <2>1, <2>2
<1>6. CASE DeleteService
  <2>1. CASE Live(objects[Here]) = None
    BY <1>6, <1>e, <2>1 DEF DeleteService
  <2>2. CASE Live(objects[Here]) # None
    <3>1. /\ Here = "Service" /\ Put(Here, None) /\ Len(objects[Here]) <= CacheLag + 1
          /\ pass' = [pass EXCEPT !.pc = "recreate"]
      BY <1>6, <2>2 DEF DeleteService, Goto, DeleteRoom
    <3>2. pass'.pc = "recreate" /\ Here' = Here
      BY <3>1 DEF Here, Pass
    <3> QED BY <1>b, <3>1, <3>2, OtherPut
  <2> QED BY <2>1, <2>2
<1>7. CASE Recreate
  <2>1. pass.pc = "recreate" /\ Put(Here, New(value)) /\ Proceed
    BY <1>7 DEF Recreate, At, value
  <2>2. Live(objects[Here]) = None
    BY <1>0, <2>1 DEF RecreateInv
  <2>3. /\ pass'.read = pass.read
        /\ pass'.pc = IF pass.at = 3 THEN "rollout" ELSE "ensure"
    BY <2>1, ProceedGoes
  <2>4. Here # "Deployment"
    BY <1>0, <2>1 DEF RecreateInv
  <2>5. pass'.pc = "ensure"
    BY <1>b, <2>3, <2>4
  <2> QED BY <1>b, <1>n, <2>1, <2>2, <2>4, <2>5, OtherPut
<1> QED BY <1>1, <1>2, <1>3, <1>4, <1>5, <1>6, <1>7

(* Everything else.                                                        *)
LEMMA ObjectsKept ==
    ASSUME ObjectsInv, MattermostInv, pass \in Pass, [Next]_vars
    PROVE  ObjectsInv'
<1>0. VersionsInv /\ RecreateInv /\ DeploymentInv /\ AskedInv
  BY DEF ObjectsInv
<1>d. /\ "Deployment" \in Kind
      /\ Deployment \in Object \cup {None}
  BY <1>0, VersionsHeld DEF Deployment, Kind
<1>q. ASSUME UNCHANGED objects, pass'.pc \notin {"recreate", "rollout", "count"}
      PROVE  ObjectsInv'
  BY <1>q, NothingPut DEF AskedInv
<1>s. ASSUME UNCHANGED <<objects, pass>>
      PROVE  ObjectsInv'
  <2>1. AskedInv'
    BY <1>0, <1>s DEF AskedInv, Deployment
  <2> QED BY <1>s, <2>1, NothingPut
<1>1. CASE Ensure \/ Remove \/ GetMisses \/ Unchanged \/ Update \/ DeleteService \/ Recreate
  BY <1>1, CallsKeepObjects
<1>2. CASE Begin
  BY <1>2, <1>q DEF Begin, Idle
<1>3. CASE Rollout
  <2>1. CASE Deployment = None \/ ~Deployment.observed
    BY <1>3, <1>q, <2>1 DEF Rollout, Unhealthy, Return, Idle
  <2>2. CASE ~(Deployment = None \/ ~Deployment.observed)
    <3>1. /\ pass'.pc = "count" /\ pass'.read = pass.read /\ pass'.behind = pass.behind
          /\ pass'.revision = Deployment.revision /\ UNCHANGED objects
      BY <1>3, <2>2 DEF Rollout, Pass
    <3>2. AskedInv'
      BY <1>0, <1>3, <2>2, <3>1 DEF AskedInv, DeploymentInv, Rollout, At
    <3> QED BY <3>1, <3>2, NothingPut
  <2> QED BY <2>1, <2>2
<1>4. CASE Count
  <2>1. CASE pass.revision \notin seen
    BY <1>4, <1>q, <2>1 DEF Count, Unhealthy, Return, Idle
  <2>2. CASE pass.revision \in seen
    <3>1. UNCHANGED objects /\ pass' = [pass EXCEPT !.pc = "conclude", !.updated = pods[pass.revision]]
      BY <1>4, <2>2 DEF Count
    <3>2. pass'.pc = "conclude"
      BY <3>1 DEF Pass
    <3> QED BY <1>q, <3>1, <3>2
  <2> QED BY <2>1, <2>2
<1>5. CASE Conclude \/ CallFails
  <2>1. UNCHANGED objects /\ pass' = Idle
    BY <1>5 DEF Conclude, CallFails, Error, Unhealthy, Return
  <2> QED BY <1>q, <2>1 DEF Idle
<1>6. ASSUME NEW k \in Kind, Deliver(k)
      PROVE  ObjectsInv'
  <2>1. objects' = [objects EXCEPT ![k] = Tail(objects[k])] /\ UNCHANGED pass /\ ~Current(objects[k])
    BY <1>6 DEF Deliver
  <2>2. objects[k] \in Seq(Object \cup {None}) /\ Len(objects[k]) \in Nat \ {0}
    BY <1>0, VersionsHeld
  <2>3. /\ Tail(objects[k]) \in Seq(Object \cup {None}) /\ Live(Tail(objects[k])) = Live(objects[k])
        /\ Len(Tail(objects[k])) = Len(objects[k]) - 1 /\ Len(Tail(objects[k])) \in Nat \ {0}
    BY <2>1, <2>2, Delivered
  <2>4. /\ objects'[k] = Tail(objects[k])
        /\ \A j \in Kind \ {k} : objects'[j] = objects[j]
        /\ objects' \in [Kind -> Seq(Object \cup {None})]
    BY <1>0, <2>1, <2>3 DEF VersionsInv
  <2>5. \A j \in Kind : Live(objects'[j]) = Live(objects[j])
    BY <2>3, <2>4
  <2>6. /\ Len(objects'[k]) \in 1 .. CacheLag + 3
        /\ Live(objects[k]) = None => Len(objects'[k]) <= CacheLag + 2
    <3>1. \A n \in 1 .. CacheLag + 3 : n - 1 \in Nat \ {0} => n - 1 \in 1 .. CacheLag + 3
      BY ConstantsAssumption
    <3>2. \A n \in 1 .. CacheLag + 3 : n <= CacheLag + 2 => n - 1 <= CacheLag + 2
      BY ConstantsAssumption
    <3>3. /\ Len(objects[k]) \in 1 .. CacheLag + 3
          /\ Live(objects[k]) = None => Len(objects[k]) <= CacheLag + 2
      BY <1>0 DEF VersionsInv
    <3> QED BY <2>3, <2>4, <3>1, <3>2, <3>3, Zenon
  <2>7. VersionsInv'
    BY <1>0, <2>4, <2>5, <2>6 DEF VersionsInv
  <2>8. RecreateInv'
    BY <1>0, <2>1, <2>5 DEF RecreateInv, Here, Kind
  <2>9. DeploymentInv' /\ AskedInv'
    BY <1>0, <1>d, <2>1, <2>5 DEF DeploymentInv, AskedInv, Deployment
  <2> QED BY <2>7, <2>8, <2>9 DEF ObjectsInv
<1>7. ASSUME NEW k \in Kind, DeleteObject(k)
      PROVE  ObjectsInv'
  <2>1. Put(k, None) /\ UNCHANGED pass /\ Len(objects[k]) <= CacheLag
    BY <1>7 DEF DeleteObject, Room
  <2>2. Len(objects[k]) <= CacheLag + 1
    <3>1. \A n \in Nat : n <= CacheLag => n <= CacheLag + 1
      BY ConstantsAssumption
    <3> QED BY <1>0, <2>1, <3>1, VersionsHeld
  <2>3. CASE k = "Deployment"
    BY <2>1, <2>2, <2>3, DeploymentPut
  <2>4. CASE k # "Deployment"
    BY <2>1, <2>2, <2>4, OtherPut
  <2> QED BY <2>3, <2>4
<1>8. CASE ObserveDeployment
  <2> DEFINE v == [Deployment EXCEPT !.observed = TRUE, !.revision = Deployment.value,
                                     !.replicas = Total]
  <2>1. Deployment \in Object /\ Deployment.value \in Templates
    BY <1>0, <1>8, <1>d DEF ObserveDeployment, DeploymentInv
  <2>2. v \in Object /\ v.value = Deployment.value /\ v.revision = v.value
    BY <2>1, TotalType DEF Object
  <2>3. Put("Deployment", v) /\ UNCHANGED pass /\ Len(objects["Deployment"]) <= CacheLag
    BY <1>8 DEF ObserveDeployment, Room
  <2>4. Len(objects["Deployment"]) <= CacheLag + 1
    <3>1. \A n \in Nat : n <= CacheLag => n <= CacheLag + 1
      BY ConstantsAssumption
    <3> QED BY <1>0, <1>d, <2>3, <3>1, VersionsHeld
  <2>5. Deployment # None
    BY <1>8 DEF ObserveDeployment
  <2> HIDE DEF v
  <2> QED BY <2>1, <2>2, <2>3, <2>4, <2>5, DeploymentPut
<1>9. CASE Restart
  <2>1. objects' = [k \in Kind |-> <<Live(objects[k])>>] /\ pass'.pc = "idle"
    BY <1>9 DEF Restart, Idle
  <2>2. ASSUME NEW k \in Kind
        PROVE  /\ objects'[k] \in Seq(Object \cup {None}) /\ Len(objects'[k]) = 1
               /\ Live(objects'[k]) = Live(objects[k])
    BY <1>0, <2>1, VersionsHeld, Held
  <2>3. 1 \in 1 .. CacheLag + 3 /\ 1 <= CacheLag + 2
    BY ConstantsAssumption
  <2>4. VersionsInv'
    BY <2>1, <2>2, <2>3 DEF VersionsInv
  <2>5. DeploymentInv'
    BY <1>0, <1>d, <2>2 DEF DeploymentInv, Deployment
  <2> QED BY <2>1, <2>4, <2>5 DEF ObjectsInv, RecreateInv, AskedInv
<1>10. CASE UNCHANGED <<objects, pass>>
  BY <1>10, <1>s
<1> QED
  BY <1>1, <1>2, <1>3, <1>4, <1>5, <1>6, <1>7, <1>8, <1>9, <1>10
  DEF Next, Operator, vars, DeliverMattermost, EditSpec, ObserveReplicaSet, StartPod,
      StopOldPod, AssignAddress, PodFails

-----------------------------------------------------------------------------
(* The pass, the pods and the rest.                                        *)

ClusterInv ==
    /\ pods \in [Templates -> 0 .. Replicas]
    /\ seen \subseteq Templates
    /\ address \in BOOLEAN
    /\ queued \in BOOLEAN
    /\ disturbances \in 0 .. MaxDisturbances

LEMMA PassKept ==
    ASSUME ObjectsInv, MattermostInv, ClusterInv, pass \in Pass, [Next]_vars
    PROVE  pass' \in Pass
<1>0. Idle \in Pass
  BY ConstantsAssumption DEF Idle, Pass
<1>i. ASSUME Error \/ Proceed \/ (\E state : Unhealthy(state)) \/ (\E b : Return(b))
      PROVE  pass' \in Pass
  BY <1>0, <1>i, ProceedGoes DEF Error, Unhealthy, Return
<1>g. ASSUME NEW pc \in {"get", "recreate"}, Goto(pc)
      PROVE  pass' \in Pass
  BY <1>g DEF Goto, Pass
<1>1. CASE Begin
  <2>1. Cached(mattermost) \in Mattermost
    <3>1. mattermost \in Seq(Mattermost) /\ Len(mattermost) \in Nat \ {0}
      BY ConstantsAssumption DEF MattermostInv
    <3> QED BY <3>1, Held
  <2>2. pass' = [Idle EXCEPT !.pc = "ensure", !.read = Cached(mattermost)]
    BY <1>1 DEF Begin
  <2> QED BY <1>0, <2>1, <2>2 DEF Pass
<1>2. CASE Ensure
  BY <1>2, <1>i, <1>g DEF Ensure
<1>3. CASE Remove
  BY <1>3, <1>i DEF Remove
<1>4. CASE GetMisses
  BY <1>4, <1>i DEF GetMisses
<1>5. CASE Unchanged
  <2>1. CASE Here = "Deployment"
    <3>1. pass' = [pass EXCEPT !.pc = "rollout", !.behind = ~Current(objects[Here])]
      BY <1>5, <2>1 DEF Unchanged
    <3>2. (~Current(objects[Here])) \in BOOLEAN
      BY DEF Current
    <3> QED BY <3>1, <3>2 DEF Pass
  <2>2. CASE Here # "Deployment"
    BY <1>5, <1>i, <2>2 DEF Unchanged
  <2> QED BY <2>1, <2>2
<1>6. CASE Update
  BY <1>6, <1>i DEF Update
<1>7. CASE DeleteService
  BY <1>7, <1>i, <1>g DEF DeleteService
<1>8. CASE Recreate
  BY <1>8, <1>i DEF Recreate
<1>9. CASE Rollout
  <2>1. CASE Deployment = None \/ ~Deployment.observed
    BY <1>9, <1>i, <2>1 DEF Rollout
  <2>2. CASE ~(Deployment = None \/ ~Deployment.observed)
    <3>1. Deployment \in Object
      BY <2>2, VersionsHeld DEF ObjectsInv, Deployment, Kind
    <3>2. Deployment.replicas \in Nat /\ Deployment.revision \in Templates \cup {None}
      BY <3>1 DEF Object
    <3>3. pass' = [pass EXCEPT !.pc = "count", !.replicas = Deployment.replicas,
                               !.revision = Deployment.revision]
      BY <1>9, <2>2 DEF Rollout
    <3> QED BY <3>2, <3>3 DEF Pass
  <2> QED BY <2>1, <2>2
<1>10. CASE Count
  <2>1. CASE pass.revision \notin seen
    BY <1>10, <1>i, <2>1 DEF Count
  <2>2. CASE pass.revision \in seen
    <3>1. pods[pass.revision] \in 0 .. Replicas
      BY <2>2 DEF ClusterInv
    <3>2. pass' = [pass EXCEPT !.pc = "conclude", !.updated = pods[pass.revision]]
      BY <1>10, <2>2 DEF Count
    <3> QED BY <3>1, <3>2 DEF Pass
  <2> QED BY <2>1, <2>2
<1>11. CASE Conclude \/ CallFails
  BY <1>0, <1>11 DEF Conclude, CallFails, Error, Unhealthy, Return
<1>12. CASE Restart
  BY <1>0, <1>12 DEF Restart
<1>13. CASE UNCHANGED pass
  BY <1>13
<1> QED
  BY <1>1, <1>2, <1>3, <1>4, <1>5, <1>6, <1>7, <1>8, <1>9, <1>10, <1>11, <1>12, <1>13
  DEF Next, Operator, vars, Deliver, DeleteObject, DeliverMattermost, EditSpec, ObserveDeployment,
      ObserveReplicaSet, StartPod, StopOldPod, AssignAddress, PodFails

LEMMA ClusterKept ==
    ASSUME ObjectsInv, MattermostInv, ClusterInv, pass \in Pass, [Next]_vars
    PROVE  ClusterInv'
<1>r. ASSUME NEW b, Return(b) PROVE queued' \in BOOLEAN
  BY <1>r DEF Return
<1>1. queued' \in BOOLEAN
  <2>1. CASE PassAction
    <3>1. Error \/ (\E state : Unhealthy(state)) => queued' \in BOOLEAN
      BY <1>r DEF Error, Unhealthy
    <3>2. Proceed \/ (\E pc : Goto(pc)) => queued' \in BOOLEAN
      BY DEF Proceed, Goto, ClusterInv
    <3>3. CASE Ensure \/ Remove \/ GetMisses \/ Update \/ DeleteService \/ Recreate
      BY <3>1, <3>2, <3>3 DEF Ensure, Remove, GetMisses, Update, DeleteService, Recreate
    <3>4. CASE Unchanged \/ Rollout \/ Count
      BY <3>1, <3>2, <3>4 DEF Unchanged, Rollout, Count, ClusterInv
    <3>5. CASE Conclude
      BY <1>r, <3>1, <3>5 DEF Conclude
    <3>6. CASE CallFails
      BY <1>r, <3>1, <3>6 DEF CallFails
    <3> QED BY <2>1, <3>3, <3>4, <3>5, <3>6 DEF PassAction
  <2>2. CASE queued' \in {TRUE, FALSE, queued}
    BY <2>2 DEF ClusterInv
  <2> QED
    BY <2>1, <2>2 DEF Next, Operator, PassAction, vars, Begin, Deliver, DeleteObject,
        DeliverMattermost, EditSpec, ObserveDeployment, ObserveReplicaSet, StartPod, StopOldPod,
        AssignAddress, PodFails, Restart
<1>2. disturbances' \in 0 .. MaxDisturbances
  <2>1. CASE Disturb
    BY <2>1, ConstantsAssumption DEF Disturb, ClusterInv
  <2>2. CASE UNCHANGED disturbances
    BY <2>2 DEF ClusterInv
  <2> QED
    BY <2>1, <2>2 DEF Next, Operator, vars, Begin, Ensure, Remove, GetMisses, Unchanged, Update,
        DeleteService, Recreate, Rollout, Count, Conclude, CallFails, Deliver, DeleteObject,
        DeliverMattermost, EditSpec, ObserveDeployment, ObserveReplicaSet, StartPod, StopOldPod,
        AssignAddress, PodFails, Restart
<1>3. address' \in BOOLEAN
  <2>1. CASE address' \in {TRUE, FALSE, address}
    BY <2>1 DEF ClusterInv
  <2>2. ASSUME NEW k \in Kind, DeleteObject(k) PROVE address' \in BOOLEAN
    BY <2>2 DEF DeleteObject
  <2> QED
    BY <2>1, <2>2 DEF Next, Operator, vars, Begin, Ensure, Remove, GetMisses, Unchanged, Update,
        DeleteService, Recreate, Rollout, Count, Conclude, CallFails, Deliver,
        DeliverMattermost, EditSpec, ObserveDeployment, ObserveReplicaSet, StartPod, StopOldPod,
        AssignAddress, PodFails, Restart
<1>4. pods' \in [Templates -> 0 .. Replicas] /\ seen' \subseteq Templates
  <2>d. RollingOut => Deployment.revision \in Templates
    BY DEF RollingOut, ObjectsInv, DeploymentInv
  <2>1. CASE ObserveReplicaSet
    BY <2>1, <2>d DEF ObserveReplicaSet, ClusterInv
  <2>2. CASE StartPod
    <3> DEFINE t == Deployment.revision
    <3>1. t \in Templates /\ pods' = [pods EXCEPT ![t] = pods[t] + 1] /\ UNCHANGED seen
      BY <2>2, <2>d DEF StartPod
    <3>2. pods[t] + 1 \in 0 .. Replicas
      BY <2>2, <3>1, ConstantsAssumption DEF StartPod, ClusterInv
    <3> QED BY <3>1, <3>2 DEF ClusterInv
  <2>3. CASE StopOldPod \/ PodFails
    <3>1. PICK t \in Templates : pods[t] > 0 /\ pods' = [pods EXCEPT ![t] = pods[t] - 1]
      BY <2>3 DEF StopOldPod, PodFails
    <3>2. pods[t] - 1 \in 0 .. Replicas
      BY <3>1, ConstantsAssumption DEF ClusterInv
    <3>3. UNCHANGED seen
      BY <2>3 DEF StopOldPod, PodFails
    <3> QED BY <3>1, <3>2, <3>3 DEF ClusterInv
  <2>4. ASSUME NEW k \in Kind, DeleteObject(k)
        PROVE  pods' \in [Templates -> 0 .. Replicas] /\ seen' \subseteq Templates
    BY <2>4, ConstantsAssumption DEF DeleteObject, ClusterInv
  <2>5. CASE UNCHANGED <<pods, seen>>
    BY <2>5 DEF ClusterInv
  <2> QED
    BY <2>1, <2>2, <2>3, <2>4, <2>5 DEF Next, Operator, vars, Begin, Ensure, Remove, GetMisses,
        Unchanged, Update, DeleteService, Recreate, Rollout, Count, Conclude, CallFails, Deliver,
        DeliverMattermost, EditSpec, ObserveDeployment, AssignAddress, Restart
<1> QED BY <1>1, <1>2, <1>3, <1>4 DEF ClusterInv

-----------------------------------------------------------------------------
OwnedInv == ObjectsInv /\ MattermostInv /\ ClusterInv /\ pass \in Pass

LEMMA InitOwned == Init => OwnedInv
<1> SUFFICES ASSUME Init PROVE OwnedInv
  OBVIOUS
<1>1. pass = Idle /\ pass \in Pass /\ pass.pc = "idle"
  BY ConstantsAssumption DEF Init, Idle, Pass
<1>2. ClusterInv
  <2>1. pods = [t \in Templates |-> 0] /\ 0 \in 0 .. Replicas /\ 0 \in 0 .. MaxDisturbances
    BY ConstantsAssumption DEF Init
  <2>2. pods \in [Templates -> 0 .. Replicas]
    BY <2>1
  <2> QED BY <2>1, <2>2 DEF Init, ClusterInv
<1>3. MattermostInv
  <2>1. PICK spec \in FirstSpecs :
            mattermost = <<[Spec |-> spec, Generation |-> 1, State |-> "reconciling"]>>
    BY DEF Init
  <2>2. [Spec |-> spec, Generation |-> 1, State |-> "reconciling"] \in Mattermost
    BY <2>1, ConstantsAssumption DEF Mattermost, RunningState
  <2>3. mattermost \in Seq(Mattermost) /\ Len(mattermost) = 1
    BY <2>1, <2>2
  <2> QED BY <1>1, <2>3, ConstantsAssumption DEF MattermostInv
<1>4. ObjectsInv
  <2>1. \A k \in Kind : objects[k] = <<None>>
    BY DEF Init
  <2>2. \A k \in Kind : Len(objects[k]) = 1 /\ Live(objects[k]) = None
    <3>1. Len(<<None>>) = 1 /\ Live(<<None>>) = None
      BY DEF Live
    <3> QED BY <2>1, <3>1
  <2>3. objects \in [Kind -> Seq(Object \cup {None})]
    BY DEF Init
  <2>4. 1 \in 1 .. CacheLag + 3 /\ 1 <= CacheLag + 2
    BY ConstantsAssumption
  <2>5. VersionsInv
    BY <2>2, <2>3, <2>4 DEF VersionsInv
  <2>6. Deployment = None
    BY <2>2 DEF Deployment, Kind
  <2> QED BY <1>1, <2>5, <2>6 DEF ObjectsInv, RecreateInv, DeploymentInv, AskedInv
<1> QED BY <1>1, <1>2, <1>3, <1>4 DEF OwnedInv

LEMMA StepOwned == OwnedInv /\ [Next]_vars => OwnedInv'
  BY ObjectsKept, MattermostKept, ClusterKept, PassKept DEF OwnedInv

(* Type correctness: for any lag that others may cause the cache is at     *)
(* most that far behind for the Mattermost and three writes for an object. *)
THEOREM OwnedTyped == Spec => []TypeOK
<1>1. OwnedInv => TypeOK
  BY DEF OwnedInv, ObjectsInv, VersionsInv, MattermostInv, ClusterInv, TypeOK
<1> QED BY <1>1, InitOwned, StepOwned, PTL DEF Spec

(* When the health check finds all pods updated they are pods of the       *)
(* template that the pass asked for, unless it read the deployment from a  *)
(* cache that was behind: for any replicas, templates and cache lag.       *)
THEOREM HealthCheckCounts == Spec => RolloutCounted
<1> DEFINE A == At("count") /\ pass'.pc = "conclude" /\ pass'.updated = Replicas /\ ~pass.behind =>
                    pods[pass.read.Spec.Template] = Replicas
<1>1. ASSUME OwnedInv, [Next]_vars PROVE A
  <2> SUFFICES ASSUME pass.pc = "count", pass'.pc = "conclude", pass'.updated = Replicas, ~pass.behind
               PROVE  pods[pass.read.Spec.Template] = Replicas
    BY DEF At
  <2>1. pass.revision = pass.read.Spec.Template
    BY <1>1 DEF OwnedInv, ObjectsInv, AskedInv
  <2>2. Count => pass'.updated = pods[pass.revision]
    <3> SUFFICES ASSUME Count PROVE pass'.updated = pods[pass.revision]
      OBVIOUS
    <3>1. pass.revision \in seen
      BY DEF Count, Unhealthy, Return, Idle
    <3>2. pass' = [pass EXCEPT !.pc = "conclude", !.updated = pods[pass.revision]]
      BY <3>1 DEF Count
    <3> QED BY <1>1, <3>2 DEF OwnedInv, Pass
  <2>3. ~UNCHANGED pass /\ pass' # Idle
    BY DEF Idle
  <2>4. Count
    BY <1>1, <2>3 DEF Next, Operator, vars, At, Found, Begin, Ensure, Remove, GetMisses, Unchanged,
        Update, DeleteService, Recreate, Rollout, Conclude, CallFails, Error, Return, Unhealthy,
        Deliver, DeleteObject, DeliverMattermost, EditSpec, ObserveDeployment, ObserveReplicaSet,
        StartPod, StopOldPod, AssignAddress, PodFails, Restart
  <2> QED BY <2>1, <2>2, <2>4
<1>2. OwnedInv /\ [Next]_vars => [A]_vars
  BY <1>1
<1> QED BY <1>2, InitOwned, StepOwned, PTL DEF Spec, RolloutCounted

=============================================================================
