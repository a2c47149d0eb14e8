--------------------------- MODULE MigrationProofs ---------------------------
(***************************************************************************)
(* Proof that the migration causes no downtime, however far the informer   *)
(* cache is behind and wherever a pass is cut short.                       *)
(***************************************************************************)
EXTENDS Migration, TLAPS

(* Every version of s satisfies what an element of T does.                 *)
Within(s, T) == \A i \in 1 .. Len(s) : s[i] \in T

-----------------------------------------------------------------------------
(* Storing a version keeps the history well formed, makes it the live one  *)
(* and brings in nothing else.                                             *)
LEMMA PublishedVersions ==
    ASSUME NEW S, NEW s \in Versions(S), NEW v \in S
    PROVE  /\ Published(s, v) \in Versions(S)
           /\ Live(Published(s, v)) = v
           /\ \A T : Within(s, T) /\ v \in T => Within(Published(s, v), T)
<1> DEFINE all == Append(s, v)
           new == IF Len(all) > CacheLag + 1 THEN Tail(all) ELSE all
<1>1. s \in Seq(S) /\ Len(s) \in 1 .. CacheLag + 1
  BY DEF Versions
<1>2. /\ all \in Seq(S) /\ Len(all) = Len(s) + 1 /\ all[Len(all)] = v
      /\ \A i \in 1 .. Len(s) : all[i] = s[i]
  BY <1>1
<1> HIDE DEF all
<1>3. CASE Len(all) > CacheLag + 1
  <2>1. Len(all) = CacheLag + 2
    BY <1>1, <1>2, <1>3, ConstantsAssumption
  <2>2. /\ Tail(all) \in Seq(S) /\ Len(Tail(all)) = CacheLag + 1
        /\ \A i \in 1 .. CacheLag + 1 : Tail(all)[i] = all[i + 1]
    BY <1>2, <2>1, ConstantsAssumption
  <2>3. new = Tail(all)
    BY <1>3
  <2> HIDE DEF new
  <2>4. new \in Versions(S) /\ Live(new) = v
    BY <1>2, <2>1, <2>2, <2>3, ConstantsAssumption DEF Versions, Live
  <2>5. ASSUME NEW T, Within(s, T), v \in T
        PROVE  Within(new, T)
    BY <1>1, <1>2, <2>1, <2>2, <2>3, <2>5, ConstantsAssumption DEF Within
  <2>6. Published(s, v) = new
    BY DEF Published, all, new
  <2> QED BY <2>4, <2>5, <2>6
<1>4. CASE ~(Len(all) > CacheLag + 1)
  <2>1. new = all
    BY <1>4
  <2> HIDE DEF new
  <2>2. new \in Versions(S) /\ Live(new) = v
    BY <1>1, <1>2, <1>4, <2>1, ConstantsAssumption DEF Versions, Live
  <2>3. ASSUME NEW T, Within(s, T), v \in T
        PROVE  Within(new, T)
    BY <1>1, <1>2, <2>1, <2>3 DEF Within
  <2>4. Published(s, v) = new
    BY DEF Published, all, new
  <2> QED BY <2>2, <2>3, <2>4
<1> QED BY <1>3, <1>4

(* Delivering a version keeps the history well formed and the live one.    *)
LEMMA DeliveredVersions ==
    ASSUME NEW S, NEW s \in Versions(S), Len(s) > 1
    PROVE  /\ Tail(s) \in Versions(S)
           /\ Live(Tail(s)) = Live(s)
           /\ \A T : Within(s, T) => Within(Tail(s), T)
<1>1. s \in Seq(S) /\ Len(s) \in 1 .. CacheLag + 1
  BY DEF Versions
<1>2. /\ Tail(s) \in Seq(S) /\ Len(Tail(s)) = Len(s) - 1
      /\ \A i \in 1 .. Len(s) - 1 : Tail(s)[i] = s[i + 1]
  BY <1>1
<1>3. Tail(s) \in Versions(S) /\ Live(Tail(s)) = Live(s)
  BY <1>1, <1>2, ConstantsAssumption DEF Versions, Live
<1>4. ASSUME NEW T, Within(s, T)
      PROVE  Within(Tail(s), T)
  BY <1>1, <1>2, <1>4 DEF Within
<1> QED BY <1>3, <1>4

(* So does filling the cache anew from the API server.                     *)
LEMMA SyncedVersions ==
    ASSUME NEW S, NEW s \in Versions(S)
    PROVE  /\ <<Live(s)>> \in Versions(S)
           /\ \A T : Within(s, T) => Within(<<Live(s)>>, T)
<1>1. s \in Seq(S) /\ Len(s) \in 1 .. CacheLag + 1 /\ Live(s) \in S
  BY DEF Versions, Live
<1>2. <<Live(s)>> \in Versions(S)
  BY <1>1, ConstantsAssumption DEF Versions
<1>3. ASSUME NEW T, Within(s, T)
      PROVE  Within(<<Live(s)>>, T)
  BY <1>1, <1>3 DEF Within, Live
<1> QED BY <1>2, <1>3

(* What the cache and the API server hold is a version.                    *)
LEMMA HeldVersions ==
    ASSUME NEW S, NEW s \in Versions(S)
    PROVE  /\ Cached(s) \in S /\ Live(s) \in S
           /\ \A T : Within(s, T) => Cached(s) \in T /\ Live(s) \in T
  BY ConstantsAssumption DEF Versions, Cached, Live, Within

-----------------------------------------------------------------------------
(* The Mattermost resource is created, and seen in any version, only after *)
(* the new pods were ready; they stay so.                                  *)
ReadyFirst ==
    newPods # "ready" => pass # "announce" /\ Within(mattermost, {"absent"})

(* It is stable in any version, and the old pods are cleaned up, only      *)
(* after the service was switched; it stays so.                            *)
SwitchedFirst ==
    service # "new" => pass # "cleanup" /\ Within(mattermost, {"absent", "unstable"})

ServingInv == TypeOK /\ ReadyFirst /\ SwitchedFirst /\ NoDowntime

LEMMA InitServing == Init => ServingInv
<1> SUFFICES ASSUME Init PROVE ServingInv
  OBVIOUS
<1>1. deployment \in Versions(Deployment) /\ mattermost \in Versions(Mattermost)
  BY ConstantsAssumption DEF Init, Versions, Deployment, Mattermost
<1>2. TypeOK
  BY <1>1 DEF Init, TypeOK, PC
<1>3. ReadyFirst /\ SwitchedFirst
  BY DEF Init, ReadyFirst, SwitchedFirst, Within
<1> QED BY <1>2, <1>3 DEF Init, ServingInv, NoDowntime

(* Steps that leave the Mattermost resource, the pods and the service      *)
(* alone keep the invariant if they do not enter "announce" or "cleanup".  *)
LEMMA QuietStep ==
    ASSUME ServingInv, UNCHANGED <<installation, mattermost, oldPods, newPods, service>>,
           deployment' \in Versions(Deployment), pass' \in PC,
           pass' = "announce" => pass = "announce" \/ newPods = "ready",
           pass' = "cleanup" => pass = "cleanup" \/ service = "new"
    PROVE  ServingInv'
<1>1. TypeOK'
  BY DEF ServingInv, TypeOK
<1>2. ReadyFirst' /\ SwitchedFirst'
  BY DEF ServingInv, ReadyFirst, SwitchedFirst, Within
<1>3. NoDowntime'
  BY DEF ServingInv, NoDowntime
<1> QED BY <1>1, <1>2, <1>3 DEF ServingInv

(* Steps that change the Mattermost resource alone, from versions in which *)
(* it was seen ready or switched as the new ones require.                  *)
LEMMA MattermostStep ==
    ASSUME ServingInv, UNCHANGED <<installation, oldPods, newPods, service>>,
           deployment' \in Versions(Deployment), mattermost' \in Versions(Mattermost),
           pass' \in {pass, "idle"},
           newPods # "ready" => Within(mattermost', {"absent"}),
           service # "new" => Within(mattermost', {"absent", "unstable"})
    PROVE  ServingInv'
<1>1. TypeOK'
  BY DEF ServingInv, TypeOK, PC
<1>2. ReadyFirst' /\ SwitchedFirst'
  BY DEF ServingInv, ReadyFirst, SwitchedFirst
<1>3. NoDowntime'
  BY DEF ServingInv, NoDowntime
<1> QED BY <1>1, <1>2, <1>3 DEF ServingInv

(* The steps of the ClusterInstallation controller's pass.                 *)
LEMMA PassServing ==
    ASSUME ServingInv, Step \/ CallFails
    PROVE  ServingInv'
<1> USE DEF serving
<1>0. TypeOK /\ ReadyFirst /\ SwitchedFirst /\ NoDowntime
  BY DEF ServingInv
<1>a. /\ Cached(deployment) \in Deployment /\ Live(deployment) \in Deployment
      /\ Cached(mattermost) \in Mattermost /\ Live(mattermost) \in Mattermost
  BY <1>0, HeldVersions DEF TypeOK
<1>1. CASE Begin
  <2>1. Cached(mattermost) = "stable" => service = "new"
    <3>1. Within(mattermost, {"absent", "unstable"}) => Cached(mattermost) # "stable"
      BY <1>0, HeldVersions DEF TypeOK
    <3> QED BY <1>0, <3>1 DEF SwitchedFirst
  <2>2. pass' \in {"start", "idle", "cleanup"} /\ (pass' = "cleanup" => Cached(mattermost) = "stable")
    BY <1>1, <1>a DEF Begin, Goto, Mattermost
  <2> QED BY <1>0, <1>1, <2>1, <2>2, QuietStep DEF Begin, TypeOK, PC
<1>2. CASE Compare
  <2>1. pass' \in {"ready", "delete", "idle"}
    BY <1>2, <1>a DEF Compare, Goto, Deployment, Migrated
  <2> QED BY <1>0, <1>2, <2>1, QuietStep DEF Compare, TypeOK, PC
<1>3. CASE DeleteDeployment
  <2>1. Orphaned(Live(deployment)) \in Deployment
    BY <1>a DEF Orphaned, Deployment
  <2>2. deployment' \in Versions(Deployment)
    BY <1>0, <1>3, <2>1, PublishedVersions DEF DeleteDeployment, TypeOK
  <2> QED BY <1>0, <1>3, <2>2, QuietStep DEF DeleteDeployment, Goto, TypeOK, PC
<1>4. CASE Gone
  BY <1>0, <1>4, QuietStep DEF Gone, Goto, TypeOK, PC
<1>5. CASE CreateDeployment
  <2>1. deployment' \in Versions(Deployment)
    <3>1. "new" \in Deployment
      BY DEF Deployment
    <3> QED BY <1>0, <1>5, <3>1, PublishedVersions DEF CreateDeployment, TypeOK
  <2>2. TypeOK'
    BY <1>0, <1>5, <2>1 DEF CreateDeployment, Goto, TypeOK, PC
  <2>3. newPods' = "ready" <=> newPods = "ready"
    BY <1>0, <1>5 DEF CreateDeployment, TypeOK
  <2>4. ReadyFirst' /\ SwitchedFirst'
    BY <1>0, <1>5, <2>3 DEF CreateDeployment, Goto, ReadyFirst, SwitchedFirst, Within
  <2>5. NoDowntime'
    BY <1>0, <1>5, <2>3 DEF CreateDeployment, NoDowntime
  <2> QED BY <2>2, <2>4, <2>5 DEF ServingInv
<1>6. CASE CheckReady
  <2>1. pass' \in {"announce", "idle"} /\ (pass' = "announce" => newPods = "ready")
    BY <1>6 DEF CheckReady, Goto
  <2> QED BY <1>0, <1>6, <2>1, QuietStep DEF CheckReady, TypeOK, PC
<1>7. CASE CreateMattermost
  <2>1. newPods = "ready"
    BY <1>0, <1>7 DEF CreateMattermost, ReadyFirst
  <2>2. "unstable" \in Mattermost
    BY DEF Mattermost
  <2>3. mattermost' \in Versions(Mattermost)
    BY <1>0, <1>7, <2>2, PublishedVersions DEF CreateMattermost, TypeOK
  <2>4. service # "new" => Within(mattermost', {"absent", "unstable"})
    <3>1. "unstable" \in {"absent", "unstable"}
      OBVIOUS
    <3>2. Within(mattermost, {"absent", "unstable"}) => Within(mattermost', {"absent", "unstable"})
      BY <1>0, <1>7, <2>2, <3>1, PublishedVersions DEF CreateMattermost, TypeOK
    <3> QED BY <1>0, <3>2 DEF SwitchedFirst
  <2> QED BY <1>0, <1>7, <2>1, <2>3, <2>4, MattermostStep DEF CreateMattermost, Goto, TypeOK
<1>8. CASE CleanupReplicaSets
  <2>1. service = "new"
    BY <1>0, <1>8 DEF CleanupReplicaSets, SwitchedFirst
  <2>2. TypeOK'
    BY <1>0, <1>8 DEF CleanupReplicaSets, Goto, TypeOK, PC
  <2>3. ReadyFirst' /\ SwitchedFirst'
    BY <1>0, <1>8 DEF CleanupReplicaSets, Goto, ReadyFirst, SwitchedFirst, Within
  <2>4. NoDowntime'
    BY <1>0, <1>8, <2>1 DEF CleanupReplicaSets, NoDowntime
  <2> QED BY <2>2, <2>3, <2>4 DEF ServingInv
<1>9. CASE RemoveInstallation
  <2>1. TypeOK'
    BY <1>0, <1>9 DEF RemoveInstallation, Goto, TypeOK, PC
  <2>2. ReadyFirst' /\ SwitchedFirst'
    BY <1>0, <1>9 DEF RemoveInstallation, Goto, ReadyFirst, SwitchedFirst, Within
  <2>3. NoDowntime'
    BY <1>0, <1>9 DEF RemoveInstallation, NoDowntime
  <2> QED BY <2>1, <2>2, <2>3 DEF ServingInv
<1>10. CASE CallFails
  BY <1>0, <1>10, QuietStep DEF CallFails, Goto, TypeOK, PC
<1>11. CASE Refused
  BY <1>10, <1>11 DEF Refused
<1> QED BY <1>1, <1>2, <1>3, <1>4, <1>5, <1>6, <1>7, <1>8, <1>9, <1>10, <1>11 DEF Step

(* The steps of everybody else.                                            *)
LEMMA SurroundingsServing ==
    ASSUME ServingInv, Deliver \/ Surroundings \/ Unsettle \/ Restart
    PROVE  ServingInv'
<1> USE DEF serving
<1>0. TypeOK /\ ReadyFirst /\ SwitchedFirst /\ NoDowntime
  BY DEF ServingInv
<1>a. "absent" \in Deployment /\ "new" \in Deployment
  BY DEF Deployment
<1>b. "unstable" \in Mattermost /\ "stable" \in Mattermost
  BY DEF Mattermost
<1>c. Live(mattermost) # "absent" => newPods = "ready"
  <2>1. Within(mattermost, {"absent"}) => Live(mattermost) = "absent"
    BY <1>0, HeldVersions DEF TypeOK
  <2> QED BY <1>0, <2>1 DEF ReadyFirst
<1>d. Live(mattermost) = "stable" => service = "new"
  <2>1. Within(mattermost, {"absent", "unstable"}) => Live(mattermost) # "stable"
    BY <1>0, HeldVersions DEF TypeOK
  <2> QED BY <1>0, <2>1 DEF SwitchedFirst
<1>1. CASE Collect
  <2>1. deployment' \in Versions(Deployment)
    BY <1>0, <1>1, <1>a, PublishedVersions DEF Collect, TypeOK
  <2> QED BY <1>0, <1>1, <2>1, QuietStep DEF Collect, TypeOK
<1>2. CASE StartPods
  <2>1. TypeOK'
    BY <1>0, <1>2 DEF StartPods, TypeOK
  <2>2. ReadyFirst' /\ SwitchedFirst'
    BY <1>0, <1>2 DEF StartPods, ReadyFirst, SwitchedFirst, Within
  <2>3. NoDowntime'
    BY <1>0, <1>2 DEF StartPods, NoDowntime
  <2> QED BY <2>1, <2>2, <2>3 DEF ServingInv
<1>3. CASE ReplaceDeployment
  <2>1. deployment' \in Versions(Deployment)
    BY <1>0, <1>3, <1>a, PublishedVersions DEF ReplaceDeployment, TypeOK
  <2> QED BY <1>0, <1>3, <2>1, QuietStep DEF ReplaceDeployment, TypeOK
<1>4. CASE SwitchService
  <2>1. newPods = "ready"
    BY <1>4, <1>c DEF SwitchService
  <2>2. TypeOK'
    BY <1>0, <1>4 DEF SwitchService, TypeOK
  <2>3. ReadyFirst' /\ SwitchedFirst'
    BY <1>0, <1>4, <2>1 DEF SwitchService, ReadyFirst, SwitchedFirst, Within
  <2>4. NoDowntime'
    BY <1>0, <1>4, <2>1 DEF SwitchService, NoDowntime
  <2> QED BY <2>2, <2>3, <2>4 DEF ServingInv
<1>5. CASE Settle
  <2>1. mattermost' \in Versions(Mattermost)
    BY <1>0, <1>5, <1>b, PublishedVersions DEF Settle, TypeOK
  <2>2. newPods = "ready" /\ service = "new"
    BY <1>5, <1>c DEF Settle
  <2> QED BY <1>0, <1>5, <2>1, <2>2, MattermostStep DEF Settle, TypeOK
<1>6. CASE Unsettle
  <2>1. mattermost' \in Versions(Mattermost)
    BY <1>0, <1>6, <1>b, PublishedVersions DEF Unsettle, TypeOK
  <2>2. newPods = "ready" /\ service = "new"
    BY <1>6, <1>c, <1>d DEF Unsettle
  <2> QED BY <1>0, <1>6, <2>1, <2>2, MattermostStep DEF Unsettle, TypeOK
<1>7. CASE DeliverDeployment
  <2>1. deployment' \in Versions(Deployment)
    BY <1>0, <1>7, DeliveredVersions DEF DeliverDeployment, TypeOK
  <2> QED BY <1>0, <1>7, <2>1, QuietStep DEF DeliverDeployment, TypeOK
<1>8. CASE DeliverMattermost
  <2>1. /\ mattermost' \in Versions(Mattermost)
        /\ \A T : Within(mattermost, T) => Within(mattermost', T)
    BY <1>0, <1>8, DeliveredVersions DEF DeliverMattermost, TypeOK
  <2>2. newPods # "ready" => Within(mattermost', {"absent"})
    BY <1>0, <2>1 DEF ReadyFirst
  <2>3. service # "new" => Within(mattermost', {"absent", "unstable"})
    BY <1>0, <2>1 DEF SwitchedFirst
  <2> QED BY <1>0, <1>8, <2>1, <2>2, <2>3, MattermostStep DEF DeliverMattermost, TypeOK
<1>9. CASE Restart
  <2>1. /\ mattermost' \in Versions(Mattermost)
        /\ \A T : Within(mattermost, T) => Within(mattermost', T)
    BY <1>0, <1>9, SyncedVersions DEF Restart, TypeOK
  <2>2. deployment' \in Versions(Deployment)
    BY <1>0, <1>9, SyncedVersions DEF Restart, TypeOK
  <2>3. newPods # "ready" => Within(mattermost', {"absent"})
    BY <1>0, <2>1 DEF ReadyFirst
  <2>4. service # "new" => Within(mattermost', {"absent", "unstable"})
    BY <1>0, <2>1 DEF SwitchedFirst
  <2> QED BY <1>0, <1>9, <2>1, <2>2, <2>3, <2>4, MattermostStep DEF Restart, TypeOK
<1> QED
  BY <1>1, <1>2, <1>3, <1>4, <1>5, <1>6, <1>7, <1>8, <1>9 DEF Deliver, Surroundings

LEMMA StepServing == ServingInv /\ [Next]_vars => ServingInv'
<1> SUFFICES ASSUME ServingInv, [Next]_vars PROVE ServingInv'
  OBVIOUS
<1>1. CASE Step \/ CallFails
  BY <1>1, PassServing
<1>2. CASE Deliver \/ Surroundings \/ Unsettle \/ Restart
  BY <1>2, SurroundingsServing
<1>3. CASE UNCHANGED vars
  BY <1>3, QuietStep DEF vars, ServingInv, TypeOK
<1> QED BY <1>1, <1>2, <1>3 DEF Next, Ordinary, Disturbance

(* Type correctness of the migration's model, for any lag of the cache.    *)
THEOREM MigrationTyped == Spec => []TypeOK
<1>1. ServingInv => TypeOK
  BY DEF ServingInv
<1> QED BY <1>1, InitServing, StepServing, PTL DEF Spec

(* The service always selects pods that are there and ready, for any lag   *)
(* of the informer cache and any failures and restarts.                    *)
THEOREM MigrationServes == Spec => []NoDowntime
<1>1. ServingInv => NoDowntime
  BY DEF ServingInv
<1> QED BY <1>1, InitServing, StepServing, PTL DEF Spec

=============================================================================
