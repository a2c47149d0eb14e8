--------------------------- MODULE RestoreDBProofs ---------------------------
(***************************************************************************)
(* Proofs about database restores, for any restores, any number of         *)
(* replicas and any lag of the informer cache: type correctness, and that  *)
(* a pass works on a database that is scaled to zero, or cannot write it.  *)
(***************************************************************************)
EXTENDS RestoreDB, TLAPS

(* The histories of an object that the cache can be behind of.             *)
Versions(S) == {s \in Seq(S) : Len(s) \in 1 .. CacheLag + 1}

(* Every version of s is in T.                                             *)
Within(s, T) == \A i \in 1 .. Len(s) : s[i] \in T

-----------------------------------------------------------------------------
(* Versions *)

(* Storing v makes it the live version and brings in nothing else.         *)
LEMMA PublishedVersions ==
    ASSUME NEW S, NEW s \in Versions(S), NEW v \in S
    PROVE  /\ Published(s, v) \in Versions(S)
           /\ Live(Published(s, v)) = v
           /\ \A T : Within(s, T) /\ v \in T => Within(Published(s, v), T)
<1> DEFINE longer == Append(s, v)
<1>1. s \in Seq(S) /\ Len(s) \in Nat /\ 1 <= Len(s) /\ Len(s) <= CacheLag + 1
  BY ConstantsAssumption DEF Versions
<1>2. /\ longer \in Seq(S) /\ Len(longer) = Len(s) + 1 /\ longer[Len(longer)] = v
      /\ \A i \in 1 .. Len(s) : longer[i] = s[i]
  BY <1>1
<1>3. Published(s, v) = IF Len(longer) > CacheLag + 1 THEN Tail(longer) ELSE longer
  BY DEF Published
<1> HIDE DEF longer
<1>4. CASE Len(longer) > CacheLag + 1
  <2>1. Len(s) = CacheLag + 1
    BY <1>1, <1>2, <1>4, ConstantsAssumption
  <2>2. /\ Tail(longer) \in Seq(S) /\ Len(Tail(longer)) = Len(s)
        /\ \A i \in 1 .. Len(s) : Tail(longer)[i] = longer[i + 1]
    BY <1>1, <1>2
  <2>3. Published(s, v) = Tail(longer)
    BY <1>3, <1>4
  <2>4. Tail(longer)[Len(s)] = v
    BY <1>1, <1>2, <2>2
  <2>5. \A i \in 1 .. Len(s) : i # Len(s) => Tail(longer)[i] = s[i + 1] /\ i + 1 \in 1 .. Len(s)
    BY <1>1, <1>2, <2>2
  <2>6. ASSUME NEW T, Within(s, T), v \in T
        PROVE  Within(Tail(longer), T)
    BY <1>1, <2>2, <2>4, <2>5, <2>6 DEF Within
  <2> QED BY <1>1, <2>2, <2>3, <2>4, <2>6 DEF Versions, Live
<1>5. CASE ~(Len(longer) > CacheLag + 1)
  <2>1. Published(s, v) = longer
    BY <1>3, <1>5
  <2>2. longer \in Versions(S) /\ Live(longer) = v
    BY <1>1, <1>2, <1>5, ConstantsAssumption DEF Versions, Live
  <2>3. ASSUME NEW T, Within(s, T), v \in T
        PROVE  Within(longer, T)
    BY <1>1, <1>2, <2>3 DEF Within
  <2> QED BY <2>1, <2>2, <2>3
<1> QED BY <1>4, <1>5

(* A delivery moves the cache on and leaves the live version.              *)
LEMMA DeliveredVersions ==
    ASSUME NEW S, NEW s \in Versions(S), Len(s) > 1
    PROVE  /\ Tail(s) \in Versions(S)
           /\ Live(Tail(s)) = Live(s)
           /\ \A T : Within(s, T) => Within(Tail(s), T)
<1>1. s \in Seq(S) /\ Len(s) \in Nat /\ 1 < Len(s) /\ Len(s) <= CacheLag + 1
  BY ConstantsAssumption DEF Versions
<1>2. /\ Tail(s) \in Seq(S) /\ Len(Tail(s)) = Len(s) - 1
      /\ \A i \in 1 .. Len(s) - 1 : Tail(s)[i] = s[i + 1] /\ i + 1 \in 1 .. Len(s)
  BY <1>1
<1>3. Tail(s) \in Versions(S) /\ Live(Tail(s)) = Live(s)
  BY <1>1, <1>2, ConstantsAssumption DEF Versions, Live
<1>4. ASSUME NEW T, Within(s, T)
      PROVE  Within(Tail(s), T)
  BY <1>1, <1>2, <1>4 DEF Within
<1> QED BY <1>3, <1>4

(* What is cached and what is live are versions, and a restart keeps the   *)
(* live one alone.                                                         *)
LEMMA HeldVersions ==
    ASSUME NEW S, NEW s \in Versions(S)
    PROVE  /\ Cached(s) \in S /\ Live(s) \in S
           /\ <<Live(s)>> \in Versions(S) /\ Live(<<Live(s)>>) = Live(s)
           /\ \A T : Within(s, T) => /\ Cached(s) \in T /\ Live(s) \in T
                                     /\ Within(<<Live(s)>>, T)
<1>1. s \in Seq(S) /\ Len(s) \in Nat /\ 1 <= Len(s) /\ Len(s) <= CacheLag + 1
  BY ConstantsAssumption DEF Versions
<1>2. Cached(s) = s[1] /\ Live(s) = s[Len(s)] /\ 1 \in 1 .. Len(s) /\ Len(s) \in 1 .. Len(s)
  BY <1>1 DEF Cached, Live
<1>3. Cached(s) \in S /\ Live(s) \in S
  BY <1>1, <1>2
<1>4. Len(<<Live(s)>>) = 1 /\ <<Live(s)>>[1] = Live(s) /\ <<Live(s)>> \in Seq(S)
  BY <1>3
<1>5. <<Live(s)>> \in Versions(S) /\ Live(<<Live(s)>>) = Live(s)
  BY <1>4, ConstantsAssumption DEF Versions, Live
<1>6. ASSUME NEW T, Within(s, T)
      PROVE  Cached(s) \in T /\ Live(s) \in T /\ Within(<<Live(s)>>, T)
  BY <1>2, <1>4, <1>6 DEF Within
<1> QED BY <1>3, <1>5, <1>6

-----------------------------------------------------------------------------
(* Types *)

(* A pass that is under way has a restore.                                 *)
Busy == pass.pc # "idle" => pass.restore \in Restores

(* The types, and a restore for every pass under way. *)
TypeInv == TypeOK /\ Busy

(* The installation and the restores are stored as histories of versions.  *)
LEMMA Histories ==
    ASSUME TypeOK
    PROVE  /\ ci \in Versions(Replicas \cup {None})
           /\ \A r \in Restores : status[r] \in Versions(Status \cup {None})
  BY DEF TypeOK, Versions

(* An object that the cache or the API server has.                         *)
LEMMA Found ==
    ASSUME NEW S, NEW s \in Versions(S \cup {None})
    PROVE  /\ Cached(s) # None => Cached(s) \in S
           /\ Live(s) # None => Live(s) \in S
<1>1. Cached(s) \in S \cup {None} /\ Live(s) \in S \cup {None}
  BY HeldVersions
<1> QED BY <1>1

(* A pass that has not begun. *)
LEMMA IdlePass ==
    /\ Idle \in Pass /\ Idle.pc = "idle" /\ ~Idle.fresh /\ Idle.claim = 1
    /\ Idle.status = Created /\ Created \in Status
  BY ConstantsAssumption DEF Idle, Pass, Status, Created, RestoreState, Replicas

(* The restores' status after r's was written.                             *)
LEMMA StatusTyped ==
    ASSUME TypeOK, NEW r \in Restores, NEW v \in Status \cup {None},
           status' \in {status, [status EXCEPT ![r] = Published(@, v)]}
    PROVE  /\ status' \in [Restores -> Seq(Status \cup {None})]
           /\ \A q \in Restores : Len(status'[q]) \in 1 .. CacheLag + 1
<1>1. Published(status[r], v) \in Versions(Status \cup {None})
  BY Histories, PublishedVersions
<1> QED BY <1>1 DEF TypeOK, Versions

(* The fields of a pass. *)
LEMMA PassFields ==
    ASSUME TypeOK
    PROVE  /\ pass.status \in Status /\ pass.replicas \in Replicas
           /\ pass.status.original \in Replicas /\ pass.status.state \in RestoreState
           /\ pass.claim \in 1 .. MaxReplicas + 1
           /\ pass.restore \in Restores \cup {None}
  BY DEF TypeOK, Pass, Status

(* The end of a pass, queued again or not.                                 *)
LEMMA EndTyped ==
    ASSUME TypeInv, pass.pc # "idle", pass' = Idle,
           queue' \subseteq queue \cup {pass.restore}
    PROVE  pass' \in Pass /\ Busy' /\ queue' \subseteq Restores
  BY IdlePass DEF TypeInv, TypeOK, Busy

(* A pass that moves on keeps its type. *)
LEMMA GotoTyped ==
    ASSUME TypeInv, pass.pc # "idle",
           NEW label \in {"wait", "list", "pvc", "up", "finish", "fail"}, Goto(label)
    PROVE  pass' \in Pass /\ Busy'
  BY DEF TypeInv, TypeOK, Busy, Goto, Pass

(* An event is about a restore. *)
LEMMA EventRestore ==
    ASSUME NEW new
    PROVE  Event(new) \subseteq {pass.restore}
  BY DEF Event, Notified

(* The steps of a pass up to the scaling down.                             *)
LEMMA FirstStepsTyped ==
    ASSUME TypeInv,
           \/ \E r \in Restores : Pick(r) \/ PickFails(r)
           \/ GetInstallation \/ InstallationMissing \/ InstallationUnread
           \/ MarkFailed \/ Record \/ RecordFails
    PROVE  TypeInv'
<1> USE DEF TypeInv
<1>1. ASSUME NEW r \in Restores, Pick(r) PROVE TypeInv'
  <2>1. CASE Cached(status[r]) = None
    BY <1>1, <2>1, IdlePass DEF Pick, TypeOK, Busy, database
  <2>2. CASE Cached(status[r]) # None
    <3>1. Cached(status[r]) \in Status
      BY <2>2, Histories, Found
    <3> DEFINE got == [Idle EXCEPT !.pc = "get", !.restore = r, !.status = Cached(status[r]),
                                   !.newest = Len(status[r]) = 1]
    <3>2. got \in Pass /\ got.restore = r
      BY <3>1, IdlePass DEF Idle, Pass
    <3>3. pass' = got /\ queue' \subseteq queue /\ UNCHANGED <<status, ci, state, database, scaledBy>>
      BY <1>1, <2>2 DEF Pick
    <3> HIDE DEF got
    <3> QED BY <3>2, <3>3 DEF TypeOK, Busy, database
  <2> QED BY <2>1, <2>2
<1>2. ASSUME NEW r \in Restores, PickFails(r) PROVE TypeInv'
  BY <1>2 DEF PickFails, TypeOK, Busy, database, RestoreState
<1>3. CASE GetInstallation
  <2>1. Cached(ci) \in Replicas
    BY <1>3, Histories, Found DEF GetInstallation
  <2> DEFINE label == IF pass.status.state # state THEN "record" ELSE ScaleDownOrWait(Cached(ci))
             now == Len(ci) = 1
  <2>2. label \in {"record", "down", "wait"} /\ now \in BOOLEAN
    BY DEF ScaleDownOrWait
  <2>3. /\ pass' = [pass EXCEPT !.replicas = Cached(ci), !.fresh = now, !.pc = label]
        /\ pass.pc = "get" /\ UNCHANGED <<status, ci, state, queue, database, scaledBy>>
    BY <1>3 DEF GetInstallation, At
  <2> HIDE DEF label, now
  <2>4. pass' \in Pass /\ Busy'
    BY <2>1, <2>2, <2>3 DEF TypeOK, Busy, Pass
  <2> QED BY <2>3, <2>4 DEF TypeOK, database
<1>4. CASE InstallationMissing \/ InstallationUnread
  <2>1. Failing
    BY <1>4 DEF InstallationMissing, InstallationUnread
  <2>2. pass' \in Pass /\ Busy'
    BY <2>1, GotoTyped DEF Failing, At
  <2> QED BY <2>1, <2>2 DEF Failing, TypeOK, database, RestoreState
<1>5. CASE MarkFailed
  <2> DEFINE new == [pass.status EXCEPT !.state = state]
  <2>1. new \in Status
    BY PassFields DEF Status, TypeOK
  <2>2. /\ pass.pc = "fail" /\ Write(new) /\ queue' = queue \cup Event(new) /\ pass' = Idle
        /\ UNCHANGED <<ci, state, database, scaledBy>>
    BY <1>5 DEF MarkFailed, At
  <2> HIDE DEF new
  <2>3. pass.restore \in Restores
    BY <2>2 DEF Busy
  <2>4. /\ status' \in [Restores -> Seq(Status \cup {None})]
        /\ \A q \in Restores : Len(status'[q]) \in 1 .. CacheLag + 1
    BY <2>1, <2>2, <2>3, StatusTyped DEF Write
  <2>5. pass' \in Pass /\ Busy' /\ queue' \subseteq Restores
    BY <2>2, EventRestore, EndTyped
  <2> QED BY <2>2, <2>4, <2>5 DEF TypeOK, database
<1>6. CASE Record
  <2> DEFINE new == [state |-> state, original |-> pass.replicas]
  <2>1. new \in Status
    BY PassFields DEF Status, TypeOK
  <2>2. /\ pass.pc = "record" /\ Write(new) /\ queue' = queue \cup Event(new)
        /\ pass' = [pass EXCEPT !.status = new, !.pc = ScaleDownOrWait(pass.replicas)]
        /\ UNCHANGED <<ci, state, database, scaledBy>>
    BY <1>6 DEF Record, At
  <2> HIDE DEF new
  <2>3. pass.restore \in Restores
    BY <2>2 DEF Busy
  <2>4. /\ status' \in [Restores -> Seq(Status \cup {None})]
        /\ \A q \in Restores : Len(status'[q]) \in 1 .. CacheLag + 1
    BY <2>1, <2>2, <2>3, StatusTyped DEF Write
  <2>5. ScaleDownOrWait(pass.replicas) \in {"down", "wait"}
    BY DEF ScaleDownOrWait
  <2>6. pass' \in Pass /\ Busy'
    BY <2>1, <2>2, <2>5 DEF TypeOK, Busy, Pass
  <2>7. queue' \subseteq Restores
    BY <2>2, <2>3, EventRestore DEF TypeOK
  <2> QED BY <2>2, <2>4, <2>6, <2>7 DEF TypeOK, database
<1>7. CASE RecordFails
  <2>1. pass' \in Pass /\ Busy' /\ queue' \subseteq Restores
    BY <1>7, EndTyped DEF RecordFails, At, Requeue
  <2> QED BY <1>7, <2>1 DEF RecordFails, TypeOK, database, RestoreState
<1> QED BY <1>1, <1>2, <1>3, <1>4, <1>5, <1>6, <1>7

(* Scaling the database keeps the types. *)
LEMMA ScaleTyped ==
    ASSUME TypeInv, pass.pc # "idle", NEW n \in Replicas,
           NEW label \in {"wait", "finish"}, Scale(n, label)
    PROVE  pass' \in Pass /\ Busy' /\ ci' \in Versions(Replicas \cup {None})
<1>1. ci' \in Versions(Replicas \cup {None})
  BY Histories, PublishedVersions DEF TypeInv, Scale
<1>2. pass' \in Pass /\ Busy'
  BY DEF TypeInv, TypeOK, Busy, Scale, Pass
<1> QED BY <1>1, <1>2

(* The rest of a pass.                                                     *)
LEMMA LastStepsTyped ==
    ASSUME TypeInv,
           \/ ScaleDown \/ PodsRemain \/ NoneReady \/ PodsGone \/ DeleteClaim \/ ClaimsDeleted
           \/ ScaleUp \/ Finish \/ FinishFails \/ CallFails
    PROVE  TypeInv'
<1> USE DEF TypeInv
<1>1. CASE ScaleDown
  <2>1. pass.pc = "down" /\ 0 \in Replicas /\ pass.restore \in Restores
    BY <1>1, ConstantsAssumption DEF ScaleDown, At, Replicas, Busy
  <2>2. pass' \in Pass /\ Busy' /\ ci' \in Versions(Replicas \cup {None})
    BY <1>1, <2>1, ScaleTyped DEF ScaleDown
  <2> QED BY <1>1, <2>1, <2>2 DEF ScaleDown, TypeOK, database, Versions
<1>2. CASE PodsRemain
  <2>1. pass' \in Pass /\ Busy' /\ queue' \subseteq Restores
    BY <1>2, EndTyped DEF PodsRemain, At, Requeue
  <2> QED BY <1>2, <2>1 DEF PodsRemain, TypeOK, database
<1>3. CASE NoneReady \/ PodsGone \/ ClaimsDeleted
  <2>1. pass' \in Pass /\ Busy'
    BY <1>3, GotoTyped DEF NoneReady, PodsGone, ClaimsDeleted, At
  <2> QED BY <1>3, <2>1 DEF NoneReady, PodsGone, ClaimsDeleted, TypeOK, database
<1>4. CASE DeleteClaim
  <2>1. /\ pass' = [pass EXCEPT !.claim = @ + 1] /\ pass.claim <= pass.status.original
        /\ predating' = [r \in Restores |-> predating[r] \ {pass.claim}]
        /\ UNCHANGED <<status, ci, state, queue, statefulset, pods, seen, scaledBy>>
    BY <1>4 DEF DeleteClaim
  <2>2. pass.claim + 1 \in 1 .. MaxReplicas + 1
    BY <2>1, PassFields, ConstantsAssumption DEF Replicas
  <2>3. pass' \in Pass /\ Busy'
    BY <2>1, <2>2 DEF TypeOK, Busy, Pass
  <2>4. predating' \in [Restores -> SUBSET (1 .. MaxReplicas)]
    BY <2>1 DEF TypeOK
  <2> QED BY <2>1, <2>3, <2>4 DEF TypeOK
<1>5. CASE ScaleUp
  <2>1. RestoredReplicas \in Replicas /\ pass.pc = "up"
    BY <1>5, PassFields, ConstantsAssumption DEF RestoredReplicas, Replicas, ScaleUp, At
  <2>2. pass' \in Pass /\ Busy' /\ ci' \in Versions(Replicas \cup {None})
    BY <1>5, <2>1, ScaleTyped DEF ScaleUp
  <2> QED BY <1>5, <2>2 DEF ScaleUp, TypeOK, database, Versions, RestoreState
<1>6. CASE Finish
  <2> DEFINE new == [pass.status EXCEPT !.state = state]
  <2>1. new \in Status
    BY PassFields DEF Status, TypeOK
  <2>2. /\ pass.pc = "finish" /\ Write(new) /\ queue' = queue \cup Event(new) /\ pass' = Idle
        /\ UNCHANGED <<ci, state, database, scaledBy>>
    BY <1>6 DEF Finish, At
  <2> HIDE DEF new
  <2>3. pass.restore \in Restores
    BY <2>2 DEF Busy
  <2>4. /\ status' \in [Restores -> Seq(Status \cup {None})]
        /\ \A q \in Restores : Len(status'[q]) \in 1 .. CacheLag + 1
    BY <2>1, <2>2, <2>3, StatusTyped DEF Write
  <2>5. pass' \in Pass /\ Busy' /\ queue' \subseteq Restores
    BY <2>2, EventRestore, EndTyped
  <2> QED BY <2>2, <2>4, <2>5 DEF TypeOK, database
<1>7. CASE FinishFails
  <2>1. pass' \in Pass /\ Busy' /\ queue' \subseteq Restores
    BY <1>7, EndTyped DEF FinishFails, At, Return
  <2> QED BY <1>7, <2>1 DEF FinishFails, TypeOK, database
<1>8. CASE CallFails
  <2>1. pass' \in Pass /\ Busy' /\ queue' \subseteq Restores
    BY <1>8, EndTyped DEF CallFails, Requeue
  <2> QED BY <1>8, <2>1 DEF CallFails, TypeOK, database
<1> QED BY <1>1, <1>2, <1>3, <1>4, <1>5, <1>6, <1>7, <1>8

(* The database follows the installation.                                  *)
LEMMA MySQLTyped ==
    ASSUME TypeInv, MySQL
    PROVE  TypeInv'
<1> USE DEF TypeInv
<1>1. CASE Rescale
  <2>1. Wanted \in Replicas
    BY Histories, Found, ConstantsAssumption DEF Wanted, Replicas
  <2> QED BY <1>1, <2>1 DEF Rescale, TypeOK, Busy
<1>2. CASE StartPod
  <2>1. pods + 1 \in Replicas
    BY <1>2, ConstantsAssumption DEF StartPod, TypeOK, Replicas
  <2> QED BY <1>2, <2>1 DEF StartPod, TypeOK, Busy
<1>3. CASE StopPod
  <2>1. pods - 1 \in Replicas
    BY <1>3, ConstantsAssumption DEF StopPod, TypeOK, Replicas
  <2> QED BY <1>3, <2>1 DEF StopPod, TypeOK, Busy
<1> QED BY <1>1, <1>2, <1>3 DEF MySQL

(* A pass whose restore was changed meanwhile is still a pass.             *)
LEMMA OutdatedPass ==
    ASSUME TypeInv, NEW r \in Restores,
           pass' = IF pass.restore = r THEN [pass EXCEPT !.newest = FALSE] ELSE pass
    PROVE  pass' \in Pass /\ Busy'
  BY DEF TypeInv, TypeOK, Busy, Pass

(* Users and informers.                                                    *)
LEMMA UsersTyped ==
    ASSUME TypeInv,
           \/ \E r \in Restores : \/ DeliverStatus(r) \/ CreateRestore(r)
                                  \/ EditRestore(r) \/ DeleteRestore(r)
           \/ DeliverInstallation \/ DeliverPods \/ WriteInstallation
    PROVE  TypeInv'
<1> USE DEF TypeInv
<1>1. ASSUME NEW r \in Restores, DeliverStatus(r) PROVE TypeInv'
  <2>1. Tail(status[r]) \in Versions(Status \cup {None})
    BY <1>1, Histories, DeliveredVersions DEF DeliverStatus
  <2>2. /\ status' \in [Restores -> Seq(Status \cup {None})]
        /\ \A q \in Restores : Len(status'[q]) \in 1 .. CacheLag + 1
    BY <1>1, <2>1 DEF DeliverStatus, TypeOK, Versions
  <2> QED BY <1>1, <2>2 DEF DeliverStatus, TypeOK, Busy, database
<1>2. ASSUME NEW r \in Restores, CreateRestore(r) PROVE TypeInv'
  <2>1. Created \in Status \cup {None} /\ Notified(r) \subseteq Restores
    BY IdlePass DEF Notified
  <2>2. /\ status' \in [Restores -> Seq(Status \cup {None})]
        /\ \A q \in Restores : Len(status'[q]) \in 1 .. CacheLag + 1
    BY <1>2, <2>1, StatusTyped DEF CreateRestore
  <2>3. 1 .. pods \subseteq 1 .. MaxReplicas
    BY ConstantsAssumption DEF TypeOK, Replicas
  <2>4. predating' \in [Restores -> SUBSET (1 .. MaxReplicas)]
    BY <1>2, <2>3 DEF CreateRestore, TypeOK
  <2> QED BY <1>2, <2>1, <2>2, <2>4 DEF CreateRestore, TypeOK, Busy
<1>3. ASSUME NEW r \in Restores, EditRestore(r) PROVE TypeInv'
  <2>1. Live(status[r]) \in Status \cup {None} /\ Notified(r) \subseteq Restores
    BY Histories, HeldVersions DEF Notified
  <2>2. /\ status' \in [Restores -> Seq(Status \cup {None})]
        /\ \A q \in Restores : Len(status'[q]) \in 1 .. CacheLag + 1
    BY <1>3, <2>1, StatusTyped DEF EditRestore
  <2>3. pass' \in Pass /\ Busy'
    BY <1>3, OutdatedPass DEF EditRestore
  <2> QED BY <1>3, <2>1, <2>2, <2>3 DEF EditRestore, TypeOK, database
<1>4. ASSUME NEW r \in Restores, DeleteRestore(r) PROVE TypeInv'
  <2>1. /\ status' \in [Restores -> Seq(Status \cup {None})]
        /\ \A q \in Restores : Len(status'[q]) \in 1 .. CacheLag + 1
    BY <1>4, StatusTyped DEF DeleteRestore
  <2>2. pass' \in Pass /\ Busy' /\ Notified(r) \subseteq Restores
    BY <1>4, OutdatedPass DEF DeleteRestore, Notified
  <2>3. predating' \in [Restores -> SUBSET (1 .. MaxReplicas)]
    BY <1>4 DEF DeleteRestore, TypeOK
  <2> QED BY <1>4, <2>1, <2>2, <2>3 DEF DeleteRestore, TypeOK
<1>5. CASE DeliverInstallation
  <2>1. ci' \in Versions(Replicas \cup {None})
    BY <1>5, Histories, DeliveredVersions DEF DeliverInstallation
  <2> QED BY <1>5, <2>1 DEF DeliverInstallation, TypeOK, Busy, database, Versions
<1>6. CASE WriteInstallation
  <2>1. PICK v \in 1 .. MaxReplicas \cup {Live(ci), None} : ci' = Published(ci, v)
    BY <1>6 DEF WriteInstallation
  <2>2. v \in Replicas \cup {None}
    <3>1. Live(ci) \in Replicas \cup {None}
      BY Histories, HeldVersions
    <3>2. 1 .. MaxReplicas \subseteq Replicas
      BY ConstantsAssumption DEF Replicas
    <3> QED BY <3>1, <3>2
  <2>3. ci' \in Versions(Replicas \cup {None})
    BY <2>1, <2>2, Histories, PublishedVersions
  <2>4. pass' \in Pass /\ Busy'
    BY <1>6 DEF WriteInstallation, TypeOK, Busy, Pass
  <2> QED BY <1>6, <2>3, <2>4 DEF WriteInstallation, TypeOK, database, Versions
<1>7. CASE DeliverPods
  BY <1>7 DEF DeliverPods, TypeOK, Busy
<1> QED BY <1>1, <1>2, <1>3, <1>4, <1>5, <1>6, <1>7

(* A restart of the operator keeps the types, *)
LEMMA RestartTyped ==
    ASSUME TypeInv, Restart
    PROVE  TypeInv'
<1> USE DEF TypeInv
<1>1. \A r \in Restores : <<Live(status[r])>> \in Versions(Status \cup {None})
  BY Histories, HeldVersions
<1>2. status' = [r \in Restores |-> <<Live(status[r])>>] /\ ci' = <<Live(ci)>> /\ pass' = Idle
  BY DEF Restart
<1>3. /\ status' \in [Restores -> Seq(Status \cup {None})]
      /\ \A q \in Restores : Len(status'[q]) \in 1 .. CacheLag + 1
  BY <1>1, <1>2 DEF Versions
<1>4. ci' \in Versions(Replicas \cup {None})
  BY <1>2, Histories, HeldVersions
<1>5. pass' \in Pass /\ Busy'
  BY <1>2, IdlePass DEF Busy
<1>6. queue' \subseteq Restores /\ state' = "new" /\ seen' = pods
        /\ UNCHANGED <<statefulset, pods, predating, scaledBy>>
  BY DEF Restart
<1> QED BY <1>3, <1>4, <1>5, <1>6 DEF TypeOK, database, Versions, RestoreState

(* The steps, grouped as in the lemmas above.                              *)
LEMMA Steps ==
    ASSUME [Next]_vars
    PROVE  \/ \E r \in Restores : Pick(r) \/ PickFails(r)
           \/ GetInstallation \/ InstallationMissing \/ InstallationUnread
           \/ MarkFailed \/ Record \/ RecordFails
           \/ ScaleDown \/ PodsRemain \/ NoneReady \/ PodsGone \/ DeleteClaim \/ ClaimsDeleted
           \/ ScaleUp \/ Finish \/ FinishFails \/ CallFails
           \/ MySQL
           \/ \E r \in Restores : \/ DeliverStatus(r) \/ CreateRestore(r)
                                  \/ EditRestore(r) \/ DeleteRestore(r)
           \/ DeliverInstallation \/ DeliverPods \/ WriteInstallation
           \/ Restart
           \/ UNCHANGED vars
  BY DEF Next, Ordinary, Disturbance, Work, Outdated

(* and so does every step. *)
LEMMA NextTyped == TypeInv /\ [Next]_vars => TypeInv'
<1> SUFFICES ASSUME TypeInv, [Next]_vars PROVE TypeInv'
  OBVIOUS
<1>1. CASE UNCHANGED vars
  BY <1>1 DEF vars, TypeInv, TypeOK, Busy
<1> QED BY <1>1, Steps, FirstStepsTyped, LastStepsTyped, MySQLTyped, UsersTyped, RestartTyped

(* The types at the start. *)
LEMMA InitTyped == Init => TypeInv
<1> SUFFICES ASSUME Init PROVE TypeInv
  OBVIOUS
<1>1. PICK n \in 1 .. MaxReplicas : ci = <<n>> /\ statefulset = n /\ pods = n /\ seen = n
  BY DEF Init
<1>2. n \in Replicas
  BY ConstantsAssumption DEF Replicas
<1>3. ci \in Seq(Replicas \cup {None}) /\ Len(ci) \in 1 .. CacheLag + 1
  BY <1>1, <1>2, ConstantsAssumption
<1>4. <<None>> \in Seq(Status \cup {None}) /\ Len(<<None>>) \in 1 .. CacheLag + 1
  BY ConstantsAssumption
<1>5. /\ status \in [Restores -> Seq(Status \cup {None})]
      /\ \A q \in Restores : Len(status[q]) \in 1 .. CacheLag + 1
  BY <1>4 DEF Init
<1>6. pass \in Pass /\ Busy
  BY IdlePass DEF Init, Busy
<1> QED BY <1>1, <1>2, <1>3, <1>5, <1>6 DEF Init, TypeInv, TypeOK, RestoreState

(* The variables of the restores have their types: the loop over the       *)
(* claims stays within the replicas that were recorded, and no write takes *)
(* the database beyond its bounds (Reconcile).                             *)
THEOREM RestoreTyped == Spec => []TypeOK
<1>1. TypeInv => TypeOK
  BY DEF TypeInv
<1> QED BY <1>1, InitTyped, NextTyped, PTL DEF Spec

-----------------------------------------------------------------------------
(* Down while restoring *)

(* What a pass holds of the installation is what is live, unless somebody  *)
(* wrote it since.                                                         *)
HoldsLive == pass.fresh => pass.replicas = Live(ci)

(* A pass that waits, deletes claims or is about to scale up holds zero.   *)
HoldsZero == pass.pc \in {"wait", "list", "pvc", "up"} => pass.replicas = 0

(* The invariant of the theorem. *)
DownInv == TypeInv /\ HoldsLive /\ HoldsZero

(* After scaling, a pass holds what it wrote, and that is live.            *)
LEMMA ScaleHolds ==
    ASSUME DownInv, NEW n \in Replicas, NEW label, Scale(n, label)
    PROVE  HoldsLive' /\ pass'.replicas = n /\ pass'.pc = label
<1>1. Live(Published(ci, n)) = n
  BY Histories, PublishedVersions DEF DownInv, TypeInv
<1>2. pass' = [pass EXCEPT !.replicas = n, !.pc = label] /\ ci' = Published(ci, n)
  BY DEF Scale
<1>3. pass'.replicas = n /\ pass'.pc = label
  BY <1>2 DEF DownInv, TypeInv, TypeOK, Pass
<1> QED BY <1>1, <1>2, <1>3 DEF HoldsLive

(* Steps that leave the installation and what the pass holds of it.        *)
LEMMA StillHolds ==
    ASSUME DownInv, Live(ci') = Live(ci), pass'.fresh => pass.fresh,
           pass'.replicas = pass.replicas,
           pass'.pc \in {"wait", "list", "pvc", "up"} => pass.replicas = 0
    PROVE  HoldsLive' /\ HoldsZero'
  BY DEF DownInv, HoldsLive, HoldsZero

(* Every step keeps the invariant. *)
LEMMA NextDown == DownInv /\ [Next]_vars => DownInv'
<1> SUFFICES ASSUME DownInv, [Next]_vars PROVE DownInv'
  OBVIOUS
<1>1. TypeInv'
  BY NextTyped DEF DownInv
<1>2. pass \in Pass /\ ci \in Versions(Replicas \cup {None})
  BY Histories DEF DownInv, TypeInv, TypeOK
<1> SUFFICES HoldsLive' /\ HoldsZero'
  BY <1>1 DEF DownInv
<1>3. ASSUME pass' = Idle PROVE HoldsLive' /\ HoldsZero'
  BY <1>3, IdlePass DEF HoldsLive, HoldsZero
<1>4. ASSUME NEW r \in Restores, Pick(r) PROVE HoldsLive' /\ HoldsZero'
  BY <1>4, IdlePass DEF Pick, Idle, HoldsLive, HoldsZero
<1>5. CASE GetInstallation
  <2>1. Len(ci) = 1 => Cached(ci) = Live(ci)
    BY <1>2 DEF Cached, Live, Versions
  <2>2. HoldsLive'
    BY <1>2, <1>5, <2>1 DEF GetInstallation, HoldsLive, Pass
  <2>3. HoldsZero'
    BY <1>2, <1>5 DEF GetInstallation, ScaleDownOrWait, HoldsZero, Pass
  <2> QED BY <2>2, <2>3
<1>6. CASE Record
  <2>1. UNCHANGED ci /\ pass' = [pass EXCEPT !.status = [state |-> state, original |-> pass.replicas],
                                            !.pc = ScaleDownOrWait(pass.replicas)]
    BY <1>6 DEF Record
  <2>2. /\ pass'.fresh = pass.fresh /\ pass'.replicas = pass.replicas
        /\ pass'.pc = ScaleDownOrWait(pass.replicas)
    BY <1>2, <2>1 DEF Pass
  <2> QED BY <2>1, <2>2, StillHolds DEF ScaleDownOrWait
<1>7. CASE InstallationMissing \/ InstallationUnread
  <2>1. UNCHANGED ci /\ pass' = [pass EXCEPT !.pc = "fail"]
    BY <1>7 DEF InstallationMissing, InstallationUnread, Failing, Goto
  <2> QED BY <1>2, <2>1, StillHolds DEF Pass
<1>8. CASE ScaleDown
  <2>1. 0 \in Replicas
    BY ConstantsAssumption DEF Replicas
  <2> QED BY <1>8, <2>1, ScaleHolds DEF ScaleDown, HoldsZero
<1>9. CASE NoneReady \/ PodsGone \/ ClaimsDeleted
  <2>1. UNCHANGED ci /\ pass.pc \in {"wait", "list", "pvc"}
        /\ pass' \in {[pass EXCEPT !.pc = "list"], [pass EXCEPT !.pc = "pvc"],
                      [pass EXCEPT !.pc = "up"]}
    BY <1>9 DEF NoneReady, PodsGone, ClaimsDeleted, Goto, At
  <2> QED BY <1>2, <2>1, StillHolds DEF Pass, DownInv, HoldsZero
<1>10. CASE DeleteClaim
  <2>1. UNCHANGED ci /\ pass' = [pass EXCEPT !.claim = @ + 1]
    BY <1>10 DEF DeleteClaim
  <2> QED BY <1>2, <2>1, StillHolds DEF Pass, DownInv, HoldsZero
<1>11. CASE ScaleUp
  <2>1. RestoredReplicas \in Replicas
    BY PassFields, ConstantsAssumption DEF DownInv, TypeInv, RestoredReplicas, Replicas
  <2> QED BY <1>11, <2>1, ScaleHolds DEF ScaleUp, HoldsZero
<1>12. ASSUME NEW r \in Restores, EditRestore(r) \/ DeleteRestore(r)
       PROVE  HoldsLive' /\ HoldsZero'
  <2>1. UNCHANGED ci /\ pass' \in {pass, [pass EXCEPT !.newest = FALSE]}
    BY <1>12 DEF EditRestore, DeleteRestore
  <2> QED BY <1>2, <2>1, StillHolds DEF Pass, DownInv, HoldsZero
<1>13. CASE DeliverInstallation
  <2>1. Live(ci') = Live(ci) /\ UNCHANGED pass
    BY <1>2, <1>13, DeliveredVersions DEF DeliverInstallation
  <2> QED BY <2>1, StillHolds DEF DownInv, HoldsZero
<1>14. CASE WriteInstallation
  BY <1>2, <1>14 DEF WriteInstallation, DownInv, HoldsLive, HoldsZero, Pass
<1>15. ASSUME UNCHANGED <<ci, pass>> PROVE HoldsLive' /\ HoldsZero'
  BY <1>15 DEF DownInv, HoldsLive, HoldsZero
<1>16. ASSUME \/ MarkFailed \/ RecordFails \/ PodsRemain \/ Finish \/ FinishFails \/ CallFails
              \/ Restart
       PROVE  pass' = Idle
  BY <1>16 DEF MarkFailed, RecordFails, PodsRemain, Finish, FinishFails, CallFails, Restart,
               Requeue, Return
<1>17. ASSUME \/ \E r \in Restores : PickFails(r) \/ DeliverStatus(r) \/ CreateRestore(r)
              \/ MySQL \/ DeliverPods \/ UNCHANGED vars
       PROVE  UNCHANGED <<ci, pass>>
  BY <1>17 DEF PickFails, DeliverStatus, CreateRestore, MySQL, Rescale, StartPod, StopPod,
               DeliverPods, vars
<1> QED
  BY <1>3, <1>4, <1>5, <1>6, <1>7, <1>8, <1>9, <1>10, <1>11, <1>12, <1>13, <1>14, <1>15,
     <1>16, <1>17, Steps

(* A pass that waits, deletes claims or scales up works on an installation *)
(* that is at zero, or can no longer write it: for any number of restores  *)
(* and replicas, any lag of the cache, any failures, restarts and writes   *)
(* of others (Reconcile).                                                  *)
THEOREM RestoresDown == Spec => []DownWhileRestoring
<1>1. Init => DownInv
  BY InitTyped, IdlePass DEF Init, DownInv, HoldsLive, HoldsZero
<1>2. DownInv => DownWhileRestoring
  BY DEF DownInv, HoldsLive, HoldsZero, DownWhileRestoring
<1> QED BY <1>1, <1>2, NextDown, PTL DEF Spec

=============================================================================
