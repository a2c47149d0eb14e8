------------------------ MODULE ReconcileLimitProofs ------------------------
(***************************************************************************)
(* Proofs about ReconcileLimit, for any number of installations, workers   *)
(* and slots.                                                              *)
(***************************************************************************)
EXTENDS ReconcileLimit, FiniteSetTheorems, TLAPS

-----------------------------------------------------------------------------
(* The versions of a resource.                                             *)

(* What the cache and the API server hold of a resource is a version.      *)
LEMMA VersionsTyped ==
    ASSUME TypeOK, NEW m \in Installations
    PROVE  /\ versions[m] \in Seq(Version)
           /\ Len(versions[m]) \in Nat \ {0}
           /\ Cached(m) \in Version
           /\ Live(m) \in Version
  BY ConstantsAssumption DEF TypeOK, Cached, Live

(* A change of the spec moves the generation on and keeps the status.      *)
LEMMA SpecChange ==
    ASSUME NEW v \in Version
    PROVE  /\ NextGeneration(v) \in Version
           /\ NextGeneration(v).generation = v.generation + 1
           /\ NextGeneration(v).state = v.state
           /\ NextGeneration(v).observed = v.observed
<1>1. v.generation + 1 \in Nat
  BY DEF Version
<1>2. PICK g \in Nat : g = v.generation + 1
  BY <1>1
<1>3. NextGeneration(v) = [v EXCEPT !.generation = g]
  BY <1>2 DEF NextGeneration
<1> QED BY <1>2, <1>3 DEF Version

(* A change of the status keeps the generation.                            *)
LEMMA StatusChange ==
    ASSUME NEW v \in Version, NEW s \in RunningState, NEW o \in Nat
    PROVE  /\ WithStatus(v, s, o) \in Version
           /\ WithStatus(v, s, o).generation = v.generation
           /\ WithStatus(v, s, o).state = s
           /\ WithStatus(v, s, o).observed = o
  BY DEF Version, WithStatus

(* A write to m that the API server stores keeps the versions well typed,  *)
(* becomes the live version of m and touches no other resource.            *)
LEMMA PublishStep ==
    ASSUME TypeOK, NEW m \in Installations, NEW v \in Version, versions' = Published(m, v)
    PROVE  /\ versions' \in [Installations -> Seq(Version)]
           /\ \A n \in Installations : Len(versions'[n]) \in 1 .. CacheLag + 1
           /\ \A n \in Installations : Live(n)' = IF n = m THEN v ELSE Live(n)
<1> DEFINE old == versions[m]
           all == Append(old, v)
           new == IF Len(all) > CacheLag + 1 THEN Tail(all) ELSE all
<1>1. old \in Seq(Version) /\ Len(old) \in 1 .. CacheLag + 1
  BY DEF TypeOK
<1>2. all \in Seq(Version) /\ Len(all) = Len(old) + 1 /\ all[Len(all)] = v
  BY <1>1
<1>3. new \in Seq(Version) /\ Len(new) \in 1 .. CacheLag + 1 /\ new[Len(new)] = v
  <2>1. CASE Len(all) > CacheLag + 1
    <3> HIDE DEF all, old
    <3>1. Len(all) = CacheLag + 2
      BY <1>1, <1>2, <2>1, ConstantsAssumption
    <3>2. Tail(all) \in Seq(Version) /\ Len(Tail(all)) = CacheLag + 1
      BY <1>2, <3>1, ConstantsAssumption
    <3>3. Tail(all)[CacheLag + 1] = all[CacheLag + 2]
      BY <1>2, <3>1, <3>2, ConstantsAssumption
    <3> QED BY <1>2, <2>1, <3>1, <3>2, <3>3, ConstantsAssumption
  <2>2. CASE ~(Len(all) > CacheLag + 1)
    BY <1>1, <1>2, <2>2, ConstantsAssumption
  <2> QED BY <2>1, <2>2
<1>4. versions' = [versions EXCEPT ![m] = new]
  BY DEF Published
<1> HIDE DEF new
<1>5. \A n \in Installations : versions'[n] = IF n = m THEN new ELSE versions[n]
  BY <1>4 DEF TypeOK
<1>6. versions' \in [Installations -> Seq(Version)]
  BY <1>3, <1>4 DEF TypeOK
<1>7. \A n \in Installations : Len(versions'[n]) \in 1 .. CacheLag + 1
  BY <1>3, <1>5 DEF TypeOK
<1>8. \A n \in Installations : Live(n)' = IF n = m THEN v ELSE Live(n)
  BY <1>3, <1>5 DEF Live
<1> QED BY <1>6, <1>7, <1>8

-----------------------------------------------------------------------------
(* The inductive invariant behind SlotAccounting.                          *)

(* A worker has a key exactly while it is busy.                            *)
BusyKeyed == \A w \in Workers : worker[w].pc = "idle" <=> worker[w].key = NoInstallation

(* The queue never gives one key to two workers.                           *)
KeysDistinct ==
    \A v, w \in Workers :
        v # w /\ worker[v].key = worker[w].key => worker[v].key = NoInstallation

(* A slot is held from the admission to the end of the pass, and a new     *)
(* installation is only marked by a pass that holds one.                   *)
SlotShape ==
    \A w \in Workers :
        /\ worker[w].slot => worker[w].pc \notin {"idle", "limit", "listed"}
        /\ worker[w].pc = "mark" => worker[w].slot

(* The rate limiter's mutex has one holder.                                *)
OneListing ==
    \A v, w \in Workers : worker[v].pc = "listed" /\ worker[w].pc = "listed" => v = w

SlotInv ==
    /\ TypeOK
    /\ BusyKeyed
    /\ KeysDistinct
    /\ SlotShape
    /\ OneListing
    /\ SlotAccounting

(* A busy worker's key is an installation.                                 *)
LEMMA BusyKey ==
    ASSUME TypeOK, BusyKeyed, NEW w \in Workers, worker[w].pc # "idle"
    PROVE  worker[w].key \in Installations
  BY DEF TypeOK, BusyKeyed, Pass

(* Slots held by the same workers for the same keys are the same slots.    *)
LEMMA SameHeld ==
    ASSUME \A v \in Workers : worker'[v].slot = worker[v].slot,
           \A v \in Workers : worker[v].slot => worker'[v].key = worker[v].key
    PROVE  Held' = Held
  BY DEF Held

(* A step inside the pass of w, between admission and return, keeps the    *)
(* whole of the workers' bookkeeping.                                      *)
LEMMA PassStep ==
    ASSUME SlotInv, NEW w \in Workers, worker[w].pc # "idle",
           NEW r \in Pass, r.pc \in {"spec", "work", "report", "exit"},
           r.key = worker[w].key, r.slot = worker[w].slot,
           worker' = [worker EXCEPT ![w] = r], processing' = processing
    PROVE  /\ worker' \in [Workers -> Pass]
           /\ BusyKeyed' /\ KeysDistinct' /\ SlotShape' /\ OneListing' /\ SlotAccounting'
           /\ Held' = Held
<1> USE DEF SlotInv, TypeOK
<1>1. worker' \in [Workers -> Pass]
  OBVIOUS
<1>2. \A v \in Workers : worker'[v] = IF v = w THEN r ELSE worker[v]
  OBVIOUS
<1>3. BusyKeyed'
  BY <1>2 DEF BusyKeyed
<1>4. KeysDistinct'
  BY <1>2 DEF KeysDistinct
<1>5. SlotShape'
  BY <1>2 DEF SlotShape
<1>6. OneListing'
  BY <1>2 DEF OneListing
<1>7. Held' = Held
  BY <1>2, SameHeld
<1>8. SlotAccounting'
  BY <1>7 DEF SlotAccounting
<1> QED BY <1>1, <1>3, <1>4, <1>5, <1>6, <1>7, <1>8

(* The worker bookkeeping part of SlotInv.                                 *)
Bookkeeping ==
    /\ worker \in [Workers -> Pass]
    /\ BusyKeyed /\ KeysDistinct /\ SlotShape /\ OneListing /\ SlotAccounting

VersionsOK ==
    /\ versions \in [Installations -> Seq(Version)]
    /\ \A m \in Installations : Len(versions[m]) \in 1 .. CacheLag + 1

(* An updateStatus call inside a pass: what it does to the resource and    *)
(* to the worker.                                                          *)
LEMMA WriteStep ==
    ASSUME SlotInv, NEW w \in Workers, worker[w].pc # "idle",
           NEW s \in RunningState, NEW o \in Nat, NEW result,
           NEW label \in {"spec", "work", "report", "exit"},
           UpdateStatus(w, s, o, result), Wrote(w, s, o, result, label),
           processing' = processing
    PROVE  /\ worker[w].key \in Installations
           /\ VersionsOK' /\ Bookkeeping' /\ Held' = Held
           /\ \A n \in Installations : Live(n)' =
                 IF n = worker[w].key /\ result \in {"stored", "lost"}
                 THEN WithStatus(Live(n), s, o) ELSE Live(n)
           /\ \A v \in Workers \ {w} : worker'[v] = worker[v]
           /\ worker'[w].pc = label
           /\ worker'[w].generation = worker[w].generation
           /\ worker'[w].key = worker[w].key
           /\ worker'[w].slot = worker[w].slot
           /\ worker'[w].current = (worker[w].current /\ result # "lost")
<1> DEFINE r == [worker[w] EXCEPT !.pc = label, !.state = s, !.observed = o,
                                  !.reported = o, !.current = worker[w].current /\ result # "lost"]
<1>1. worker \in [Workers -> Pass] /\ worker[w] \in Pass
  BY DEF SlotInv, TypeOK
<1>2. worker[w].key \in Installations
  BY BusyKey DEF SlotInv
<1>3. /\ r \in Pass /\ r.pc = label /\ r.key = worker[w].key /\ r.slot = worker[w].slot
      /\ r.current = (worker[w].current /\ result # "lost")
      /\ r.generation = worker[w].generation
  BY <1>1 DEF Pass, PC
<1>4. worker' = [worker EXCEPT ![w] = r]
  BY <1>1 DEF Wrote
<1> HIDE DEF r
<1>5. Bookkeeping' /\ Held' = Held
  BY <1>3, <1>4, PassStep DEF Bookkeeping
<1>6. VersionsOK' /\ \A n \in Installations : Live(n)' =
          IF n = worker[w].key /\ result \in {"stored", "lost"}
          THEN WithStatus(Live(n), s, o) ELSE Live(n)
  <2>1. CASE result \in {"stored", "lost"}
    <3>1. WithStatus(Live(worker[w].key), s, o) \in Version
      BY <1>2, VersionsTyped, StatusChange DEF SlotInv
    <3>2. versions' = Published(worker[w].key, WithStatus(Live(worker[w].key), s, o))
      BY <2>1 DEF UpdateStatus
    <3> QED BY <1>2, <2>1, <3>1, <3>2, PublishStep DEF VersionsOK, SlotInv
  <2>2. CASE result \notin {"stored", "lost"}
    <3>1. versions' = versions
      BY <2>2 DEF UpdateStatus
    <3> QED BY <2>2, <3>1 DEF VersionsOK, SlotInv, TypeOK, Live
  <2> QED BY <2>1, <2>2
<1> QED BY <1>1, <1>2, <1>3, <1>4, <1>5, <1>6

(* Slots are held for installations, so there are finitely many.           *)
LEMMA HeldFinite ==
    ASSUME SlotInv
    PROVE  Held \subseteq Installations /\ IsFiniteSet(Held) /\ Cardinality(Held) \in Nat
<1>1. Held \subseteq Installations
  BY BusyKey DEF SlotInv, SlotShape, Held
<1> QED BY <1>1, ConstantsAssumption, FS_Subset, FS_CardinalityType

(* Admitting w adds its key, which nobody else holds.                      *)
LEMMA AdmitHeld ==
    ASSUME SlotInv, NEW w \in Workers, Admit(w)
    PROVE  /\ Held' = Held \cup {worker[w].key}
           /\ worker[w].key \notin Held
           /\ worker[w].key \in Installations
<1>1. worker[w].pc = "listed" /\ worker[w].slot = FALSE /\ worker[w].key \in Installations
  BY BusyKey DEF Admit, SlotInv, SlotShape, TypeOK, Pass
<1>2. /\ worker'[w].slot = TRUE /\ worker'[w].key = worker[w].key
      /\ \A v \in Workers \ {w} : worker'[v] = worker[v]
  BY DEF Admit, SlotInv, TypeOK, Pass
<1>3. worker[w].key \notin Held
  BY <1>1, ConstantsAssumption DEF Held, SlotInv, KeysDistinct
<1>4. Held' = Held \cup {worker[w].key}
  BY <1>1, <1>2 DEF Held
<1> QED BY <1>1, <1>3, <1>4

(* The end of a pass that holds a slot gives up that slot and no other.    *)
LEMMA FinishHeld ==
    ASSUME SlotInv, NEW w \in Workers, Finish(w)
    PROVE  Held' = IF worker[w].slot THEN Held \ {worker[w].key} ELSE Held
<1>1. worker[w].pc = "exit" /\ worker[w].key \in Installations
  BY BusyKey DEF Finish, SlotInv
<1>2. worker'[w] = Idle /\ \A v \in Workers \ {w} : worker'[v] = worker[v]
  BY DEF Finish, SlotInv, TypeOK
<1>3. worker'[w].slot = FALSE
  BY <1>2 DEF Idle
<1>4. CASE worker[w].slot
  <2>1. \A v \in Workers \ {w} : worker[v].key # worker[w].key
    BY <1>1, ConstantsAssumption DEF SlotInv, KeysDistinct
  <2> QED BY <1>2, <1>3, <1>4, <2>1 DEF Held
<1>5. CASE ~worker[w].slot
  <2>1. /\ \A v \in Workers : worker'[v].slot = worker[v].slot
        /\ \A v \in Workers : worker[v].slot => worker'[v].key = worker[v].key
    BY <1>2, <1>3, <1>5 DEF SlotInv, TypeOK, Pass
  <2> QED BY <1>5, <2>1, SameHeld
<1> QED BY <1>4, <1>5

(* A worker that turns idle, or was idle and is given a key nobody has.    *)
LEMMA HandOver ==
    ASSUME SlotInv, NEW w \in Workers, NEW r \in Pass, worker' = [worker EXCEPT ![w] = r],
           r.slot = FALSE, r.pc # "mark",
           r.pc = "idle" <=> r.key = NoInstallation,
           r.pc = "listed" => \A v \in Workers \ {w} : worker[v].pc # "listed",
           r.key # NoInstallation => \A v \in Workers \ {w} : worker[v].key # r.key
    PROVE  /\ worker' \in [Workers -> Pass]
           /\ BusyKeyed' /\ KeysDistinct' /\ SlotShape' /\ OneListing'
<1>1. worker \in [Workers -> Pass] /\ worker' \in [Workers -> Pass]
  BY DEF SlotInv, TypeOK
<1>2. \A v \in Workers : worker'[v] = IF v = w THEN r ELSE worker[v]
  BY <1>1
<1>3. BusyKeyed'
  BY <1>2 DEF SlotInv, BusyKeyed
<1>4. KeysDistinct'
  BY <1>2 DEF SlotInv, KeysDistinct
<1>5. SlotShape'
  BY <1>2 DEF SlotInv, SlotShape
<1>6. OneListing'
  BY <1>2 DEF SlotInv, OneListing
<1> QED BY <1>1, <1>3, <1>4, <1>5, <1>6

-----------------------------------------------------------------------------
(* Every action preserves SlotInv.                                         *)

LEMMA SlotPick ==
    ASSUME SlotInv, NEW w \in Workers, NEW m \in Installations, Pick(w, m)
    PROVE  SlotInv' /\ Held' = Held
<1> DEFINE r == [pc         |-> IF Cached(m).state \in Unsettled THEN "spec" ELSE "limit",
                 key        |-> m,
                 generation |-> Cached(m).generation,
                 state      |-> Cached(m).state,
                 observed   |-> Cached(m).observed,
                 current    |-> Len(versions[m]) = 1,
                 reported   |-> Cached(m).generation,
                 slot       |-> FALSE]
<1>1. worker \in [Workers -> Pass] /\ worker' = [worker EXCEPT ![w] = r]
  BY DEF Pick, SlotInv, TypeOK
<1>2. Cached(m) \in Version
  BY VersionsTyped DEF SlotInv
<1>3. /\ r \in Pass /\ r.slot = FALSE /\ r.key = m /\ r.pc \in {"spec", "limit"}
  BY <1>2 DEF Pass, PC, Version
<1> HIDE DEF r
<1>4. \A v \in Workers : worker[v].key # m
  BY DEF Pick
<1>5. /\ worker' \in [Workers -> Pass]
      /\ BusyKeyed' /\ KeysDistinct' /\ SlotShape' /\ OneListing'
  BY <1>1, <1>3, <1>4, ConstantsAssumption, HandOver
<1>6. worker[w].slot = FALSE
  BY <1>1 DEF Pick, Busy, SlotInv, SlotShape, Pass
<1>7. Held' = Held
  BY <1>1, <1>3, <1>6, SameHeld
<1>8. SlotAccounting'
  BY <1>7 DEF SlotInv, SlotAccounting, Pick
<1>9. VersionsOK' /\ queue' \subseteq Installations /\ processing' \in Nat
        /\ listed' \subseteq Installations
  BY DEF Pick, SlotInv, TypeOK, VersionsOK
<1> QED BY <1>5, <1>7, <1>8, <1>9 DEF SlotInv, TypeOK, VersionsOK, Bookkeeping

LEMMA SlotLockAndList ==
    ASSUME SlotInv, NEW w \in Workers, LockAndList(w)
    PROVE  SlotInv' /\ Held' = Held
<1> DEFINE r == [worker[w] EXCEPT !.pc = "listed"]
<1>1. worker \in [Workers -> Pass] /\ worker' = [worker EXCEPT ![w] = r]
  BY DEF LockAndList, Goto, SlotInv, TypeOK
<1>2. worker[w].pc = "limit" /\ worker[w].slot = FALSE /\ worker[w].key \in Installations
  BY BusyKey DEF LockAndList, SlotInv, SlotShape, TypeOK, Pass
<1>3. r \in Pass /\ r.slot = FALSE /\ r.key = worker[w].key /\ r.pc = "listed"
  BY <1>1, <1>2 DEF Pass, PC
<1> HIDE DEF r
<1>4. \A v \in Workers \ {w} : worker[v].key # worker[w].key
  BY <1>2, ConstantsAssumption DEF SlotInv, KeysDistinct
<1>5. \A v \in Workers : worker[v].pc # "listed"
  BY DEF LockAndList, MutexFree
<1>6. /\ worker' \in [Workers -> Pass]
      /\ BusyKeyed' /\ KeysDistinct' /\ SlotShape' /\ OneListing'
  BY <1>1, <1>2, <1>3, <1>4, <1>5, ConstantsAssumption, HandOver
<1>7. Held' = Held
  BY <1>1, <1>2, <1>3, SameHeld
<1>8. SlotAccounting'
  BY <1>7 DEF SlotInv, SlotAccounting, LockAndList
<1>9. VersionsOK' /\ queue' \subseteq Installations /\ processing' \in Nat
        /\ listed' \subseteq Installations
  BY DEF LockAndList, SlotInv, TypeOK, VersionsOK
<1> QED BY <1>6, <1>7, <1>8, <1>9 DEF SlotInv, TypeOK, VersionsOK, Bookkeeping

LEMMA SlotAdmit ==
    ASSUME SlotInv, NEW w \in Workers, Admit(w)
    PROVE  SlotInv'
<1> DEFINE r == [worker[w] EXCEPT !.pc = IF worker[w].state = "new" THEN "mark" ELSE "spec",
                                  !.slot = TRUE]
<1>1. worker \in [Workers -> Pass] /\ worker' = [worker EXCEPT ![w] = r]
  BY DEF Admit, SlotInv, TypeOK
<1>2. r \in Pass /\ r.slot = TRUE /\ r.key = worker[w].key /\ r.pc \in {"mark", "spec"}
  BY <1>1 DEF Pass, PC
<1> HIDE DEF r
<1>3. \A v \in Workers : worker'[v] = IF v = w THEN r ELSE worker[v]
  BY <1>1
<1>4. worker[w].key \in Installations /\ worker[w].pc = "listed"
  BY AdmitHeld DEF Admit
<1>5. BusyKeyed'
  BY <1>2, <1>3, <1>4, ConstantsAssumption DEF SlotInv, BusyKeyed
<1>6. KeysDistinct'
  BY <1>2, <1>3 DEF SlotInv, KeysDistinct
<1>7. SlotShape'
  BY <1>2, <1>3 DEF SlotInv, SlotShape
<1>8. OneListing'
  BY <1>2, <1>3 DEF SlotInv, OneListing
<1>9. SlotAccounting'
  <2>1. Cardinality(Held') = Cardinality(Held) + 1
    BY AdmitHeld, HeldFinite, FS_AddElement
  <2> QED BY <2>1 DEF SlotInv, SlotAccounting, Admit
<1>10. VersionsOK' /\ queue' \subseteq Installations /\ processing' \in Nat
        /\ listed' \subseteq Installations
  <2>1. /\ versions' = versions /\ queue' = queue /\ listed' = {}
        /\ processing' = processing + 1
    BY DEF Admit
  <2> QED BY <2>1 DEF SlotInv, TypeOK, VersionsOK
<1> QED BY <1>1, <1>2, <1>5, <1>6, <1>7, <1>8, <1>9, <1>10 DEF SlotInv, TypeOK, VersionsOK, Bookkeeping

LEMMA SlotTurned ==
    ASSUME SlotInv, NEW w \in Workers, worker[w].pc \in {"limit", "listed"}, Turned(w)
    PROVE  SlotInv' /\ Held' = Held
<1>1. worker \in [Workers -> Pass] /\ worker' = [worker EXCEPT ![w] = Idle]
  BY DEF Turned, SlotInv, TypeOK
<1>2. Idle \in Pass /\ Idle.slot = FALSE /\ Idle.key = NoInstallation /\ Idle.pc = "idle"
  BY DEF Idle, Pass, PC
<1>3. /\ worker' \in [Workers -> Pass]
      /\ BusyKeyed' /\ KeysDistinct' /\ SlotShape' /\ OneListing'
  BY <1>1, <1>2, HandOver
<1>4. worker[w].slot = FALSE /\ worker[w].key \in Installations
  BY <1>1, BusyKey DEF SlotInv, SlotShape, Pass
<1>5. Held' = Held
  BY <1>1, <1>2, <1>4, SameHeld
<1>6. SlotAccounting'
  BY <1>5 DEF SlotInv, SlotAccounting, Turned
<1>7. VersionsOK' /\ queue' \subseteq Installations /\ processing' \in Nat
        /\ listed' \subseteq Installations
  BY <1>4 DEF Turned, SlotInv, TypeOK, VersionsOK
<1> QED BY <1>3, <1>5, <1>6, <1>7 DEF SlotInv, TypeOK, VersionsOK, Bookkeeping

LEMMA SlotFinish ==
    ASSUME SlotInv, NEW w \in Workers, Finish(w)
    PROVE  SlotInv'
<1>1. worker \in [Workers -> Pass] /\ worker' = [worker EXCEPT ![w] = Idle]
  BY DEF Finish, SlotInv, TypeOK
<1>2. Idle \in Pass /\ Idle.slot = FALSE /\ Idle.key = NoInstallation /\ Idle.pc = "idle"
  BY DEF Idle, Pass, PC
<1>3. /\ worker' \in [Workers -> Pass]
      /\ BusyKeyed' /\ KeysDistinct' /\ SlotShape' /\ OneListing'
  BY <1>1, <1>2, HandOver
<1>4. SlotAccounting' /\ processing' \in Nat
  <2>1. CASE worker[w].slot
    <3>1. worker[w].key \in Held
      BY <2>1 DEF Held
    <3>2. Cardinality(Held') = Cardinality(Held) - 1
      BY <2>1, <3>1, FinishHeld, HeldFinite, FS_RemoveElement
    <3>3. Cardinality(Held) > 0
      BY <3>1, HeldFinite, FS_EmptySet
    <3> QED BY <2>1, <3>2, <3>3, HeldFinite DEF SlotInv, SlotAccounting, Finish
  <2>2. CASE ~worker[w].slot
    BY <2>2, FinishHeld DEF SlotInv, SlotAccounting, Finish, TypeOK
  <2> QED BY <2>1, <2>2
<1>5. VersionsOK' /\ queue' \subseteq Installations /\ listed' \subseteq Installations
  BY DEF Finish, SlotInv, TypeOK, VersionsOK
<1> QED BY <1>3, <1>4, <1>5 DEF SlotInv, TypeOK, VersionsOK, Bookkeeping

(* The writes of a status inside a pass.                                   *)
LEMMA SlotWrite ==
    ASSUME SlotInv, NEW w \in Workers, worker[w].pc # "idle",
           NEW s \in RunningState, NEW o \in Nat, NEW result,
           NEW label \in {"spec", "work", "report", "exit"},
           UpdateStatus(w, s, o, result), Wrote(w, s, o, result, label),
           NEW more \in SUBSET Installations, queue' = queue \cup more,
           processing' = processing, listed' = listed
    PROVE  SlotInv' /\ Held' = Held
<1>1. VersionsOK' /\ Bookkeeping' /\ Held' = Held
  BY WriteStep
<1>2. queue' \subseteq Installations /\ processing' \in Nat /\ listed' \subseteq Installations
  BY DEF SlotInv, TypeOK
<1> QED BY <1>1, <1>2 DEF SlotInv, TypeOK, VersionsOK, Bookkeeping

LEMMA NotifiedType == ASSUME NEW m \in Installations PROVE Notified(m) \in SUBSET Installations
  BY DEF Notified

LEMMA SlotStatusActions ==
    ASSUME SlotInv, NEW w \in Workers, NEW result,
           \/ MarkReconciling(w, result)
           \/ Report(w, result)
           \/ \E s \in Unsettled : NotHealthy(w, s, result)
           \/ Healthy(w, result)
           \/ HealthyWriteFails(w, result)
    PROVE  SlotInv' /\ Held' = Held
<1> DEFINE k == worker[w].key
<1>1. /\ worker[w].pc # "idle" /\ worker[w] \in Pass
      /\ worker[w].generation \in Nat /\ worker[w].reported \in Nat
  BY DEF MarkReconciling, Report, NotHealthy, Healthy, HealthyWriteFails, SlotInv, TypeOK, Pass
<1>2. k \in Installations /\ {k} \in SUBSET Installations
  BY <1>1, BusyKey DEF SlotInv
<1>3. Notified(k) \in SUBSET Installations
  BY <1>2, NotifiedType
<1> HIDE DEF k
<1>4. CASE MarkReconciling(w, result)
  <2> DEFINE label == IF result = "stored" THEN "spec" ELSE "exit"
             more == IF result = "stored" THEN Notified(k) ELSE {k}
  <2>1. /\ UpdateStatus(w, "reconciling", worker[w].reported, result)
        /\ Wrote(w, "reconciling", worker[w].reported, result, label)
        /\ queue' = queue \cup more /\ processing' = processing /\ listed' = listed
    BY <1>4 DEF MarkReconciling, k
  <2>2. label \in {"spec", "work", "report", "exit"} /\ more \in SUBSET Installations
    BY <1>2, <1>3
  <2>3. "reconciling" \in RunningState
    BY DEF RunningState
  <2> HIDE DEF label, more
  <2> QED BY <1>1, <2>1, <2>2, <2>3, SlotWrite
<1>5. CASE Report(w, result)
  <2>1. /\ UpdateStatus(w, "reconciling", worker[w].reported, result)
        /\ Wrote(w, "reconciling", worker[w].reported, result, "exit")
        /\ queue' = queue \cup {k} /\ processing' = processing /\ listed' = listed
    BY <1>5 DEF Report, k
  <2>2. "reconciling" \in RunningState
    BY DEF RunningState
  <2> QED BY <1>1, <1>2, <2>1, <2>2, SlotWrite
<1>6. CASE \E s \in Unsettled : NotHealthy(w, s, result)
  <2>1. PICK s \in Unsettled : NotHealthy(w, s, result)
    BY <1>6
  <2>2. /\ UpdateStatus(w, s, worker[w].generation, result)
        /\ Wrote(w, s, worker[w].generation, result, "exit")
        /\ queue' = queue \cup {k} /\ processing' = processing /\ listed' = listed
    BY <2>1 DEF NotHealthy, k
  <2>3. s \in RunningState
    BY <2>1 DEF RunningState, Unsettled
  <2> QED BY <1>1, <1>2, <2>2, <2>3, SlotWrite
<1>7. CASE Healthy(w, result)
  <2> DEFINE more == IF result = "stored" THEN Notified(k) ELSE {}
  <2>1. /\ UpdateStatus(w, "stable", worker[w].generation, result)
        /\ Wrote(w, "stable", worker[w].generation, result, "exit")
        /\ queue' = queue \cup more /\ processing' = processing /\ listed' = listed
    BY <1>7 DEF Healthy, k
  <2>2. "stable" \in RunningState /\ more \in SUBSET Installations
    BY <1>3 DEF RunningState
  <2> HIDE DEF more
  <2> QED BY <1>1, <2>1, <2>2, SlotWrite
<1>8. CASE HealthyWriteFails(w, result)
  <2> DEFINE more == IF result = "lost" THEN Notified(k) ELSE {}
  <2>1. /\ UpdateStatus(w, "stable", worker[w].generation, result)
        /\ Wrote(w, "stable", worker[w].generation, result, "report")
        /\ queue' = queue \cup more /\ processing' = processing /\ listed' = listed
    BY <1>8 DEF HealthyWriteFails, k
  <2>2. "stable" \in RunningState /\ more \in SUBSET Installations
    BY <1>3 DEF RunningState
  <2> HIDE DEF more
  <2> QED BY <1>1, <2>1, <2>2, SlotWrite
<1> QED BY <1>4, <1>5, <1>6, <1>7, <1>8

(* The steps around updateSpec: the resource keeps its state, the worker   *)
(* its key and its slot.                                                   *)
LEMMA SlotSpecActions ==
    ASSUME SlotInv, NEW w \in Workers,
           SpecUpToDate(w) \/ UpdateSpec(w) \/ UpdateSpecFails(w) \/ UpdateSpecLost(w)
    PROVE  /\ SlotInv' /\ Held' = Held
           /\ \A n \in Installations : /\ Live(n)'.state = Live(n).state
                                       /\ Live(n)'.observed = Live(n).observed
           /\ \A v \in Workers \ {w} : worker'[v] = worker[v]
           /\ worker[w].pc = "spec" /\ worker'[w].pc \in {"work", "report"}
           /\ worker'[w].key = worker[w].key
           /\ worker'[w].slot = worker[w].slot
           /\ worker'[w].current => worker[w].current
<1> DEFINE k == worker[w].key
           v1 == NextGeneration(Live(k))
           r1 == [worker[w] EXCEPT !.pc = "work"]
           r2 == [worker[w] EXCEPT !.pc = "report"]
           r3 == [worker[w] EXCEPT !.pc = "work", !.generation = Live(k).generation + 1]
           r4 == [worker[w] EXCEPT !.pc = "report", !.current = FALSE]
<1>1. worker[w].pc = "spec" /\ worker \in [Workers -> Pass] /\ worker[w] \in Pass
  BY DEF SpecUpToDate, UpdateSpec, UpdateSpecFails, UpdateSpecLost, SlotInv, TypeOK
<1>2. k \in Installations
  BY <1>1, BusyKey DEF SlotInv
<1>3. /\ v1 \in Version /\ v1.state = Live(k).state /\ v1.observed = Live(k).observed
  BY <1>2, VersionsTyped, SpecChange DEF SlotInv
<1>4. \A r \in {r1, r2, r3, r4} :
         /\ r \in Pass /\ r.key = k /\ r.slot = worker[w].slot
         /\ r.pc \in {"work", "report"}
         /\ r.current => worker[w].current
  <2>1. Live(k).generation + 1 \in Nat
    BY <1>2, VersionsTyped DEF SlotInv, Version
  <2>2. PICK g \in Nat : g = Live(k).generation + 1
    BY <2>1
  <2>3. r3 = [worker[w] EXCEPT !.pc = "work", !.generation = g]
    BY <2>2
  <2> HIDE DEF r3
  <2>4. r3 \in Pass /\ r3.key = k /\ r3.slot = worker[w].slot /\ r3.pc = "work"
          /\ r3.current = worker[w].current
    BY <1>1, <2>2, <2>3 DEF Pass, PC
  <2>5. \A r \in {r1, r2, r4} :
           /\ r \in Pass /\ r.key = k /\ r.slot = worker[w].slot
           /\ r.pc \in {"work", "report"}
           /\ r.current => worker[w].current
    BY <1>1 DEF Pass, PC
  <2> QED BY <2>4, <2>5
<1>5. Notified(k) \in SUBSET Installations
  BY <1>2, NotifiedType
<1>6. \/ versions' = versions
      \/ versions' = Published(k, v1)
  BY DEF SpecUpToDate, UpdateSpec, UpdateSpecFails, UpdateSpecLost
<1>7. /\ processing' = processing /\ listed' = listed
      /\ queue' \in {queue, queue \cup Notified(k)}
  BY DEF SpecUpToDate, UpdateSpec, UpdateSpecFails, UpdateSpecLost
<1>8. PICK r \in {r1, r2, r3, r4} : worker' = [worker EXCEPT ![w] = r]
  <2>1. CASE SpecUpToDate(w)
    <3>1. worker' = [worker EXCEPT ![w] = r1]
      BY <1>1, <2>1 DEF SpecUpToDate, Goto
    <3> QED BY <3>1
  <2>2. CASE UpdateSpecFails(w)
    <3>1. worker' = [worker EXCEPT ![w] = r2]
      BY <1>1, <2>2 DEF UpdateSpecFails, Goto
    <3> QED BY <3>1
  <2>3. CASE UpdateSpec(w)
    <3>1. worker' = [worker EXCEPT ![w] = r3]
      BY <1>1, <2>3 DEF UpdateSpec
    <3> QED BY <3>1
  <2>4. CASE UpdateSpecLost(w)
    <3>1. worker' = [worker EXCEPT ![w] = r4]
      BY <1>1, <2>4 DEF UpdateSpecLost
    <3> QED BY <3>1
  <2> QED BY <2>1, <2>2, <2>3, <2>4
<1> HIDE DEF r1, r2, r3, r4, v1, k
<1>9. Bookkeeping' /\ Held' = Held
  BY <1>1, <1>4, <1>7, <1>8, PassStep DEF Bookkeeping, k
<1>10. /\ VersionsOK'
       /\ \A n \in Installations : /\ Live(n)'.state = Live(n).state
                                   /\ Live(n)'.observed = Live(n).observed
  <2>1. CASE versions' = versions
    BY <2>1 DEF VersionsOK, SlotInv, TypeOK, Live
  <2>2. CASE versions' = Published(k, v1)
    BY <1>2, <1>3, <2>2, PublishStep DEF VersionsOK, SlotInv
  <2> QED BY <1>6, <2>1, <2>2
<1>11. SlotInv'
  BY <1>5, <1>7, <1>9, <1>10 DEF SlotInv, TypeOK, VersionsOK, Bookkeeping
<1>12. /\ worker'[w] = r
       /\ \A v \in Workers \ {w} : worker'[v] = worker[v]
  BY <1>1, <1>8
<1> QED BY <1>1, <1>4, <1>9, <1>10, <1>11, <1>12 DEF k

(* A user's write outdates the local copies of the resource, nothing else. *)
LEMMA SlotUserWrites ==
    ASSUME SlotInv, NEW m \in Installations, NEW v \in Version, UserWrites(m, v)
    PROVE  /\ SlotInv' /\ Held' = Held
           /\ \A n \in Installations : Live(n)' = IF n = m THEN v ELSE Live(n)
           /\ \A w \in Workers :
                 /\ worker'[w].pc = worker[w].pc /\ worker'[w].key = worker[w].key
                 /\ worker'[w].slot = worker[w].slot
                 /\ worker'[w].current => worker[w].current /\ worker[w].key # m
<1>1. worker \in [Workers -> Pass] /\ worker' = Outdated(m)
  BY DEF UserWrites, SlotInv, TypeOK
<1>2. worker' \in [Workers -> Pass]
  BY <1>1 DEF Outdated, Pass
<1>3. \A w \in Workers :
         /\ worker'[w].pc = worker[w].pc /\ worker'[w].key = worker[w].key
         /\ worker'[w].slot = worker[w].slot
         /\ worker'[w].current => worker[w].current /\ worker[w].key # m
  BY <1>1 DEF Outdated, Pass
<1>4. BusyKeyed' /\ KeysDistinct' /\ SlotShape' /\ OneListing'
  BY <1>3 DEF SlotInv, BusyKeyed, KeysDistinct, SlotShape, OneListing
<1>5. Held' = Held
  BY <1>3, SameHeld
<1>6. SlotAccounting'
  BY <1>5 DEF SlotInv, SlotAccounting, UserWrites
<1>7. versions' = Published(m, v)
  BY DEF UserWrites
<1>8. VersionsOK' /\ \A n \in Installations : Live(n)' = IF n = m THEN v ELSE Live(n)
  BY <1>7, PublishStep DEF VersionsOK, SlotInv
<1>9. queue' \subseteq Installations /\ processing' \in Nat /\ listed' \subseteq Installations
  BY NotifiedType DEF UserWrites, SlotInv, TypeOK
<1>10. SlotInv'
  BY <1>2, <1>4, <1>6, <1>8, <1>9 DEF SlotInv, TypeOK, VersionsOK
<1> QED BY <1>3, <1>5, <1>8, <1>10

LEMMA SlotUser ==
    ASSUME SlotInv, NEW m \in Installations, CreateCR(m) \/ EditCR(m) \/ DeleteCR(m)
    PROVE  \E v \in Version : /\ UserWrites(m, v)
                              /\ v.state \in Unsettled => v.state = Live(m).state
<1>1. Live(m) \in Version
  BY VersionsTyped DEF SlotInv
<1>2. CASE CreateCR(m)
  <2>1. Created \in Version /\ Created.state \notin Unsettled
    BY DEF Created, Version, RunningState, Unsettled
  <2> QED BY <1>2, <2>1 DEF CreateCR
<1>3. CASE EditCR(m)
  <2> DEFINE v == NextGeneration(Live(m))
  <2>1. v \in Version /\ v.state = Live(m).state
    BY <1>1, SpecChange
  <2> QED BY <1>3, <2>1 DEF EditCR
<1>4. CASE DeleteCR(m)
  <2>1. Absent \in Version /\ Absent.state \notin Unsettled
    BY DEF Absent, Version, RunningState, Unsettled
  <2> QED BY <1>4, <2>1 DEF DeleteCR
<1> QED BY <1>2, <1>3, <1>4

(* The informer and the queue leave the resources and the workers alone.   *)
LEMMA SlotQueueActions ==
    ASSUME SlotInv, NEW m \in Installations, PickAbsent(m) \/ OwnedEvent(m) \/ Deliver(m)
    PROVE  /\ SlotInv' /\ Held' = Held /\ worker' = worker /\ listed' = listed
           /\ \A n \in Installations : Live(n)' = Live(n)
<1>1. /\ worker' = worker /\ processing' = processing /\ listed' = listed
      /\ queue' \subseteq Installations
  BY DEF PickAbsent, OwnedEvent, Deliver, SlotInv, TypeOK
<1>2. Held' = Held /\ Bookkeeping'
  BY <1>1 DEF Held, Bookkeeping, SlotInv, TypeOK, BusyKeyed, KeysDistinct, SlotShape,
              OneListing, SlotAccounting
<1>3. VersionsOK' /\ \A n \in Installations : Live(n)' = Live(n)
  <2>1. CASE PickAbsent(m) \/ OwnedEvent(m)
    <3>1. versions' = versions
      BY <2>1 DEF PickAbsent, OwnedEvent
    <3> QED BY <3>1 DEF VersionsOK, SlotInv, TypeOK, Live
  <2>2. CASE Deliver(m)
    <3> DEFINE old == versions[m]
    <3>1. old \in Seq(Version) /\ Len(old) \in 1 .. CacheLag + 1 /\ Len(old) > 1
      BY <2>2 DEF Deliver, SlotInv, TypeOK
    <3>2. /\ Tail(old) \in Seq(Version) /\ Len(Tail(old)) = Len(old) - 1
          /\ Tail(old)[Len(old) - 1] = old[Len(old)]
      BY <3>1
    <3>3. versions' = [versions EXCEPT ![m] = Tail(old)]
      BY <2>2 DEF Deliver, SlotInv, TypeOK
    <3>4. \A n \in Installations : versions'[n] = IF n = m THEN Tail(old) ELSE versions[n]
      BY <3>3 DEF SlotInv, TypeOK
    <3>5. versions' \in [Installations -> Seq(Version)]
      BY <3>2, <3>3 DEF SlotInv, TypeOK
    <3>6. Len(old) - 1 \in 1 .. CacheLag + 1
      BY <3>1, ConstantsAssumption
    <3>7. \A n \in Installations : Len(versions'[n]) \in 1 .. CacheLag + 1
      BY <3>2, <3>4, <3>6 DEF SlotInv, TypeOK
    <3>8. \A n \in Installations : Live(n)' = Live(n)
      BY <3>2, <3>4 DEF Live
    <3> QED BY <3>5, <3>7, <3>8 DEF VersionsOK
  <2> QED BY <2>1, <2>2
<1> QED BY <1>1, <1>2, <1>3 DEF SlotInv, TypeOK, VersionsOK, Bookkeeping

(* A new process has no pass and no slot.                                  *)
LEMMA SlotRestart ==
    ASSUME SlotInv, Restart
    PROVE  /\ SlotInv' /\ Held' = {}
           /\ \A n \in Installations : Live(n)' = Live(n)
           /\ \A w \in Workers : worker'[w].pc = "idle"
<1>1. worker' = [w \in Workers |-> Idle] /\ processing' = 0 /\ listed' = {}
        /\ queue' \subseteq Installations
  BY DEF Restart
<1>2. Idle \in Pass /\ Idle.slot = FALSE /\ Idle.key = NoInstallation /\ Idle.pc = "idle"
  BY DEF Idle, Pass, PC
<1>3. /\ worker' \in [Workers -> Pass]
      /\ \A w \in Workers : worker'[w] = Idle
  BY <1>1, <1>2
<1>4. BusyKeyed' /\ KeysDistinct' /\ SlotShape' /\ OneListing'
  BY <1>2, <1>3 DEF BusyKeyed, KeysDistinct, SlotShape, OneListing
<1>5. Held' = {}
  BY <1>2, <1>3 DEF Held
<1>6. SlotAccounting'
  BY <1>1, <1>5, FS_EmptySet DEF SlotAccounting
<1>7. \A n \in Installations : versions'[n] = <<Live(n)>> /\ Live(n) \in Version
  BY VersionsTyped DEF Restart, SlotInv
<1>8. versions' \in [Installations -> Seq(Version)]
  BY <1>7 DEF Restart
<1>9. /\ \A n \in Installations : Live(n)' = Live(n)
      /\ \A n \in Installations : Len(versions'[n]) \in 1 .. CacheLag + 1
  <2> SUFFICES ASSUME NEW n \in Installations
               PROVE  Live(n)' = Live(n) /\ Len(versions'[n]) \in 1 .. CacheLag + 1
    OBVIOUS
  <2>1. Len(versions'[n]) = 1 /\ versions'[n][1] = Live(n)
    BY <1>7
  <2>2. Live(n)' = Live(n)
    BY <2>1 DEF Live
  <2> QED BY <2>1, <2>2, ConstantsAssumption
<1> QED BY <1>1, <1>2, <1>3, <1>4, <1>5, <1>6, <1>8, <1>9 DEF SlotInv, TypeOK

LEMMA SlotInit == Init => SlotInv
<1> SUFFICES ASSUME Init PROVE SlotInv
  OBVIOUS
<1>1. Idle \in Pass /\ Idle.slot = FALSE /\ Idle.key = NoInstallation /\ Idle.pc = "idle"
  BY DEF Idle, Pass, PC
<1>2. /\ worker \in [Workers -> Pass]
      /\ \A w \in Workers : worker[w] = Idle
  BY <1>1 DEF Init
<1>3. BusyKeyed /\ KeysDistinct /\ SlotShape /\ OneListing
  BY <1>1, <1>2 DEF BusyKeyed, KeysDistinct, SlotShape, OneListing
<1>4. Held = {}
  BY <1>1, <1>2 DEF Held
<1>5. SlotAccounting
  BY <1>4, FS_EmptySet DEF SlotAccounting, Init
<1>6. Absent \in Version
  BY DEF Absent, Version
<1>7. VersionsOK
  BY <1>6, ConstantsAssumption DEF VersionsOK, Init
<1> QED BY <1>2, <1>3, <1>5, <1>7 DEF SlotInv, TypeOK, VersionsOK, Init

LEMMA SlotStep == SlotInv /\ [Next]_vars => SlotInv'
<1> SUFFICES ASSUME SlotInv, [Next]_vars PROVE SlotInv'
  OBVIOUS
<1>1. ASSUME NEW w \in Workers, Progress(w) \/ Setback(w) PROVE SlotInv'
  <2>1. CASE \E m \in Installations : Pick(w, m)
    BY <2>1, SlotPick
  <2>2. CASE LockAndList(w)
    BY <2>2, SlotLockAndList
  <2>3. CASE Admit(w)
    BY <2>3, SlotAdmit
  <2>4. CASE Reject(w) \/ ListFails(w)
    BY <2>4, SlotTurned DEF Reject, ListFails
  <2>5. CASE \E r : \/ MarkReconciling(w, r)
                    \/ Report(w, r)
                    \/ \E s \in Unsettled : NotHealthy(w, s, r)
                    \/ Healthy(w, r)
                    \/ HealthyWriteFails(w, r)
    BY <2>5, SlotStatusActions
  <2>6. CASE SpecUpToDate(w) \/ UpdateSpec(w) \/ UpdateSpecFails(w) \/ UpdateSpecLost(w)
    BY <2>6, SlotSpecActions
  <2>7. CASE Finish(w)
    BY <2>7, SlotFinish
  <2> QED BY <1>1, <2>1, <2>2, <2>3, <2>4, <2>5, <2>6, <2>7 DEF Progress, Setback
<1>2. ASSUME NEW m \in Installations, CreateCR(m) \/ EditCR(m) \/ DeleteCR(m) PROVE SlotInv'
  BY <1>2, SlotUser, SlotUserWrites
<1>3. ASSUME NEW m \in Installations, PickAbsent(m) \/ OwnedEvent(m) \/ Deliver(m)
      PROVE  SlotInv'
  BY <1>3, SlotQueueActions
<1>4. CASE Restart
  BY <1>4, SlotRestart
<1>5. CASE UNCHANGED vars
  BY <1>5 DEF vars, SlotInv, TypeOK, BusyKeyed, KeysDistinct, SlotShape, OneListing,
              SlotAccounting, Held
<1> QED BY <1>1, <1>2, <1>3, <1>4, <1>5 DEF Next, Ordinary, Surroundings

(* Type correctness of the reconciler's model, for every cache lag.        *)
THEOREM TypeCorrect == Spec => []TypeOK
<1>1. SlotInv => TypeOK
  BY DEF SlotInv
<1> QED BY <1>1, SlotInit, SlotStep, PTL DEF Spec

(* The rate limiter's counter is the number of admitted passes in every    *)
(* behaviour, whatever fails and however stale the cache is.               *)
THEOREM SlotsAccounted == Spec => []SlotAccounting
<1>1. SlotInv => SlotAccounting
  BY DEF SlotInv
<1> QED BY <1>1, SlotInit, SlotStep, PTL DEF Spec

-----------------------------------------------------------------------------
(* The rate limit, for reads that are not stale (CacheLag = 0).            *)

(* The installations the limit is about.                                   *)
Inside == Reconciling \cup Held

(* What the holder of the mutex listed stays an upper bound: whatever      *)
(* starts reconciling after the List holds a slot, and no slot is given    *)
(* back while the mutex is taken.                                          *)
ListingCovers ==
    \A w \in Workers : worker[w].pc = "listed" => Reconciling \subseteq listed \cup Held

(* A pass that skipped the limiter still works on an installation that is  *)
(* reconciling or ready, unless its next write is bound to be refused.     *)
SlotlessUnsettled ==
    \A w \in Workers :
        /\ worker[w].pc \in {"spec", "work", "report"}
        /\ ~worker[w].slot
        /\ worker[w].current
        => worker[w].key \in Reconciling

LimitInv ==
    /\ SlotInv
    /\ ListingCovers
    /\ SlotlessUnsettled
    /\ LimitRespected

LEMMA InsideFinite ==
    ASSUME SlotInv
    PROVE  Inside \subseteq Installations /\ IsFiniteSet(Inside) /\ Cardinality(Inside) \in Nat
<1>1. Inside \subseteq Installations
  BY HeldFinite DEF Inside, Reconciling
<1> QED BY <1>1, ConstantsAssumption, FS_Subset, FS_CardinalityType

(* A step after which nobody new is inside keeps the limit.                *)
LEMMA NobodyEnters ==
    ASSUME SlotInv, LimitRespected, Inside' \subseteq Inside
    PROVE  LimitRespected'
<1>1. IsFiniteSet(Inside) /\ Cardinality(Inside) \in Nat /\ Cardinality(Inside) <= MaxReconciling
  BY InsideFinite DEF LimitRespected, Inside
<1>2. IsFiniteSet(Inside') /\ Cardinality(Inside') <= Cardinality(Inside)
  BY <1>1, FS_Subset
<1>3. Cardinality(Inside') \in Nat
  BY <1>2, FS_CardinalityType
<1>4. Cardinality(Inside') <= MaxReconciling
  BY <1>1, <1>2, <1>3, ConstantsAssumption
<1> QED BY <1>4 DEF LimitRespected, Inside

(* A step that leaves the mutex alone keeps what was listed valid.         *)
LEMMA ListingKept ==
    ASSUME ListingCovers, Reconciling' \subseteq Reconciling \cup Held,
           Held \subseteq Held', listed' = listed,
           \A v \in Workers : worker'[v].pc = "listed" => worker[v].pc = "listed"
    PROVE  ListingCovers'
  BY DEF ListingCovers

(* A status write inside a pass: only an installation already inside can   *)
(* become reconciling or ready through it.                                 *)
LEMMA LimitWrite ==
    ASSUME LimitInv, NEW w \in Workers, worker[w].pc \in {"mark", "spec", "work", "report"},
           NEW s \in RunningState, NEW o \in Nat, NEW result,
           NEW label \in {"spec", "work", "report", "exit"},
           UpdateStatus(w, s, o, result), Wrote(w, s, o, result, label),
           label # "exit" => \/ worker[w].slot
                             \/ worker[w].pc # "mark" /\ result \in {"rejected", "lost"},
           processing' = processing, listed' = listed
    PROVE  ListingCovers' /\ SlotlessUnsettled' /\ LimitRespected' /\ Inside' \subseteq Inside
<1> DEFINE k == worker[w].key
<1> USE DEF LimitInv
<1>1. worker[w].pc # "idle" /\ worker \in [Workers -> Pass]
  BY DEF SlotInv, TypeOK
<1>2. /\ k \in Installations /\ Held' = Held
      /\ \A n \in Installations : Live(n)' =
             IF n = k /\ result \in {"stored", "lost"}
             THEN WithStatus(Live(n), s, o) ELSE Live(n)
      /\ \A v \in Workers \ {w} : worker'[v] = worker[v]
      /\ worker'[w].pc = label /\ worker'[w].key = k /\ worker'[w].slot = worker[w].slot
      /\ worker'[w].current = (worker[w].current /\ result # "lost")
  BY <1>1, WriteStep
<1>3. result \in {"stored", "lost"} => worker[w].current
  BY DEF UpdateStatus
<1> HIDE DEF k
<1>4. result \in {"stored", "lost"} => k \in Reconciling \cup Held
  <2>1. CASE worker[w].slot
    BY <2>1 DEF Held, k
  <2>2. CASE ~worker[w].slot
    BY <1>3, <2>2 DEF SlotlessUnsettled, SlotInv, SlotShape, k
  <2> QED BY <2>1, <2>2
<1>5. Reconciling' \subseteq Reconciling \cup Held
  BY <1>2, <1>4 DEF Reconciling
<1>6. Inside' \subseteq Inside
  BY <1>2, <1>5 DEF Inside
<1>7. ListingCovers'
  <2>1. \A v \in Workers : worker'[v].pc = "listed" => worker[v].pc = "listed"
    BY <1>2
  <2> QED BY <1>2, <1>5, <2>1, ListingKept
<1>8. SlotlessUnsettled'
  <2> SUFFICES ASSUME NEW v \in Workers, worker'[v].pc \in {"spec", "work", "report"},
                      ~worker'[v].slot, worker'[v].current
               PROVE  (worker[v].key \in Reconciling)'
    BY DEF SlotlessUnsettled
  <2>1. CASE v = w
    <3>1. result = "rejected" /\ worker[w].pc # "mark" /\ worker[w].current /\ ~worker[w].slot
      BY <1>2, <2>1
    <3>2. k \in Reconciling
      BY <3>1 DEF SlotlessUnsettled, k
    <3> QED BY <1>2, <2>1, <3>1, <3>2 DEF Reconciling
  <2>2. CASE v # w
    <3>1. worker'[v] = worker[v]
      BY <1>2, <2>2
    <3>2. worker[v].key \in Reconciling
      BY <3>1 DEF SlotlessUnsettled
    <3>3. worker[v].key # k
      BY <1>2, <2>2, ConstantsAssumption DEF SlotInv, KeysDistinct, k
    <3> QED BY <1>2, <3>1, <3>2, <3>3 DEF Reconciling
  <2> QED BY <2>1, <2>2
<1> QED BY <1>6, <1>7, <1>8, NobodyEnters

(* What every action but Admit does to the parts of LimitInv.              *)
LimitKept == ListingCovers' /\ SlotlessUnsettled' /\ LimitRespected' /\ Inside' \subseteq Inside

LEMMA LimitStatusActions ==
    ASSUME LimitInv, NEW w \in Workers, NEW result,
           \/ MarkReconciling(w, result)
           \/ Report(w, result)
           \/ \E s \in Unsettled : NotHealthy(w, s, result)
           \/ Healthy(w, result)
           \/ HealthyWriteFails(w, result)
    PROVE  LimitKept
<1> USE DEF LimitKept
<1>1. /\ "reconciling" \in RunningState /\ "stable" \in RunningState
      /\ Unsettled \subseteq RunningState
      /\ worker[w].generation \in Nat /\ worker[w].reported \in Nat
  BY DEF RunningState, Unsettled, LimitInv, SlotInv, TypeOK, Pass
<1>2. CASE MarkReconciling(w, result)
  <2> DEFINE label == IF result = "stored" THEN "spec" ELSE "exit"
  <2>1. /\ UpdateStatus(w, "reconciling", worker[w].reported, result)
        /\ Wrote(w, "reconciling", worker[w].reported, result, label)
        /\ processing' = processing /\ listed' = listed /\ worker[w].pc = "mark"
    BY <1>2 DEF MarkReconciling
  <2>2. label \in {"spec", "work", "report", "exit"} /\ worker[w].slot
    BY <2>1 DEF LimitInv, SlotInv, SlotShape
  <2> HIDE DEF label
  <2> QED BY <1>1, <2>1, <2>2, LimitWrite
<1>3. CASE Report(w, result)
  <2>1. /\ UpdateStatus(w, "reconciling", worker[w].reported, result)
        /\ Wrote(w, "reconciling", worker[w].reported, result, "exit")
        /\ processing' = processing /\ listed' = listed
        /\ worker[w].pc \in {"spec", "work", "report"}
    BY <1>3 DEF Report
  <2> QED BY <1>1, <2>1, LimitWrite
<1>4. CASE \E s \in Unsettled : NotHealthy(w, s, result)
  <2>1. PICK s \in Unsettled : NotHealthy(w, s, result)
    BY <1>4
  <2>2. /\ UpdateStatus(w, s, worker[w].generation, result)
        /\ Wrote(w, s, worker[w].generation, result, "exit")
        /\ processing' = processing /\ listed' = listed /\ worker[w].pc = "work"
    BY <2>1 DEF NotHealthy
  <2> QED BY <1>1, <2>2, LimitWrite
<1>5. CASE Healthy(w, result)
  <2>1. /\ UpdateStatus(w, "stable", worker[w].generation, result)
        /\ Wrote(w, "stable", worker[w].generation, result, "exit")
        /\ processing' = processing /\ listed' = listed /\ worker[w].pc = "work"
    BY <1>5 DEF Healthy
  <2> QED BY <1>1, <2>1, LimitWrite
<1>6. CASE HealthyWriteFails(w, result)
  <2>1. /\ UpdateStatus(w, "stable", worker[w].generation, result)
        /\ Wrote(w, "stable", worker[w].generation, result, "report")
        /\ processing' = processing /\ listed' = listed /\ worker[w].pc = "work"
        /\ result \in {"rejected", "lost"}
    BY <1>6 DEF HealthyWriteFails
  <2> QED BY <1>1, <2>1, LimitWrite
<1> QED BY <1>2, <1>3, <1>4, <1>5, <1>6

LEMMA LimitSpecActions ==
    ASSUME LimitInv, NEW w \in Workers,
           SpecUpToDate(w) \/ UpdateSpec(w) \/ UpdateSpecFails(w) \/ UpdateSpecLost(w)
    PROVE  LimitKept
<1>1. /\ Held' = Held
      /\ \A n \in Installations : Live(n)'.state = Live(n).state
      /\ \A v \in Workers \ {w} : worker'[v] = worker[v]
      /\ worker[w].pc = "spec" /\ worker'[w].pc \in {"work", "report"}
      /\ worker'[w].key = worker[w].key /\ worker'[w].slot = worker[w].slot
      /\ worker'[w].current => worker[w].current
  BY SlotSpecActions DEF LimitInv
<1>2. listed' = listed
  BY DEF SpecUpToDate, UpdateSpec, UpdateSpecFails, UpdateSpecLost
<1>3. Reconciling' = Reconciling
  BY <1>1 DEF Reconciling
<1>4. ListingCovers'
  BY <1>1, <1>2, <1>3, ListingKept DEF LimitInv
<1>5. SlotlessUnsettled'
  BY <1>1, <1>3 DEF LimitInv, SlotlessUnsettled
<1> QED BY <1>1, <1>3, <1>4, <1>5, NobodyEnters DEF LimitKept, LimitInv, Inside

LEMMA LimitPick ==
    ASSUME CacheLag = 0, LimitInv, NEW w \in Workers, NEW m \in Installations, Pick(w, m)
    PROVE  LimitKept
<1>1. Held' = Held /\ worker \in [Workers -> Pass]
  BY SlotPick DEF LimitInv, SlotInv, TypeOK
<1>2. versions' = versions /\ listed' = listed
  BY DEF Pick
<1>3. Reconciling' = Reconciling
  BY <1>2 DEF Reconciling, Live
<1>4. Cached(m) = Live(m)
  BY DEF LimitInv, SlotInv, TypeOK, Cached, Live
<1>5. /\ worker'[w].pc = IF Live(m).state \in Unsettled THEN "spec" ELSE "limit"
      /\ worker'[w].key = m
      /\ \A v \in Workers \ {w} : worker'[v] = worker[v]
  BY <1>1, <1>4 DEF Pick
<1>6. ListingCovers'
  BY <1>1, <1>2, <1>3, <1>5, ListingKept DEF LimitInv
<1>7. SlotlessUnsettled'
  <2>1. worker'[w].pc \in {"spec", "work", "report"} => m \in Reconciling
    BY <1>5 DEF Reconciling
  <2> QED BY <1>3, <1>5, <2>1 DEF LimitInv, SlotlessUnsettled
<1> QED BY <1>1, <1>3, <1>6, <1>7, NobodyEnters DEF LimitKept, LimitInv, Inside

LEMMA LimitLockAndList ==
    ASSUME CacheLag = 0, LimitInv, NEW w \in Workers, LockAndList(w)
    PROVE  LimitKept
<1>1. Held' = Held /\ worker \in [Workers -> Pass]
  BY SlotLockAndList DEF LimitInv, SlotInv, TypeOK
<1>2. versions' = versions
  BY DEF LockAndList
<1>3. Reconciling' = Reconciling
  BY <1>2 DEF Reconciling, Live
<1>4. \A m \in Installations : Cached(m) = Live(m)
  BY DEF LimitInv, SlotInv, TypeOK, Cached, Live
<1>5. listed' = Reconciling
  BY <1>4 DEF LockAndList, Reconciling
<1>6. worker'[w].pc = "listed" /\ \A v \in Workers \ {w} : worker'[v] = worker[v]
  BY <1>1 DEF LockAndList, Goto, Pass
<1>7. ListingCovers'
  BY <1>3, <1>5 DEF ListingCovers
<1>8. SlotlessUnsettled'
  BY <1>3, <1>6 DEF LimitInv, SlotlessUnsettled
<1> QED BY <1>1, <1>3, <1>7, <1>8, NobodyEnters DEF LimitKept, LimitInv, Inside

LEMMA LimitTurned ==
    ASSUME LimitInv, NEW w \in Workers, Reject(w) \/ ListFails(w)
    PROVE  LimitKept
<1>1. worker[w].pc \in {"limit", "listed"} /\ Turned(w)
  BY DEF Reject, ListFails
<1>2. Held' = Held /\ worker \in [Workers -> Pass]
  BY <1>1, SlotTurned DEF LimitInv, SlotInv, TypeOK
<1>3. Reconciling' = Reconciling
  BY <1>1 DEF Turned, Reconciling, Live
<1>4. worker'[w].pc = "idle" /\ \A v \in Workers \ {w} : worker'[v] = worker[v]
  BY <1>1, <1>2 DEF Turned, Idle
<1>5. \A v \in Workers \ {w} : worker[v].pc # "listed"
  BY DEF Reject, ListFails, MutexFree, LimitInv, SlotInv, OneListing
<1>6. ListingCovers'
  BY <1>4, <1>5 DEF ListingCovers
<1>7. SlotlessUnsettled'
  BY <1>3, <1>4 DEF LimitInv, SlotlessUnsettled
<1> QED BY <1>2, <1>3, <1>6, <1>7, NobodyEnters DEF LimitKept, LimitInv, Inside

LEMMA LimitFinish ==
    ASSUME LimitInv, NEW w \in Workers, Finish(w)
    PROVE  LimitKept
<1>1. Held' = IF worker[w].slot THEN Held \ {worker[w].key} ELSE Held
  BY FinishHeld DEF LimitInv
<1>2. Reconciling' = Reconciling /\ listed' = listed
  BY DEF Finish, Reconciling, Live
<1>3. worker'[w].pc = "idle" /\ \A v \in Workers \ {w} : worker'[v] = worker[v]
  BY DEF Finish, Idle, LimitInv, SlotInv, TypeOK
<1>4. ListingCovers'
  <2>1. CASE worker[w].slot
    BY <1>3, <2>1 DEF ListingCovers, Finish, MutexFree
  <2>2. CASE ~worker[w].slot
    BY <1>1, <1>2, <1>3, <2>2, ListingKept DEF LimitInv
  <2> QED BY <2>1, <2>2
<1>5. SlotlessUnsettled'
  BY <1>2, <1>3 DEF LimitInv, SlotlessUnsettled
<1>6. Inside' \subseteq Inside
  BY <1>1, <1>2 DEF Inside
<1> QED BY <1>4, <1>5, <1>6, NobodyEnters DEF LimitKept, LimitInv

LEMMA LimitUser ==
    ASSUME LimitInv, NEW m \in Installations, CreateCR(m) \/ EditCR(m) \/ DeleteCR(m)
    PROVE  LimitKept
<1>1. PICK v \in Version : UserWrites(m, v) /\ (v.state \in Unsettled => v.state = Live(m).state)
  BY SlotUser DEF LimitInv
<1>2. /\ Held' = Held
      /\ \A n \in Installations : Live(n)' = IF n = m THEN v ELSE Live(n)
      /\ \A w \in Workers :
            /\ worker'[w].pc = worker[w].pc /\ worker'[w].key = worker[w].key
            /\ worker'[w].slot = worker[w].slot
            /\ worker'[w].current => worker[w].current /\ worker[w].key # m
  BY <1>1, SlotUserWrites DEF LimitInv
<1>3. listed' = listed
  BY <1>1 DEF UserWrites
<1>4. Reconciling' \subseteq Reconciling /\ \A n \in Reconciling : n # m => n \in Reconciling'
  BY <1>1, <1>2 DEF Reconciling
<1>5. ListingCovers'
  BY <1>2, <1>3, <1>4, ListingKept DEF LimitInv
<1>6. SlotlessUnsettled'
  BY <1>2, <1>4 DEF LimitInv, SlotlessUnsettled
<1> QED BY <1>2, <1>4, <1>5, <1>6, NobodyEnters DEF LimitKept, LimitInv, Inside

LEMMA LimitQueueActions ==
    ASSUME LimitInv, NEW m \in Installations, PickAbsent(m) \/ OwnedEvent(m) \/ Deliver(m)
    PROVE  LimitKept
<1>1. /\ Held' = Held /\ worker' = worker /\ listed' = listed
      /\ \A n \in Installations : Live(n)' = Live(n)
  BY SlotQueueActions DEF LimitInv
<1>2. Reconciling' = Reconciling
  BY <1>1 DEF Reconciling
<1> QED BY <1>1, <1>2, NobodyEnters
        DEF LimitKept, LimitInv, Inside, ListingCovers, SlotlessUnsettled

LEMMA LimitRestart ==
    ASSUME LimitInv, Restart
    PROVE  LimitKept
<1>1. /\ Held' = {}
      /\ \A n \in Installations : Live(n)' = Live(n)
      /\ \A w \in Workers : worker'[w].pc = "idle"
  BY SlotRestart DEF LimitInv
<1>2. Reconciling' = Reconciling
  BY <1>1 DEF Reconciling
<1> QED BY <1>1, <1>2, NobodyEnters
        DEF LimitKept, LimitInv, Inside, ListingCovers, SlotlessUnsettled

(* The one step by which an installation gets inside: there is room for it *)
(* because the listing and the slots cover everything that is inside.      *)
LEMMA LimitAdmit ==
    ASSUME LimitInv, NEW w \in Workers, Admit(w)
    PROVE  /\ ListingCovers' /\ SlotlessUnsettled' /\ LimitRespected'
           /\ Inside' = Inside \cup {worker[w].key}
           /\ Cardinality(Inside) < MaxReconciling
<1> DEFINE k == worker[w].key
<1>1. Held' = Held \cup {k} /\ k \in Installations
  BY AdmitHeld DEF LimitInv
<1>2. Reconciling' = Reconciling
  BY DEF Admit, Reconciling, Live
<1>3. Inside' = Inside \cup {k}
  BY <1>1, <1>2 DEF Inside
<1>4. /\ worker[w].pc = "listed" /\ ~LimitReached
      /\ worker'[w].pc # "listed" /\ worker'[w].slot
      /\ \A v \in Workers \ {w} : worker'[v] = worker[v]
  BY DEF Admit, LimitInv, SlotInv, TypeOK, Pass
<1>5. Cardinality(Inside) < MaxReconciling
  <2>1. Inside \subseteq listed \cup Held
    BY <1>4 DEF LimitInv, ListingCovers, Inside
  <2>2. listed \subseteq Installations
    BY DEF LimitInv, SlotInv, TypeOK
  <2>3. IsFiniteSet(listed) /\ Cardinality(listed) \in Nat
    BY <2>2, ConstantsAssumption, FS_Subset, FS_CardinalityType
  <2>4. IsFiniteSet(Held) /\ Cardinality(Held) \in Nat
    BY HeldFinite DEF LimitInv
  <2>5. listed \cap Held \subseteq Held
    OBVIOUS
  <2>6. IsFiniteSet(listed \cap Held) /\ Cardinality(listed \cap Held) \in Nat
    BY <2>4, <2>5, FS_Subset, FS_CardinalityType
  <2>7. /\ IsFiniteSet(listed \cup Held)
        /\ Cardinality(listed \cup Held) =
              Cardinality(listed) + Cardinality(Held) - Cardinality(listed \cap Held)
    BY <2>3, <2>4, FS_Union
  <2>8. Cardinality(Inside) <= Cardinality(listed \cup Held) /\ Cardinality(Inside) \in Nat
    BY <2>1, <2>7, FS_Subset, InsideFinite DEF LimitInv
  <2>9. Cardinality(listed) + Cardinality(Held) < MaxReconciling
    BY <1>4, <2>3, <2>4, ConstantsAssumption DEF LimitReached, LimitInv, SlotInv, SlotAccounting
  <2> QED BY <2>3, <2>4, <2>6, <2>7, <2>8, <2>9, ConstantsAssumption
<1>6. LimitRespected'
  <2>1. IsFiniteSet(Inside) /\ Cardinality(Inside) \in Nat
    BY InsideFinite DEF LimitInv
  <2> HIDE DEF k
  <2>2. Cardinality(Inside \cup {k}) \in {Cardinality(Inside), Cardinality(Inside) + 1}
    BY <2>1, FS_AddElement
  <2>3. IsFiniteSet(Inside \cup {k}) /\ Cardinality(Inside \cup {k}) \in Nat
    BY <2>1, FS_AddElement, FS_CardinalityType
  <2>4. Cardinality(Inside') <= MaxReconciling
    BY <1>3, <1>5, <2>1, <2>2, <2>3, ConstantsAssumption
  <2> QED BY <2>4 DEF LimitRespected, Inside
<1>7. ListingCovers'
  BY <1>4 DEF LimitInv, SlotInv, OneListing, ListingCovers
<1>8. SlotlessUnsettled'
  BY <1>2, <1>4 DEF LimitInv, SlotlessUnsettled
<1> QED BY <1>3, <1>5, <1>6, <1>7, <1>8

(* Every step keeps LimitInv and lets at most one installation in, only    *)
(* while there is room.                                                    *)
LEMMA LimitStep ==
    ASSUME CacheLag = 0, LimitInv, [Next]_vars
    PROVE  /\ LimitInv'
           /\ \/ Inside' \subseteq Inside
              \/ \E c \in Installations : /\ Inside' = Inside \cup {c}
                                          /\ Cardinality(Inside) < MaxReconciling
<1>1. SlotInv'
  BY SlotStep DEF LimitInv
<1>2. ASSUME NEW w \in Workers, Progress(w) \/ Setback(w), ~Admit(w) PROVE LimitKept
  <2>1. CASE \E m \in Installations : Pick(w, m)
    BY <2>1, LimitPick
  <2>2. CASE LockAndList(w)
    BY <2>2, LimitLockAndList
  <2>3. CASE Reject(w) \/ ListFails(w)
    BY <2>3, LimitTurned
  <2>4. CASE \E r : \/ MarkReconciling(w, r)
                    \/ Report(w, r)
                    \/ \E s \in Unsettled : NotHealthy(w, s, r)
                    \/ Healthy(w, r)
                    \/ HealthyWriteFails(w, r)
    BY <2>4, LimitStatusActions
  <2>5. CASE SpecUpToDate(w) \/ UpdateSpec(w) \/ UpdateSpecFails(w) \/ UpdateSpecLost(w)
    BY <2>5, LimitSpecActions
  <2>6. CASE Finish(w)
    BY <2>6, LimitFinish
  <2> QED BY <1>2, <2>1, <2>2, <2>3, <2>4, <2>5, <2>6 DEF Progress, Setback
<1>3. ASSUME NEW m \in Installations, CreateCR(m) \/ EditCR(m) \/ DeleteCR(m) PROVE LimitKept
  BY <1>3, LimitUser
<1>4. ASSUME NEW m \in Installations, PickAbsent(m) \/ OwnedEvent(m) \/ Deliver(m)
      PROVE  LimitKept
  BY <1>4, LimitQueueActions
<1>5. CASE \E w \in Workers : Admit(w)
  <2>1. PICK w \in Workers : Admit(w)
    BY <1>5
  <2>2. worker[w].key \in Installations
    BY <2>1, AdmitHeld DEF LimitInv
  <2> QED BY <1>1, <2>1, <2>2, LimitAdmit DEF LimitInv
<1>6. CASE UNCHANGED vars
  <2>1. LimitKept
    BY <1>6, NobodyEnters DEF LimitKept, LimitInv, Inside, ListingCovers, SlotlessUnsettled,
          LimitRespected, Reconciling, Held, Live, vars
  <2> QED BY <1>1, <2>1 DEF LimitKept, LimitInv
<1>7. CASE Next /\ ~\E w \in Workers : Admit(w)
  <2>1. LimitKept
    BY <1>2, <1>3, <1>4, <1>7, LimitRestart DEF Next, Ordinary, Surroundings
  <2> QED BY <1>1, <2>1 DEF LimitKept, LimitInv
<1> QED BY <1>5, <1>6, <1>7

LEMMA LimitInit == Init => LimitInv
<1> SUFFICES ASSUME Init PROVE LimitInv
  OBVIOUS
<1>1. SlotInv
  BY SlotInit
<1>2. \A w \in Workers : worker[w].pc = "idle" /\ ~worker[w].slot
  BY DEF Init, Idle
<1>3. Inside = {}
  BY <1>2 DEF Init, Inside, Reconciling, Held, Live, Absent, Unsettled
<1>4. LimitRespected
  BY <1>3, FS_EmptySet, ConstantsAssumption DEF LimitRespected, Inside
<1> QED BY <1>1, <1>2, <1>4 DEF LimitInv, ListingCovers, SlotlessUnsettled

(* The rate limit holds in every behaviour in which the informer cache is  *)
(* up to date, for any number of installations, workers and slots, through *)
(* failed and lost writes, conflicting edits, deletions and restarts.      *)
THEOREM LimitHolds ==
    ASSUME CacheLag = 0
    PROVE  Spec => []LimitRespected
<1>1. LimitInv /\ [Next]_vars => LimitInv'
  BY LimitStep
<1>2. LimitInv => LimitRespected
  BY DEF LimitInv
<1> QED BY <1>1, <1>2, LimitInit, PTL DEF Spec

(* ... and the limiter implements the abstract admission control.          *)
THEOREM LimiterRefines ==
    ASSUME CacheLag = 0
    PROVE  Spec => ImplementsAdmission
<1>1. Init => Limiter!Init
  BY LimitInit, FS_EmptySet DEF Init, Limiter!Init, Reconciling, Held, Live, Absent, Unsettled, Idle
<1>2. LimitInv /\ [Next]_vars => LimitInv'
  BY LimitStep
<1>3. LimitInv /\ [Next]_vars => [Limiter!Next]_(Reconciling \cup Held)
  <2> SUFFICES ASSUME LimitInv, [Next]_vars PROVE [Limiter!Next]_Inside
    BY DEF Inside
  <2>1. CASE Inside' \subseteq Inside
    <3> DEFINE S == Inside \ Inside'
    <3>1. S \in SUBSET Inside /\ Inside' = Inside \ S
      BY <2>1
    <3>2. Inside' = Inside \/ S # {}
      BY <2>1
    <3> HIDE DEF S
    <3> QED BY <3>1, <3>2 DEF Limiter!Next, Limiter!Leave, Inside
  <2>2. CASE \E c \in Installations : /\ Inside' = Inside \cup {c}
                                       /\ Cardinality(Inside) < MaxReconciling
    <3>1. PICK c \in Installations : /\ Inside' = Inside \cup {c}
                                     /\ Cardinality(Inside) < MaxReconciling
      BY <2>2
    <3>2. CASE c \in Inside
      BY <3>1, <3>2
    <3>3. CASE c \notin Inside
      <4>1. Limiter!Cardinality(Inside) = Cardinality(Inside)
        BY DEF Limiter!Cardinality, Cardinality
      <4> QED BY <3>1, <3>3, <4>1 DEF Limiter!Next, Limiter!Enter, Inside
    <3> QED BY <3>2, <3>3
  <2> QED BY <2>1, <2>2, LimitStep
<1> QED BY <1>1, <1>2, <1>3, LimitInit, PTL DEF Spec, ImplementsAdmission, Limiter!Spec

-----------------------------------------------------------------------------
(* Becoming stable.                                                        *)

(* A local copy that the API server would still accept has the generation  *)
(* of the spec the API server holds.                                       *)
CopiesTrue ==
    \A w \in Workers :
        worker[w].current => /\ worker[w].key \in Installations
                             /\ worker[w].generation = Live(worker[w].key).generation

(* The invariant behind StableSeesSpec.                                    *)
GenerationInv == SlotInv /\ CopiesTrue

(* What StableSeesSpec says of one step.                                   *)
StableStep ==
    \A m \in Installations :
        /\ Live(m)'.state = "stable"
        /\ \/ Live(m)'.state # Live(m).state
           \/ Live(m)'.observed # Live(m).observed
        => Live(m)'.observed = Live(m)'.generation

(* A step that leaves the resources alone, and each worker's copy as it    *)
(* was or unusable.                                                        *)
LEMMA CopiesKept ==
    ASSUME GenerationInv,
           \A n \in Installations : Live(n)' = Live(n),
           \A v \in Workers : /\ worker'[v].current => worker[v].current
                              /\ worker'[v].current => worker'[v].key = worker[v].key
                              /\ worker'[v].current => worker'[v].generation = worker[v].generation
    PROVE  CopiesTrue' /\ StableStep
<1>1. CopiesTrue'
  BY DEF GenerationInv, CopiesTrue
<1>2. StableStep
  BY DEF StableStep
<1> QED BY <1>1, <1>2

(* A status write inside a pass.  It is stored only when the local copy is *)
(* the newest version, whose generation the pass then has; the generation  *)
(* stays.                                                                  *)
LEMMA StableWrite ==
    ASSUME GenerationInv, NEW w \in Workers, worker[w].pc # "idle",
           NEW s \in RunningState, NEW o \in Nat, NEW result,
           NEW label \in {"spec", "work", "report", "exit"},
           UpdateStatus(w, s, o, result), Wrote(w, s, o, result, label),
           processing' = processing,
           s = "stable" => o = worker[w].generation
    PROVE  CopiesTrue' /\ StableStep
<1> DEFINE k == worker[w].key
<1>1. /\ k \in Installations
      /\ \A n \in Installations : Live(n)' =
            IF n = k /\ result \in {"stored", "lost"}
            THEN WithStatus(Live(n), s, o) ELSE Live(n)
      /\ \A v \in Workers \ {w} : worker'[v] = worker[v]
      /\ worker'[w].generation = worker[w].generation
      /\ worker'[w].key = k
      /\ worker'[w].current = (worker[w].current /\ result # "lost")
  BY WriteStep DEF GenerationInv
<1>2. result \in {"stored", "lost"} => worker[w].current
  BY DEF UpdateStatus
<1>3. \A n \in Installations : /\ WithStatus(Live(n), s, o).generation = Live(n).generation
                               /\ WithStatus(Live(n), s, o).observed = o
                               /\ WithStatus(Live(n), s, o).state = s
  BY VersionsTyped, StatusChange DEF GenerationInv, SlotInv
<1>4. \A n \in Installations : Live(n)'.generation = Live(n).generation
  BY <1>1, <1>3
<1>5. \A v \in Workers : worker[v].current => worker[v].key \in Installations
  BY DEF GenerationInv, CopiesTrue
<1>6. CopiesTrue'
  <2> SUFFICES ASSUME NEW v \in Workers, worker'[v].current
               PROVE  /\ worker'[v].key \in Installations
                      /\ worker'[v].generation = (Live(worker[v].key).generation)'
    BY DEF CopiesTrue
  <2>1. /\ worker[v].current /\ worker'[v].key = worker[v].key
        /\ worker'[v].generation = worker[v].generation
    BY <1>1
  <2>2. worker[v].generation = Live(worker[v].key).generation
    BY <2>1 DEF GenerationInv, CopiesTrue
  <2> QED BY <1>4, <1>5, <2>1, <2>2 DEF Live
<1>7. StableStep
  <2> SUFFICES ASSUME NEW m \in Installations, Live(m)'.state = "stable",
                      Live(m)'.state # Live(m).state \/ Live(m)'.observed # Live(m).observed
               PROVE  Live(m)'.observed = Live(m)'.generation
    BY DEF StableStep
  <2>1. m = k /\ result \in {"stored", "lost"} /\ Live(m)' = WithStatus(Live(m), s, o)
    BY <1>1
  <2>2. s = "stable" /\ Live(m)'.observed = worker[w].generation
    BY <1>3, <2>1
  <2>3. worker[w].generation = Live(m).generation
    BY <1>2, <2>1 DEF GenerationInv, CopiesTrue
  <2> QED BY <1>4, <2>2, <2>3
<1> QED BY <1>6, <1>7

(* Every status a pass writes is one of these; only the stable ones carry  *)
(* the generation of the local copy for certain.                           *)
LEMMA GenerationStatusActions ==
    ASSUME GenerationInv, NEW w \in Workers, NEW result,
           \/ MarkReconciling(w, result)
           \/ Report(w, result)
           \/ \E s \in Unsettled : NotHealthy(w, s, result)
           \/ Healthy(w, result)
           \/ HealthyWriteFails(w, result)
    PROVE  CopiesTrue' /\ StableStep
<1>1. /\ "reconciling" \in RunningState /\ "stable" \in RunningState
      /\ \A s \in Unsettled : s \in RunningState /\ s # "stable"
      /\ worker[w].generation \in Nat /\ worker[w].reported \in Nat
  BY DEF RunningState, Unsettled, GenerationInv, SlotInv, TypeOK, Pass
<1>2. worker[w].pc # "idle" /\ processing' = processing
  BY DEF MarkReconciling, Report, NotHealthy, Healthy, HealthyWriteFails
<1>3. CASE MarkReconciling(w, result)
  <2> DEFINE label == IF result = "stored" THEN "spec" ELSE "exit"
  <2>1. label \in {"spec", "work", "report", "exit"}
    OBVIOUS
  <2>2. /\ UpdateStatus(w, "reconciling", worker[w].reported, result)
        /\ Wrote(w, "reconciling", worker[w].reported, result, label)
    BY <1>3 DEF MarkReconciling
  <2> HIDE DEF label
  <2> QED BY <1>1, <1>2, <2>1, <2>2, StableWrite
<1>4. CASE Report(w, result)
  <2>1. /\ UpdateStatus(w, "reconciling", worker[w].reported, result)
        /\ Wrote(w, "reconciling", worker[w].reported, result, "exit")
    BY <1>4 DEF Report
  <2> QED BY <1>1, <1>2, <2>1, StableWrite
<1>5. CASE \E s \in Unsettled : NotHealthy(w, s, result)
  <2>1. PICK s \in Unsettled : NotHealthy(w, s, result)
    BY <1>5
  <2>2. /\ UpdateStatus(w, s, worker[w].generation, result)
        /\ Wrote(w, s, worker[w].generation, result, "exit")
    BY <2>1 DEF NotHealthy
  <2> QED BY <1>1, <1>2, <2>2, StableWrite
<1>6. CASE Healthy(w, result)
  <2>1. /\ UpdateStatus(w, "stable", worker[w].generation, result)
        /\ Wrote(w, "stable", worker[w].generation, result, "exit")
    BY <1>6 DEF Healthy
  <2> QED BY <1>1, <1>2, <2>1, StableWrite
<1>7. CASE HealthyWriteFails(w, result)
  <2>1. /\ UpdateStatus(w, "stable", worker[w].generation, result)
        /\ Wrote(w, "stable", worker[w].generation, result, "report")
    BY <1>7 DEF HealthyWriteFails
  <2> QED BY <1>1, <1>2, <2>1, StableWrite
<1> QED BY <1>3, <1>4, <1>5, <1>6, <1>7

(* updateSpec moves the generation on, and the local copy with it or out   *)
(* of use; nobody else has a copy of this resource.                        *)
LEMMA GenerationSpecActions ==
    ASSUME GenerationInv, NEW w \in Workers,
           SpecUpToDate(w) \/ UpdateSpec(w) \/ UpdateSpecFails(w) \/ UpdateSpecLost(w)
    PROVE  CopiesTrue' /\ StableStep
<1> DEFINE k == worker[w].key
<1>1. /\ worker[w].pc = "spec" /\ worker'[w].key = k
      /\ \A n \in Installations : /\ Live(n)'.state = Live(n).state
                                  /\ Live(n)'.observed = Live(n).observed
      /\ \A v \in Workers \ {w} : worker'[v] = worker[v]
      /\ worker'[w].current => worker[w].current
  BY SlotSpecActions DEF GenerationInv
<1>2. StableStep
  BY <1>1 DEF StableStep
<1>3. k \in Installations
  BY <1>1, BusyKey DEF GenerationInv, SlotInv
<1>4. \A v \in Workers : worker[v].current => worker[v].key \in Installations
  BY DEF GenerationInv, CopiesTrue
<1>5. CopiesTrue'
  <2>1. CASE SpecUpToDate(w) \/ UpdateSpecFails(w)
    <3>1. versions' = versions /\ worker'[w].generation = worker[w].generation
      BY <2>1 DEF SpecUpToDate, UpdateSpecFails, Goto, GenerationInv, SlotInv, TypeOK, Pass
    <3>2. \A n \in Installations : Live(n)' = Live(n)
      BY <3>1 DEF Live
    <3> QED BY <1>1, <1>4, <3>1, <3>2, CopiesKept
  <2>2. CASE UpdateSpec(w) \/ UpdateSpecLost(w)
    <3>1. versions' = Published(k, NextGeneration(Live(k)))
      BY <2>2 DEF UpdateSpec, UpdateSpecLost
    <3>2. Live(k) \in Version /\ NextGeneration(Live(k)) \in Version
            /\ NextGeneration(Live(k)).generation = Live(k).generation + 1
      BY <1>3, VersionsTyped, SpecChange DEF GenerationInv, SlotInv
    <3>3. \A n \in Installations : Live(n)' = IF n = k THEN NextGeneration(Live(k)) ELSE Live(n)
      BY <1>3, <3>1, <3>2, PublishStep DEF GenerationInv, SlotInv
    <3>4. worker'[w].current => worker'[w].generation = Live(k).generation + 1
      BY <2>2 DEF UpdateSpec, UpdateSpecLost, GenerationInv, SlotInv, TypeOK, Pass
    <3>5. \A v \in Workers \ {w} : worker[v].key # k
      BY <1>3, ConstantsAssumption DEF GenerationInv, SlotInv, KeysDistinct
    <3> SUFFICES ASSUME NEW v \in Workers, worker'[v].current
                 PROVE  /\ worker'[v].key \in Installations
                      /\ worker'[v].generation = (Live(worker[v].key).generation)'
      BY DEF CopiesTrue
    <3>6. CASE v = w
      <4>1. Live(k)'.generation = Live(k).generation + 1
        BY <1>1, <1>3, <3>2, <3>3
      <4> QED BY <1>1, <1>3, <3>4, <3>6, <4>1
    <3>7. CASE v # w
      <4>1. worker'[v] = worker[v] /\ worker[v].key # k /\ worker[v].key \in Installations
        BY <1>1, <1>4, <3>5, <3>7
      <4>2. worker[v].generation = Live(worker[v].key).generation
        BY <4>1 DEF GenerationInv, CopiesTrue
      <4>3. (Live(worker[v].key))' = Live(worker[v].key)
        BY <3>3, <4>1 DEF Live
      <4> QED BY <4>1, <4>2, <4>3
    <3> QED BY <3>6, <3>7
  <2> QED BY <2>1, <2>2
<1> QED BY <1>2, <1>5

(* A pass begins with a copy that the API server would accept only when    *)
(* the cache holds the live version.                                       *)
LEMMA GenerationPick ==
    ASSUME GenerationInv, NEW w \in Workers, NEW m \in Installations, Pick(w, m)
    PROVE  CopiesTrue' /\ StableStep
<1>1. versions' = versions /\ worker \in [Workers -> Pass]
  BY DEF Pick, GenerationInv, SlotInv, TypeOK
<1>2. \A n : Live(n)' = Live(n)
  BY <1>1 DEF Live
<1>3. StableStep
  BY <1>2 DEF StableStep
<1>4. /\ worker'[w].key = m /\ worker'[w].generation = Cached(m).generation
      /\ worker'[w].current = (Len(versions[m]) = 1)
      /\ \A v \in Workers \ {w} : worker'[v] = worker[v]
  BY <1>1 DEF Pick
<1>5. Len(versions[m]) = 1 => Cached(m) = Live(m)
  BY DEF Cached, Live, GenerationInv, SlotInv, TypeOK
<1>6. CopiesTrue'
  <2> SUFFICES ASSUME NEW v \in Workers, worker'[v].current
               PROVE  /\ worker'[v].key \in Installations
                      /\ worker'[v].generation = (Live(worker[v].key).generation)'
    BY DEF CopiesTrue
  <2>1. (Live(worker[v].key))' = Live(worker'[v].key)
    BY <1>1 DEF Live
  <2>2. CASE v = w
    BY <1>4, <1>5, <2>1, <2>2
  <2>3. CASE v # w
    <3>1. worker'[v] = worker[v]
      BY <1>4, <2>3
    <3>2. /\ worker[v].key \in Installations
          /\ worker[v].generation = Live(worker[v].key).generation
      BY <3>1 DEF GenerationInv, CopiesTrue
    <3> QED BY <2>1, <3>1, <3>2
  <2> QED BY <2>2, <2>3
<1> QED BY <1>3, <1>6

(* A user's edit leaves no pass with a copy of the resource to write.      *)
LEMMA GenerationUser ==
    ASSUME GenerationInv, NEW m \in Installations, CreateCR(m) \/ EditCR(m) \/ DeleteCR(m)
    PROVE  CopiesTrue' /\ StableStep
<1>1. Live(m) \in Version /\ NextGeneration(Live(m)) \in Version
        /\ NextGeneration(Live(m)).state = Live(m).state
        /\ NextGeneration(Live(m)).observed = Live(m).observed
  BY VersionsTyped, SpecChange DEF GenerationInv, SlotInv
<1>2. /\ Created \in Version /\ Absent \in Version
      /\ Created.state # "stable" /\ Absent.state # "stable"
  BY DEF Created, Absent, Version, RunningState
<1>3. PICK v \in {Created, Absent, NextGeneration(Live(m))} : UserWrites(m, v)
  BY DEF CreateCR, EditCR, DeleteCR
<1>4. v \in Version
  BY <1>1, <1>2, <1>3
<1>5. \A n \in Installations : Live(n)' = IF n = m THEN v ELSE Live(n)
  BY <1>3, <1>4, SlotUserWrites DEF GenerationInv
<1>6. StableStep
  BY <1>1, <1>2, <1>3, <1>5 DEF StableStep
<1>7. \A w \in Workers : worker'[w].current =>
         /\ worker[w].current /\ worker[w].key # m /\ worker'[w] = worker[w]
  BY <1>3 DEF UserWrites, Outdated, GenerationInv, SlotInv, TypeOK, Pass
<1>8. \A w \in Workers : worker[w].current => worker[w].key \in Installations
  BY DEF GenerationInv, CopiesTrue
<1>9. CopiesTrue'
  <2> SUFFICES ASSUME NEW w \in Workers, worker'[w].current
               PROVE  /\ worker'[w].key \in Installations
                      /\ worker'[w].generation = (Live(worker[w].key).generation)'
    BY DEF CopiesTrue
  <2>1. worker'[w] = worker[w] /\ worker[w].key # m /\ worker[w].key \in Installations
          /\ worker[w].generation = Live(worker[w].key).generation
    BY <1>7, <1>8 DEF GenerationInv, CopiesTrue
  <2>2. (Live(worker[w].key))' = Live(worker[w].key)
    BY <1>5, <2>1 DEF Live
  <2> QED BY <2>1, <2>2
<1> QED BY <1>6, <1>9

(* Every step keeps the invariant and is as StableSeesSpec says.           *)
LEMMA GenerationStep ==
    ASSUME GenerationInv, [Next]_vars
    PROVE  GenerationInv' /\ StableStep
<1>1. SlotInv'
  BY SlotStep DEF GenerationInv
<1>2. \A v \in Workers : worker[v].current => worker[v].key \in Installations
  BY DEF GenerationInv, CopiesTrue
<1>3. ASSUME NEW w \in Workers,
             \/ LockAndList(w) \/ Admit(w) \/ Reject(w) \/ ListFails(w) \/ Finish(w)
      PROVE  CopiesTrue' /\ StableStep
  <2>1. versions' = versions
    BY <1>3 DEF LockAndList, Admit, Reject, ListFails, Turned, Finish
  <2>2. \A n \in Installations : Live(n)' = Live(n)
    BY <2>1 DEF Live
  <2>3. \A v \in Workers \ {w} : worker'[v] = worker[v]
    BY <1>3 DEF LockAndList, Goto, Admit, Reject, ListFails, Turned, Finish, GenerationInv,
                SlotInv, TypeOK
  <2>4. CASE LockAndList(w) \/ Admit(w)
    <3>1. /\ worker'[w].current = worker[w].current /\ worker'[w].key = worker[w].key
          /\ worker'[w].generation = worker[w].generation
      BY <2>4 DEF LockAndList, Goto, Admit, GenerationInv, SlotInv, TypeOK, Pass
    <3> QED BY <1>2, <2>2, <2>3, <3>1, CopiesKept
  <2>5. CASE Reject(w) \/ ListFails(w) \/ Finish(w)
    <3>1. worker'[w].current = FALSE
      BY <2>5 DEF Reject, ListFails, Turned, Finish, Idle, GenerationInv, SlotInv, TypeOK
    <3> QED BY <1>2, <2>2, <2>3, <3>1, CopiesKept
  <2> QED BY <1>3, <2>4, <2>5
<1>4. ASSUME NEW w \in Workers, Progress(w) \/ Setback(w) PROVE CopiesTrue' /\ StableStep
  <2>1. CASE \E m \in Installations : Pick(w, m)
    BY <2>1, GenerationPick
  <2>2. CASE \/ LockAndList(w) \/ Admit(w) \/ Reject(w) \/ ListFails(w) \/ Finish(w)
    BY <2>2, <1>3
  <2>3. CASE \E r : \/ MarkReconciling(w, r)
                    \/ Report(w, r)
                    \/ \E s \in Unsettled : NotHealthy(w, s, r)
                    \/ Healthy(w, r)
                    \/ HealthyWriteFails(w, r)
    BY <2>3, GenerationStatusActions
  <2>4. CASE SpecUpToDate(w) \/ UpdateSpec(w) \/ UpdateSpecFails(w) \/ UpdateSpecLost(w)
    BY <2>4, GenerationSpecActions
  <2> QED BY <1>4, <2>1, <2>2, <2>3, <2>4 DEF Progress, Setback
<1>5. ASSUME NEW m \in Installations, CreateCR(m) \/ EditCR(m) \/ DeleteCR(m)
      PROVE  CopiesTrue' /\ StableStep
  BY <1>5, GenerationUser
<1>6. ASSUME NEW m \in Installations, PickAbsent(m) \/ OwnedEvent(m) \/ Deliver(m)
      PROVE  CopiesTrue' /\ StableStep
  <2>1. worker' = worker /\ \A n \in Installations : Live(n)' = Live(n)
    BY <1>6, SlotQueueActions DEF GenerationInv
  <2> QED BY <1>2, <2>1, CopiesKept
<1>7. CASE Restart
  <2>1. \A n \in Installations : Live(n)' = Live(n)
    BY <1>7, SlotRestart DEF GenerationInv
  <2>2. \A v \in Workers : worker'[v].current = FALSE
    BY <1>7 DEF Restart, Idle
  <2> QED BY <1>2, <1>1, <2>1, <2>2, CopiesKept DEF GenerationInv
<1>8. CASE UNCHANGED vars
  <2>1. worker' = worker /\ \A n \in Installations : Live(n)' = Live(n)
    BY <1>8 DEF Live, vars
  <2> QED BY <1>1, <1>2, <2>1, CopiesKept DEF GenerationInv
<1>9. CopiesTrue' /\ StableStep
  BY <1>4, <1>5, <1>6, <1>7, <1>8 DEF Next, Ordinary, Surroundings, GenerationInv
<1> QED BY <1>1, <1>9 DEF GenerationInv

(* At the start nobody has a copy.                                         *)
LEMMA GenerationInit == Init => GenerationInv
  BY SlotInit DEF Init, Idle, GenerationInv, CopiesTrue

(* A stable status is stored only beside the generation of the spec that   *)
(* its pass worked on, for every cache lag, any concurrency and any number *)
(* of edits.                                                               *)
THEOREM StableMeansObserved == Spec => StableSeesSpec
<1>1. GenerationInv /\ [Next]_vars => GenerationInv' /\ [StableStep]_vars
  BY GenerationStep
<1> QED BY <1>1, GenerationInit, PTL DEF Spec, StableSeesSpec, StableStep

=============================================================================
