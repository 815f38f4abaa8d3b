---------------------------- MODULE CacheProofs ----------------------------
(***************************************************************************)
(* Theorems about the cache of module Cache, for any number of goroutines  *)
(* and keys and any thresholds, widths, limits and sizes: types, admission *)
(* (a single builder), and promotion (promotionMu, the grouped candidates  *)
(* and the promotion status of a key).                                     *)
(***************************************************************************)
EXTENDS CacheProperties, FiniteSetTheorems, TLAPS

-----------------------------------------------------------------------------
\* Control: the three ways a goroutine moves on keep its frame well typed.

\* Goto moves a goroutine inside a call and keeps its frame well typed.
LEMMA GotoType ==
  ASSUME LocalTypeOK, NEW p \in Procs, NEW l \in Labels, pc[p] # "idle", Goto(p, l)
  PROVE  LocalTypeOK'
BY DEF LocalTypeOK, Goto, localVars

\* Return clears the frame of a call that ended.
LEMMA ReturnType ==
  ASSUME LocalTypeOK, NEW p \in Procs, Return(p)
  PROVE  LocalTypeOK'
BY DEF LocalTypeOK, Return, Labels, Tiers

\* Load keeps the frame well typed when it reads an integer.
LEMMA LoadType ==
  ASSUME LocalTypeOK, NEW p \in Procs, NEW l \in Labels, NEW v \in Int,
         pc[p] # "idle", Load(p, v, l)
  PROVE  LocalTypeOK'
BY DEF LocalTypeOK, Load

\* Calling queuePromotion keeps the frame well typed.
LEMMA CallQueueType ==
  ASSUME LocalTypeOK, NEW p \in Procs, NEW f \in BOOLEAN, pc[p] # "idle", CallQueue(p, f)
  PROVE  LocalTypeOK'
BY DEF LocalTypeOK, CallQueue, Labels, QueueLabels

\* Handing a group of keys to commitPromotionLocked keeps the frame well typed.
LEMMA BuildGroupType ==
  ASSUME LocalTypeOK, NEW p \in Procs, NEW g \in SUBSET Keys, pc[p] # "idle", BuildGroup(p, g)
  PROVE  LocalTypeOK'
BY DEF LocalTypeOK, BuildGroup, Labels, LockedLabels

\* A step that leaves the shared state alone keeps its types.
LEMMA SharedSame ==
  ASSUME SharedTypeOK, UNCHANGED shared
  PROVE  SharedTypeOK'
BY DEF SharedTypeOK, shared, tableVars, statVars, admissionVars, promotionVars

\* What a goroutine asks for is an integer, and a group has a size.
LEMMA NeedType ==
  ASSUME LocalTypeOK, NEW p \in Procs
  PROVE  Need(p) \in Int /\ Unique(p) \in Nat
<1>1. group[p] \subseteq Keys
  BY DEF LocalTypeOK
<1>2. Cardinality(group[p]) \in Nat
  BY <1>1, CacheAssumption, FS_Subset, FS_CardinalityType
<1> QED
  BY <1>2, CacheAssumption DEF Need, Unique

-----------------------------------------------------------------------------
\* Every action keeps the types.

\* Every step of the cache keeps the types.
LEMMA TypeStep ==
  ASSUME TypeOK, [Next]_vars
  PROVE  TypeOK'
<1> USE CacheAssumption DEF TypeOK, Labels, AdmitLabels, BuildLabels, QueueLabels, LockedLabels,
              ReserveLabels
<1>1. CASE UNCHANGED vars
  BY <1>1, SharedSame DEF vars, LocalTypeOK, localVars
<1>2. ASSUME NEW p \in Procs, Begin(p) \/ Step(p)
      PROVE  TypeOK'
  <2>1. CASE Begin(p)
    <3>1. SharedTypeOK'
      BY <2>1, SharedSame DEF Begin
    <3>2. LocalTypeOK'
      BY <2>1 DEF Begin, LocalTypeOK, AllModes
    <3> QED
      BY <3>1, <3>2
  <2>2. CASE lookup(p)
    <3>1. SharedTypeOK'
      BY <2>2 DEF lookup, SharedTypeOK, LocalTypeOK, tableVars, statVars,
         admissionVars, promotionVars
    <3>2. LocalTypeOK'
      BY <2>2 DEF lookup, LocalTypeOK, SharedTypeOK
    <3> QED
      BY <3>1, <3>2
  <2>3. CASE Verify(p)
    <3>1. CASE Accept(p)
      <4>1. verified' \in [Keys -> 0 .. Earned]
        <5> DEFINE v == verified[key[p]]
                   w == IF v < Earned THEN v + 1 ELSE v
        <5>1. Earned \in Nat
          BY DEF Earned
        <5>2. key[p] \in Keys
          BY <2>3 DEF Verify, LocalTypeOK
        <5>3. v \in 0 .. Earned /\ w \in 0 .. Earned
          BY <5>1, <5>2 DEF SharedTypeOK
        <5>4. verified' = [verified EXCEPT ![key[p]] = w]
          BY <3>1 DEF Accept
        <5> HIDE DEF w
        <5> QED
          BY <5>3, <5>4 DEF SharedTypeOK
      <4>2. SharedTypeOK'
        BY <3>1, <4>1 DEF Accept, SharedTypeOK, tableVars, statVars, admissionVars, promotionVars
      <4>3. LocalTypeOK'
        BY <2>3, <3>1, GotoType, ReturnType DEF Accept, Verify
      <4> QED
        BY <4>2, <4>3
    <3>2. CASE Reject(p)
      BY <3>2, SharedSame, ReturnType DEF Reject
    <3> QED
      BY <2>3, <3>1, <3>2 DEF Verify
  <2>4. CASE AdmitTable(p)
    <3>1. SharedTypeOK'
      BY <2>4, SharedSame DEF AdmitTable
    <3>2. LocalTypeOK'
      BY <2>4, GotoType, ReturnType, LoadType, CallQueueType, BuildGroupType DEF AdmitTable
    <3> QED
      BY <3>1, <3>2
  <2>5. CASE AdmitBudget(p)
    <3>1. SharedTypeOK'
      BY <2>5, SharedSame DEF AdmitBudget
    <3>2. LocalTypeOK'
      BY <2>5, GotoType, ReturnType, LoadType, CallQueueType, BuildGroupType DEF AdmitBudget
    <3> QED
      BY <3>1, <3>2
  <2>6. CASE SeenLoad(p)
    <3>1. SharedTypeOK'
      BY <2>6, SharedSame DEF SeenLoad
    <3>2. LocalTypeOK'
      BY <2>6, GotoType, ReturnType, LoadType, CallQueueType, BuildGroupType DEF SeenLoad
    <3> QED
      BY <3>1, <3>2
  <2>7. CASE SlotLoad(p)
    <3>1. SharedTypeOK'
      BY <2>7, SharedSame DEF SlotLoad
    <3>2. LocalTypeOK'
      BY <2>7, GotoType, ReturnType, LoadType, CallQueueType, BuildGroupType DEF SlotLoad, SlotRefused, SharedTypeOK
    <3> QED
      BY <3>1, <3>2
  <2>8. CASE SlotCAS(p)
    <3>1. SharedTypeOK'
      BY <2>8 DEF SlotCAS, SlotUnchanged, SharedTypeOK, LocalTypeOK, tableVars, statVars,
         admissionVars, promotionVars
    <3>2. LocalTypeOK'
      BY <2>8, GotoType, ReturnType, LoadType, CallQueueType, BuildGroupType DEF SlotCAS
    <3> QED
      BY <3>1, <3>2
  <2>9. CASE Publish(p)
    <3>1. SharedTypeOK'
      BY <2>9 DEF Publish, FirstPublisher, SharedTypeOK, LocalTypeOK, tableVars, statVars,
         admissionVars, promotionVars, admissionBuilding, admissionDisabled, admissionComplete
    <3>2. LocalTypeOK'
      BY <2>9, GotoType, ReturnType, LoadType, CallQueueType, BuildGroupType DEF Publish
    <3> QED
      BY <3>1, <3>2
  <2>10. CASE SlotRelease(p)
    <3>1. SharedTypeOK'
      BY <2>10 DEF SlotRelease, SharedTypeOK, LocalTypeOK, tableVars, statVars,
         admissionVars, promotionVars
    <3>2. LocalTypeOK'
      BY <2>10, GotoType, ReturnType, LoadType, CallQueueType, BuildGroupType DEF SlotRelease
    <3> QED
      BY <3>1, <3>2
  <2>11. CASE ClaimLoad(p)
    <3>1. SharedTypeOK'
      BY <2>11, SharedSame DEF ClaimLoad
    <3>2. LocalTypeOK'
      BY SMTT(30), <2>11, GotoType, ReturnType, LoadType, CallQueueType, BuildGroupType DEF ClaimLoad, SharedTypeOK, LocalTypeOK, admissionComplete
    <3> QED
      BY <3>1, <3>2
  <2>12. CASE ClaimCAS(p)
    <3>1. SharedTypeOK'
      BY <2>12 DEF ClaimCAS, ClaimUnchanged, AtThreshold, SharedTypeOK, LocalTypeOK, tableVars, statVars,
         admissionVars, promotionVars, admissionBuilding, admissionDisabled, admissionComplete
    <3>2. LocalTypeOK'
      BY <2>12, GotoType, ReturnType, LoadType, CallQueueType, BuildGroupType DEF ClaimCAS
    <3> QED
      BY <3>1, <3>2
  <2>13. CASE BuildBudget(p)
    <3>1. SharedTypeOK'
      BY <2>13, SharedSame DEF BuildBudget
    <3>2. LocalTypeOK'
      BY <2>13, GotoType, ReturnType, LoadType, CallQueueType, BuildGroupType DEF BuildBudget
    <3> QED
      BY <3>1, <3>2
  <2>14. CASE Build(p)
    <3>1. SharedTypeOK'
      BY <2>14, SharedSame DEF Build
    <3>2. LocalTypeOK'
      BY <2>14, GotoType, ReturnType, LoadType, CallQueueType, BuildGroupType DEF Build
    <3> QED
      BY <3>1, <3>2
  <2>15. CASE ReserveLoad(p)
    <3>1. SharedTypeOK'
      BY <2>15, SharedSame DEF ReserveLoad
    <3>2. LocalTypeOK'
      BY <2>15, GotoType, ReturnType, LoadType, CallQueueType, BuildGroupType DEF ReserveLoad, SharedTypeOK
    <3> QED
      BY <3>1, <3>2
  <2>16. CASE ReserveCAS(p)
    <3>1. SharedTypeOK'
      BY <2>16, NeedType DEF ReserveCAS, SharedTypeOK, LocalTypeOK, tableVars, statVars,
         admissionVars, promotionVars
    <3>2. LocalTypeOK'
      BY <2>16, GotoType, ReturnType, LoadType, CallQueueType, BuildGroupType DEF ReserveCAS
    <3> QED
      BY <3>1, <3>2
  <2>17. CASE StoreTable(p)
    <3>1. SharedTypeOK'
      BY <2>17 DEF StoreTable, SharedTypeOK, LocalTypeOK, tableVars, statVars,
         admissionVars, promotionVars, Tiers
    <3>2. LocalTypeOK'
      BY <2>17, GotoType, ReturnType, LoadType, CallQueueType, BuildGroupType DEF StoreTable
    <3> QED
      BY <3>1, <3>2
  <2>18. CASE CountTable(p)
    <3>1. SharedTypeOK'
      BY <2>18 DEF CountTable, SharedTypeOK, LocalTypeOK, tableVars, statVars,
         admissionVars, promotionVars
    <3>2. LocalTypeOK'
      BY <2>18, GotoType, ReturnType, LoadType, CallQueueType, BuildGroupType DEF CountTable
    <3> QED
      BY <3>1, <3>2
  <2>19. CASE Finish(p)
    <3>1. SharedTypeOK'
      BY <2>19 DEF Finish, SharedTypeOK, LocalTypeOK, tableVars, statVars,
         admissionVars, promotionVars, admissionBuilding, admissionDisabled, admissionComplete
    <3>2. LocalTypeOK'
      BY <2>19, GotoType, ReturnType, LoadType, CallQueueType, BuildGroupType DEF Finish
    <3> QED
      BY <3>1, <3>2
  <2>20. CASE PromoteHit(p)
    <3>1. SharedTypeOK'
      BY SMTT(30), <2>20 DEF PromoteHit, WrapAdd, SharedTypeOK, LocalTypeOK, tableVars, statVars,
         admissionVars, promotionVars
    <3>2. LocalTypeOK'
      BY <2>20, GotoType, ReturnType, LoadType, CallQueueType, BuildGroupType DEF PromoteHit, SharedTypeOK, LocalTypeOK, WrapAdd
    <3> QED
      BY <3>1, <3>2
  <2>21. CASE PromoteStatus(p)
    <3>1. SharedTypeOK'
      BY <2>21, SharedSame DEF PromoteStatus
    <3>2. LocalTypeOK'
      BY <2>21, GotoType, ReturnType, LoadType, CallQueueType, BuildGroupType DEF PromoteStatus
    <3> QED
      BY <3>1, <3>2
  <2>22. CASE PromoteCAS(p)
    <3>1. SharedTypeOK'
      BY <2>22 DEF PromoteCAS, SharedTypeOK, LocalTypeOK, tableVars, statVars,
         admissionVars, promotionVars, Statuses, CallQueue
    <3>2. LocalTypeOK'
      BY <2>22, GotoType, ReturnType, LoadType, CallQueueType, BuildGroupType DEF PromoteCAS
    <3> QED
      BY <3>1, <3>2
  <2>23. CASE Lock(p)
    <3>1. SharedTypeOK'
      BY <2>23 DEF Lock, SharedTypeOK, LocalTypeOK, tableVars, statVars,
         admissionVars, promotionVars
    <3>2. LocalTypeOK'
      BY <2>23, GotoType, ReturnType, LoadType, CallQueueType, BuildGroupType DEF Lock
    <3> QED
      BY <3>1, <3>2
  <2>24. CASE queuePromotion(p)
    <3>1. SharedTypeOK'
      BY <2>24 DEF queuePromotion, UnlockReturn, SharedTypeOK, LocalTypeOK, tableVars, statVars,
         admissionVars, promotionVars, Statuses
    <3>2. LocalTypeOK'
      BY <2>24, GotoType, ReturnType, LoadType, CallQueueType, BuildGroupType DEF queuePromotion, UnlockReturn
    <3> QED
      BY <3>1, <3>2
  <2>25. CASE buildPromotionGroupLocked(p)
    <3>1. SharedTypeOK'
      BY SMTT(30), <2>25 DEF buildPromotionGroupLocked, UnlockReturn, SharedTypeOK, LocalTypeOK, tableVars, statVars,
         admissionVars, promotionVars, Statuses
    <3>2. LocalTypeOK'
      BY <2>25, GotoType, ReturnType, LoadType, CallQueueType, BuildGroupType DEF buildPromotionGroupLocked, UnlockReturn, SharedTypeOK, LocalTypeOK
    <3> QED
      BY <3>1, <3>2
  <2>26. CASE buildSoloPromotionLocked(p)
    <3>1. SharedTypeOK'
      BY <2>26 DEF buildSoloPromotionLocked, UnlockReturn, SharedTypeOK, LocalTypeOK, tableVars, statVars,
         admissionVars, promotionVars, Statuses
    <3>2. LocalTypeOK'
      BY SMTT(30), <2>26, GotoType, ReturnType, LoadType, CallQueueType, BuildGroupType DEF buildSoloPromotionLocked, UnlockReturn, LocalTypeOK
    <3> QED
      BY <3>1, <3>2
  <2>27. CASE BuildWarm(p)
    <3>1. SharedTypeOK'
      BY <2>27 DEF BuildWarm, UnlockReturn, StoreGroup, SharedTypeOK, LocalTypeOK, tableVars, statVars,
         admissionVars, promotionVars, Statuses
    <3>2. LocalTypeOK'
      BY <2>27, GotoType, ReturnType, LoadType, CallQueueType, BuildGroupType DEF BuildWarm, UnlockReturn
    <3> QED
      BY <3>1, <3>2
  <2>28. CASE RefuseGroup(p)
    <3>1. SharedTypeOK'
      BY <2>28 DEF RefuseGroup, UnlockReturn, StoreGroup, SharedTypeOK, LocalTypeOK, tableVars, statVars,
         admissionVars, promotionVars, Statuses
    <3>2. LocalTypeOK'
      BY <2>28, GotoType, ReturnType, LoadType, CallQueueType, BuildGroupType DEF RefuseGroup, UnlockReturn
    <3> QED
      BY <3>1, <3>2
  <2>29. CASE InstallTable(p)
    <3>1. SharedTypeOK'
      BY <2>29 DEF InstallTable, SharedTypeOK, LocalTypeOK, tableVars, statVars,
         admissionVars, promotionVars, Tiers
    <3>2. LocalTypeOK'
      BY <2>29 DEF InstallTable, LocalTypeOK, localVars
    <3> QED
      BY <3>1, <3>2
  <2>30. CASE InstallStatus(p)
    <3>1. SharedTypeOK'
      BY <2>30 DEF InstallStatus, SharedTypeOK, LocalTypeOK, tableVars, statVars,
         admissionVars, promotionVars, Statuses
    <3>2. LocalTypeOK'
      BY <2>30 DEF InstallStatus, LocalTypeOK, localVars
    <3> QED
      BY <3>1, <3>2
  <2>31. CASE InstallDone(p)
    <3>1. SharedTypeOK'
      BY <2>31, NeedType DEF InstallDone, UnlockReturn, SharedTypeOK, LocalTypeOK, tableVars, statVars,
         admissionVars, promotionVars
    <3>2. LocalTypeOK'
      BY <2>31, GotoType, ReturnType, LoadType, CallQueueType, BuildGroupType DEF InstallDone, UnlockReturn
    <3> QED
      BY <3>1, <3>2
  <2> QED
    BY <1>2, <2>1, <2>2, <2>3, <2>4, <2>5, <2>6, <2>7, <2>8, <2>9, <2>10, <2>11, <2>12, <2>13, <2>14, <2>15, <2>16, <2>17, <2>18, <2>19, <2>20, <2>21, <2>22, <2>23, <2>24, <2>25, <2>26, <2>27, <2>28, <2>29, <2>30, <2>31 DEF Step
<1> QED
  BY <1>1, <1>2 DEF Next

\* Type correctness of the cache: TypeOK holds in every reachable state.
THEOREM TypeCorrect == Spec => []TypeOK
<1>1. Init => TypeOK
  BY CacheAssumption DEF Init, TypeOK, SharedTypeOK, LocalTypeOK, Labels, Tiers, Statuses, Earned,
     admissionComplete
<1>2. TypeOK /\ [Next]_vars => TypeOK'
  BY TypeStep
<1> QED
  BY <1>1, <1>2, PTL DEF Spec

-----------------------------------------------------------------------------
\* A group is held exactly where promotion reserves and installs.

\* A group stays exactly on the promotion side, and its keys keep their tables.
LEMMA FrameStep ==
  ASSUME TypeOK, GroupFrame, [Next]_vars
  PROVE  GroupFrame'
<1> USE DEF TypeOK, SharedTypeOK, LocalTypeOK, GroupFrame, ReserveLabels
<1>1. CASE UNCHANGED vars
  BY <1>1 DEF vars, shared, tableVars, localVars
<1>2. ASSUME NEW p \in Procs, Begin(p) \/ Step(p)
      PROVE  GroupFrame'
  <2>1. CASE Begin(p)
    BY <2>1 DEF Begin, shared, tableVars, statVars, admissionVars, promotionVars
  <2>2. CASE lookup(p)
    BY <2>2 DEF lookup, tableVars, statVars, admissionVars, promotionVars
  <2>3. CASE Verify(p)
    BY <2>3 DEF Verify, Accept, Reject, Goto, Return, localVars, shared, tableVars, statVars,
       admissionVars, promotionVars
  <2>4. CASE AdmitTable(p)
    BY <2>4 DEF AdmitTable, Goto, Return, localVars, shared, tableVars, statVars, admissionVars,
       promotionVars
  <2>5. CASE AdmitBudget(p)
    BY <2>5 DEF AdmitBudget, Goto, Return, localVars, shared, tableVars, statVars, admissionVars,
       promotionVars
  <2>6. CASE SeenLoad(p)
    BY <2>6 DEF SeenLoad, Goto, Return, localVars, shared, tableVars, statVars, admissionVars,
       promotionVars
  <2>7. CASE SlotLoad(p)
    BY SMTT(30), <2>7 DEF SlotLoad, SlotRefused, Goto, Load, localVars, shared, tableVars, statVars,
       admissionVars, promotionVars
  <2>8. CASE SlotCAS(p)
    BY SMTT(30), <2>8 DEF SlotCAS, Goto, localVars, tableVars, statVars, admissionVars, promotionVars
  <2>9. CASE Publish(p)
    BY <2>9 DEF Publish, Goto, localVars, tableVars, statVars, admissionVars, promotionVars
  <2>10. CASE SlotRelease(p)
    BY <2>10 DEF SlotRelease, Goto, localVars, tableVars, statVars, admissionVars, promotionVars
  <2>11. CASE ClaimLoad(p)
    BY <2>11 DEF ClaimLoad, Return, Load, shared, tableVars, statVars, admissionVars,
       promotionVars
  <2>12. CASE ClaimCAS(p)
    BY <2>12 DEF ClaimCAS, Goto, Return, localVars, tableVars, statVars, admissionVars,
       promotionVars
  <2>13. CASE BuildBudget(p)
    BY <2>13 DEF BuildBudget, Goto, localVars, shared, tableVars, statVars, admissionVars,
       promotionVars
  <2>14. CASE Build(p)
    BY <2>14 DEF Build, Goto, localVars, shared, tableVars, statVars, admissionVars, promotionVars
  <2>15. CASE ReserveLoad(p)
    BY <2>15 DEF ReserveLoad, Goto, Load, localVars, shared, tableVars, statVars, admissionVars,
       promotionVars
  <2>16. CASE ReserveCAS(p)
    BY <2>16 DEF ReserveCAS, Goto, localVars, tableVars, statVars, admissionVars, promotionVars
  <2>17. CASE StoreTable(p)
    BY <2>17 DEF StoreTable, Goto, localVars, tableVars, statVars, admissionVars, promotionVars
  <2>18. CASE CountTable(p)
    BY <2>18 DEF CountTable, Goto, localVars, tableVars, statVars, admissionVars, promotionVars
  <2>19. CASE Finish(p)
    BY <2>19 DEF Finish, Return, tableVars, statVars, admissionVars, promotionVars
  <2>20. CASE PromoteHit(p)
    BY <2>20 DEF PromoteHit, Return, Load, tableVars, statVars, admissionVars, promotionVars
  <2>21. CASE PromoteStatus(p)
    BY <2>21 DEF PromoteStatus, CallQueue, Goto, Return, localVars, shared, tableVars, statVars,
       admissionVars, promotionVars
  <2>22. CASE PromoteCAS(p)
    BY <2>22 DEF PromoteCAS, CallQueue, Goto, localVars, tableVars, statVars, admissionVars,
       promotionVars
  <2>23. CASE Lock(p)
    BY <2>23 DEF Lock, Goto, localVars, tableVars, statVars, admissionVars, promotionVars
  <2>24. CASE queuePromotion(p)
    BY <2>24 DEF queuePromotion, UnlockReturn, Goto, Return, localVars, tableVars, statVars,
       admissionVars, promotionVars
  <2>25. CASE buildPromotionGroupLocked(p)
    <3>1. PICK visited \in SUBSET promotionPending :
            LET fresh == {k \in visited : tables[k] = "decoded"}
            IN  \/ Cardinality(fresh) = Width /\ BuildGroup(p, fresh)
                \/ UnlockReturn(p)
      BY <2>25 DEF buildPromotionGroupLocked
    <3>2. CASE UnlockReturn(p)
      BY <2>25, <3>2 DEF buildPromotionGroupLocked, UnlockReturn, Return, tableVars
    <3>3. ASSUME NEW fresh \in SUBSET Keys, \A k \in fresh : tables[k] = "decoded",
                 Cardinality(fresh) = Width, BuildGroup(p, fresh)
          PROVE  GroupFrame'
      <4>1. fresh # {}
        BY <3>3, FS_EmptySet, CacheAssumption
      <4> QED
        BY <2>25, <3>3, <4>1 DEF buildPromotionGroupLocked, BuildGroup, tableVars
    <3> QED
      BY <3>1, <3>2, <3>3
  <2>26. CASE buildSoloPromotionLocked(p)
    <3>1. CASE UnlockReturn(p)
      BY <2>26, <3>1 DEF buildSoloPromotionLocked, UnlockReturn, Return, tableVars
    <3>2. CASE tables[key[p]] = "decoded" /\ BuildGroup(p, {key[p]})
      BY <2>26, <3>2 DEF buildSoloPromotionLocked, BuildGroup, tableVars
    <3> QED
      BY <2>26, <3>1, <3>2 DEF buildSoloPromotionLocked
  <2>27. CASE BuildWarm(p)
    BY <2>27 DEF BuildWarm, UnlockReturn, Goto, Return, localVars, tableVars, statVars,
       admissionVars, promotionVars
  <2>28. CASE RefuseGroup(p)
    BY <2>28 DEF RefuseGroup, UnlockReturn, Return, tableVars, statVars, admissionVars,
       promotionVars
  <2>29. CASE InstallTable(p)
    BY <2>29 DEF InstallTable, localVars, tableVars, statVars, admissionVars, promotionVars
  <2>30. CASE InstallStatus(p)
    BY <2>30 DEF InstallStatus, localVars, tableVars, statVars, admissionVars, promotionVars
  <2>31. CASE InstallDone(p)
    BY <2>31 DEF InstallDone, UnlockReturn, Return, tableVars, statVars, admissionVars,
       promotionVars
  <2> QED
    BY <1>2, <2>1, <2>2, <2>3, <2>4, <2>5, <2>6, <2>7, <2>8, <2>9, <2>10, <2>11, <2>12,
       <2>13, <2>14, <2>15, <2>16, <2>17, <2>18, <2>19, <2>20, <2>21, <2>22, <2>23, <2>24, <2>25,
       <2>26, <2>27, <2>28, <2>29, <2>30, <2>31 DEF Step
<1> QED
  BY <1>1, <1>2 DEF Next

-----------------------------------------------------------------------------
\* A counter is used only after its publication.

\* Counters stay unused, and zero, until admissionCounter has published them.
LEMMA PublishedStep ==
  ASSUME TypeOK, CounterPublished, SingleBuilder, [Next]_vars
  PROVE  CounterPublished'
<1> USE DEF TypeOK, SharedTypeOK, LocalTypeOK, CounterPublished
<1>1. CASE UNCHANGED vars
  BY <1>1 DEF vars, shared, admissionVars, localVars
<1>2. ASSUME NEW p \in Procs, Begin(p) \/ Step(p)
      PROVE  CounterPublished'
  <2>1. CASE Begin(p)
    BY <2>1 DEF Begin, shared, tableVars, statVars, admissionVars, promotionVars
  <2>2. CASE lookup(p)
    BY <2>2 DEF lookup, tableVars, statVars, admissionVars, promotionVars
  <2>3. CASE Verify(p)
    BY <2>3 DEF Verify, Accept, Reject, Goto, Return, localVars, shared, tableVars, statVars,
       admissionVars, promotionVars
  <2>4. CASE AdmitTable(p)
    BY <2>4 DEF AdmitTable, Goto, Return, localVars, shared, tableVars, statVars, admissionVars,
       promotionVars
  <2>5. CASE AdmitBudget(p)
    BY SMTT(30), <2>5 DEF AdmitBudget, Goto, Return, localVars, shared, tableVars, statVars, admissionVars,
       promotionVars
  <2>6. CASE SeenLoad(p)
    BY <2>6 DEF SeenLoad, Goto, Return, localVars, shared, tableVars, statVars, admissionVars,
       promotionVars
  <2>7. CASE SlotLoad(p)
    BY <2>7 DEF SlotLoad, SlotRefused, Goto, Load, localVars, shared, tableVars, statVars,
       admissionVars, promotionVars
  <2>8. CASE SlotCAS(p)
    BY <2>8 DEF SlotCAS, Goto, localVars, tableVars, statVars, admissionVars, promotionVars
  <2>9. CASE Publish(p)
    BY <2>9 DEF Publish, Goto, localVars, tableVars, statVars, admissionVars, promotionVars,
       FirstPublisher
  <2>10. CASE SlotRelease(p)
    BY <2>10 DEF SlotRelease, Goto, localVars, tableVars, statVars, admissionVars, promotionVars
  <2>11. CASE ClaimLoad(p)
    BY <2>11 DEF ClaimLoad, Return, Load, shared, tableVars, statVars, admissionVars,
       promotionVars, Decided
  <2>12. CASE ClaimCAS(p)
    BY SMTT(30), <2>12 DEF ClaimCAS, Goto, Return, localVars, tableVars, statVars, admissionVars,
       promotionVars, ClaimUnchanged, AtThreshold
  <2>13. CASE BuildBudget(p)
    BY <2>13 DEF BuildBudget, Goto, localVars, shared, tableVars, statVars, admissionVars,
       promotionVars
  <2>14. CASE Build(p)
    BY <2>14 DEF Build, Goto, localVars, shared, tableVars, statVars, admissionVars, promotionVars
  <2>15. CASE ReserveLoad(p)
    BY <2>15 DEF ReserveLoad, Goto, Load, localVars, shared, tableVars, statVars, admissionVars,
       promotionVars
  <2>16. CASE ReserveCAS(p)
    BY <2>16 DEF ReserveCAS, Goto, localVars, tableVars, statVars, admissionVars, promotionVars
  <2>17. CASE StoreTable(p)
    BY <2>17 DEF StoreTable, Goto, localVars, tableVars, statVars, admissionVars, promotionVars
  <2>18. CASE CountTable(p)
    BY <2>18 DEF CountTable, Goto, localVars, tableVars, statVars, admissionVars, promotionVars
  <2>19. CASE Finish(p)
    <3>1. key[p] \in Keys /\ IsBuilder(p)
      BY <2>19 DEF Finish, IsBuilder, BuildLabels, ReserveLabels
    <3>2. counter[key[p]] = -1
      BY <3>1 DEF SingleBuilder, BuilderMarked, admissionBuilding
    <3>3. key[p] \in seen
      BY <3>1, <3>2
    <3>4. seen' = seen /\ \A k \in Keys : k \notin seen => counter'[k] = counter[k]
      BY <2>19, <3>3 DEF Finish
    <3>5. /\ \A q \in Procs : q # p => pc'[q] = pc[q] /\ key'[q] = key[q] /\ reg'[q] = reg[q]
          /\ pc'[p] = "idle"
      BY <2>19 DEF Finish, Return
    <3> QED
      BY <3>4, <3>5
  <2>20. CASE PromoteHit(p)
    BY <2>20 DEF PromoteHit, Return, Load, tableVars, statVars, admissionVars, promotionVars
  <2>21. CASE PromoteStatus(p)
    BY SMTT(30), <2>21 DEF PromoteStatus, CallQueue, Goto, Return, localVars, shared, tableVars, statVars,
       admissionVars, promotionVars
  <2>22. CASE PromoteCAS(p)
    BY <2>22 DEF PromoteCAS, CallQueue, Goto, localVars, tableVars, statVars, admissionVars,
       promotionVars
  <2>23. CASE Lock(p)
    BY <2>23 DEF Lock, Goto, localVars, tableVars, statVars, admissionVars, promotionVars
  <2>24. CASE queuePromotion(p)
    BY SMTT(30), <2>24 DEF queuePromotion, UnlockReturn, Goto, Return, localVars, tableVars, statVars,
       admissionVars, promotionVars
  <2>25. CASE buildPromotionGroupLocked(p)
    BY <2>25 DEF buildPromotionGroupLocked, BuildGroup, UnlockReturn, Return, tableVars, statVars,
       admissionVars, promotionVars
  <2>26. CASE buildSoloPromotionLocked(p)
    BY SMTT(30), <2>26 DEF buildSoloPromotionLocked, BuildGroup, UnlockReturn, Return, tableVars, statVars,
       admissionVars, promotionVars
  <2>27. CASE BuildWarm(p)
    BY SMTT(30), <2>27 DEF BuildWarm, UnlockReturn, Goto, Return, localVars, tableVars, statVars,
       admissionVars, promotionVars
  <2>28. CASE RefuseGroup(p)
    BY <2>28 DEF RefuseGroup, UnlockReturn, Return, tableVars, statVars, admissionVars,
       promotionVars
  <2>29. CASE InstallTable(p)
    BY <2>29 DEF InstallTable, localVars, tableVars, statVars, admissionVars, promotionVars
  <2>30. CASE InstallStatus(p)
    BY <2>30 DEF InstallStatus, localVars, tableVars, statVars, admissionVars, promotionVars
  <2>31. CASE InstallDone(p)
    BY <2>31 DEF InstallDone, UnlockReturn, Return, tableVars, statVars, admissionVars,
       promotionVars
  <2> QED
    BY <1>2, <2>1, <2>2, <2>3, <2>4, <2>5, <2>6, <2>7, <2>8, <2>9, <2>10, <2>11, <2>12,
       <2>13, <2>14, <2>15, <2>16, <2>17, <2>18, <2>19, <2>20, <2>21, <2>22, <2>23, <2>24, <2>25,
       <2>26, <2>27, <2>28, <2>29, <2>30, <2>31 DEF Step
<1> QED
  BY <1>1, <1>2 DEF Next

-----------------------------------------------------------------------------
\* At most one builder per key.

\* A step that leaves the set of builders and their keys alone.
QuietBuilders ==
  \A q \in Procs : /\ (IsBuilder(q)' <=> IsBuilder(q))
                   /\ IsBuilder(q) => key'[q] = key[q]

\* ... and the claims too.
QuietClaims == QuietBuilders /\ \A k \in Keys : counter'[k] = -1 <=> counter[k] = -1

\* A step that stores no table and takes back no verdict.
QuietTables ==
  /\ \A k \in Keys : counter[k] = -3 => counter'[k] = -3
  /\ \A k \in Keys : tables'[k] # "none" => tables[k] # "none"
  /\ \A q \in Procs : pc[q] \in {"count", "complete"} =>
                         pc'[q] \in {"count", "complete"} /\ key'[q] = key[q]

Quiet == QuietClaims /\ QuietTables

\* A step that leaves builders and claims alone keeps them unique.
LEMMA QuietClaimsStep ==
  ASSUME SingleBuilder, QuietClaims
  PROVE  BuilderMarked' /\ BuilderUnique'
<1>a. QuietBuilders
  BY DEF QuietClaims
<1>0. \A q \in Procs : IsBuilder(q)' => IsBuilder(q) /\ key'[q] = key[q]
  BY <1>a DEF QuietBuilders
<1>1. BuilderMarked'
  <2> SUFFICES ASSUME NEW k \in Keys
               PROVE  counter'[k] = -1 <=> \E q \in Procs : key'[q] = k /\ IsBuilder(q)'
    BY DEF BuilderMarked, admissionBuilding
  <2>1. (\E q \in Procs : key'[q] = k /\ IsBuilder(q)') <=>
          (\E q \in Procs : key[q] = k /\ IsBuilder(q))
    BY <1>a DEF QuietBuilders
  <2> QED
    BY <2>1 DEF SingleBuilder, BuilderMarked, QuietClaims, admissionBuilding
<1>2. BuilderUnique'
  <2> SUFFICES ASSUME NEW p \in Procs, NEW q \in Procs,
                      IsBuilder(p)', IsBuilder(q)', key'[p] = key'[q]
               PROVE  p = q
    BY DEF BuilderUnique
  <2> QED
    BY <1>0 DEF SingleBuilder, BuilderUnique
<1> QED
  BY <1>1, <1>2

\* A step that is quiet about builders and tables keeps SingleBuilder.
LEMMA QuietStep ==
  ASSUME SingleBuilder, Quiet
  PROVE  SingleBuilder'
<1>1. BuilderMarked' /\ BuilderUnique'
  BY QuietClaimsStep DEF Quiet
<1>2. TableDecided'
  <2> SUFFICES ASSUME NEW k \in Keys, tables'[k] # "none", counter'[k] # -3
               PROVE  \E q \in Procs : key'[q] = k /\ pc'[q] \in {"count", "complete"}
    BY DEF TableDecided, admissionComplete
  <2>1. PICK q \in Procs : key[q] = k /\ pc[q] \in {"count", "complete"}
    BY DEF SingleBuilder, TableDecided, Quiet, QuietTables, admissionComplete
  <2> QED
    BY <2>1 DEF Quiet, QuietTables
<1> QED
  BY <1>1, <1>2 DEF SingleBuilder

\* The goroutine whose compare-and-swap stores admissionBuilding becomes the
\* only builder of its key: a counter that is not negative has none.
LEMMA ClaimGranted ==
  ASSUME AdmissionInv, NEW p \in Procs, ClaimCAS(p), ClaimUnchanged(p), AtThreshold(p)
  PROVE  SingleBuilder'
<1> DEFINE k == key[p]
<1>1. k \in Keys /\ counter[k] # -1 /\ counter[k] # -3
  BY DEF AdmissionInv, TypeOK, LocalTypeOK, CounterPublished, ClaimCAS, ClaimUnchanged
<1>2. /\ pc' = [pc EXCEPT ![p] = "rebudget"] /\ key' = key /\ group' = group /\ tables' = tables
      /\ counter' = [counter EXCEPT ![k] = -1]
  BY DEF ClaimCAS, Goto, localVars, tableVars, admissionBuilding, Return
<1>3. \A q \in Procs : ~(IsBuilder(q) /\ key[q] = k)
  BY <1>1 DEF AdmissionInv, SingleBuilder, BuilderMarked, admissionBuilding
<1>4. IsBuilder(p)'
  BY <1>2 DEF IsBuilder, BuildLabels, AdmissionInv, TypeOK, LocalTypeOK
<1>5. \A q \in Procs : q # p => (IsBuilder(q)' <=> IsBuilder(q)) /\ pc'[q] = pc[q]
  BY <1>2 DEF IsBuilder, BuildLabels, ReserveLabels, AdmissionInv, TypeOK, LocalTypeOK
<1>6. BuilderMarked'
  <2> SUFFICES ASSUME NEW j \in Keys
               PROVE  counter'[j] = -1 <=> \E q \in Procs : key'[q] = j /\ IsBuilder(q)'
    BY DEF BuilderMarked, admissionBuilding
  <2>1. CASE j = k
    BY <2>1, <1>1, <1>2, <1>4 DEF AdmissionInv, TypeOK, SharedTypeOK
  <2>2. CASE j # k
    <3>1. counter'[j] = counter[j]
      BY <2>2, <1>2 DEF AdmissionInv, TypeOK, SharedTypeOK
    <3>2. (\E q \in Procs : key'[q] = j /\ IsBuilder(q)') <=>
            (\E q \in Procs : key[q] = j /\ IsBuilder(q))
      BY <2>2, <1>2, <1>5 DEF ClaimCAS, IsBuilder, BuildLabels, ReserveLabels
    <3> QED
      BY <3>1, <3>2 DEF AdmissionInv, SingleBuilder, BuilderMarked, admissionBuilding
  <2> QED
    BY <2>1, <2>2
<1>7. BuilderUnique'
  <2> SUFFICES ASSUME NEW q \in Procs, NEW r \in Procs,
                      IsBuilder(q)', IsBuilder(r)', key'[q] = key'[r]
               PROVE  q = r
    BY DEF BuilderUnique
  <2> QED
    BY <1>2, <1>3, <1>5 DEF AdmissionInv, SingleBuilder, BuilderUnique
<1>8. TableDecided'
  <2> SUFFICES ASSUME NEW j \in Keys, tables'[j] # "none", counter'[j] # -3
               PROVE  \E q \in Procs : key'[q] = j /\ pc'[q] \in {"count", "complete"}
    BY DEF TableDecided, admissionComplete
  <2>1. counter[j] # -3
    BY <1>1, <1>2 DEF AdmissionInv, TypeOK, SharedTypeOK
  <2>2. PICK q \in Procs : key[q] = j /\ pc[q] \in {"count", "complete"}
    BY <2>1, <1>2 DEF AdmissionInv, SingleBuilder, TableDecided, admissionComplete
  <2>3. q # p
    BY <2>2 DEF ClaimCAS
  <2> QED
    BY <2>2, <2>3, <1>2, <1>5
<1> QED
  BY <1>6, <1>7, <1>8 DEF SingleBuilder

\* The builder's last store gives the claim up, and says complete unless the
\* key has no table.
LEMMA ClaimReleased ==
  ASSUME AdmissionInv, NEW p \in Procs, Finish(p)
  PROVE  SingleBuilder'
<1> DEFINE k == key[p]
<1>1. k \in Keys /\ IsBuilder(p)
  BY DEF AdmissionInv, TypeOK, LocalTypeOK, Finish, IsBuilder, BuildLabels, ReserveLabels
<1>2. PICK v \in {-2, -3} : /\ counter' = [counter EXCEPT ![k] = v]
                            /\ v = -2 => pc[p] \notin {"count", "complete"}
  BY DEF Finish, admissionComplete, admissionDisabled
<1>3. /\ pc' = [pc EXCEPT ![p] = "idle"] /\ key' = [key EXCEPT ![p] = NoKey]
      /\ group' = [group EXCEPT ![p] = {}] /\ tables' = tables
  BY DEF Finish, Return, tableVars
<1>4. counter[k] = -1 /\ \A q \in Procs : IsBuilder(q) /\ key[q] = k => q = p
  BY <1>1 DEF AdmissionInv, SingleBuilder, BuilderMarked, BuilderUnique, admissionBuilding
<1>5. ~IsBuilder(p)'
  BY <1>3 DEF IsBuilder, BuildLabels, ReserveLabels, AdmissionInv, TypeOK, LocalTypeOK
<1>6. \A q \in Procs : q # p => (IsBuilder(q)' <=> IsBuilder(q)) /\ pc'[q] = pc[q] /\ key'[q] = key[q]
  BY <1>3 DEF IsBuilder, BuildLabels, ReserveLabels, AdmissionInv, TypeOK, LocalTypeOK
<1>7. BuilderMarked'
  <2> SUFFICES ASSUME NEW j \in Keys
               PROVE  counter'[j] = -1 <=> \E q \in Procs : key'[q] = j /\ IsBuilder(q)'
    BY DEF BuilderMarked, admissionBuilding
  <2>1. CASE j = k
    BY <2>1, <1>1, <1>2, <1>4, <1>5, <1>6 DEF AdmissionInv, TypeOK, SharedTypeOK
  <2>2. CASE j # k
    <3>1. counter'[j] = counter[j]
      BY <2>2, <1>2 DEF AdmissionInv, TypeOK, SharedTypeOK
    <3>2. (\E q \in Procs : key'[q] = j /\ IsBuilder(q)') <=>
            (\E q \in Procs : key[q] = j /\ IsBuilder(q))
      BY <2>2, <1>5, <1>6
    <3> QED
      BY <3>1, <3>2 DEF AdmissionInv, SingleBuilder, BuilderMarked, admissionBuilding
  <2> QED
    BY <2>1, <2>2
<1>8. BuilderUnique'
  <2> SUFFICES ASSUME NEW q \in Procs, NEW r \in Procs,
                      IsBuilder(q)', IsBuilder(r)', key'[q] = key'[r]
               PROVE  q = r
    BY DEF BuilderUnique
  <2> QED
    BY <1>5, <1>6 DEF AdmissionInv, SingleBuilder, BuilderUnique
<1>9. TableDecided'
  <2> SUFFICES ASSUME NEW j \in Keys, tables'[j] # "none", counter'[j] # -3
               PROVE  \E q \in Procs : key'[q] = j /\ pc'[q] \in {"count", "complete"}
    BY DEF TableDecided, admissionComplete
  <2>1. counter[j] # -3
    BY <1>2, <1>4 DEF AdmissionInv, TypeOK, SharedTypeOK
  <2>2. PICK q \in Procs : key[q] = j /\ pc[q] \in {"count", "complete"}
    BY <2>1, <1>3 DEF AdmissionInv, SingleBuilder, TableDecided, admissionComplete
  <2>3. IsBuilder(q)
    BY <2>2 DEF IsBuilder, BuildLabels
  <2>4. q # p
    <3> SUFFICES ASSUME q = p PROVE FALSE
      OBVIOUS
    <3>1. v = -3 /\ j = k
      BY <2>2, <1>2
    <3>2. counter'[j] = -3
      BY <3>1, <1>1, <1>2 DEF AdmissionInv, TypeOK, SharedTypeOK
    <3> QED
      BY <3>2
  <2> QED
    BY <2>2, <2>4, <1>6
<1> QED
  BY <1>7, <1>8, <1>9 DEF SingleBuilder

\* The builder's tables.LoadOrStore: whoever has stored a table is about to
\* count it and to say complete.
LEMMA TableStored ==
  ASSUME AdmissionInv, NEW p \in Procs, StoreTable(p)
  PROVE  SingleBuilder'
<1>1. counter' = counter /\ key' = key /\ group' = group
  BY DEF StoreTable, admissionVars, Goto, localVars
<1>2. \E l \in {"count", "complete"} : pc' = [pc EXCEPT ![p] = l]
  BY DEF StoreTable, Goto
<1>3. QuietClaims
  BY <1>1, <1>2 DEF QuietClaims, QuietBuilders, StoreTable, IsBuilder, BuildLabels, ReserveLabels,
     AdmissionInv, TypeOK, LocalTypeOK
<1>4. BuilderMarked' /\ BuilderUnique'
  BY <1>3, QuietClaimsStep DEF AdmissionInv
<1>5. TableDecided'
  <2> SUFFICES ASSUME NEW j \in Keys, tables'[j] # "none", counter'[j] # -3
               PROVE  \E q \in Procs : key'[q] = j /\ pc'[q] \in {"count", "complete"}
    BY DEF TableDecided, admissionComplete
  <2>1. CASE j = key[p]
    BY <2>1, <1>1, <1>2 DEF AdmissionInv, TypeOK, LocalTypeOK
  <2>2. CASE j # key[p]
    <3>1. tables[j] # "none"
      BY <2>2 DEF StoreTable, AdmissionInv, TypeOK, SharedTypeOK
    <3>2. PICK q \in Procs : key[q] = j /\ pc[q] \in {"count", "complete"}
      BY <3>1, <1>1 DEF AdmissionInv, SingleBuilder, TableDecided, admissionComplete
    <3> QED
      BY <3>2, <1>1, <1>2 DEF AdmissionInv, TypeOK, LocalTypeOK
  <2> QED
    BY <2>1, <2>2
<1> QED
  BY <1>4, <1>5 DEF SingleBuilder

\* Every step of the cache keeps SingleBuilder.
LEMMA BuilderStep ==
  ASSUME AdmissionInv, [Next]_vars
  PROVE  SingleBuilder'
<1> USE DEF AdmissionInv, TypeOK, SharedTypeOK, LocalTypeOK
<1>1. CASE UNCHANGED vars
  <2>1. Quiet
    BY <1>1 DEF vars, shared, tableVars, admissionVars, localVars, Quiet, QuietClaims, QuietBuilders, QuietTables, IsBuilder
  <2> QED
    BY <2>1, QuietStep
<1>2. ASSUME NEW p \in Procs, Begin(p) \/ Step(p)
      PROVE  SingleBuilder'
  <2>1. CASE Begin(p)
    <3>1. Quiet
      BY <2>1 DEF Begin, shared, tableVars, statVars, admissionVars, promotionVars, Quiet, QuietClaims, QuietBuilders, QuietTables,
         IsBuilder, BuildLabels, ReserveLabels, GroupFrame
    <3> QED
      BY <3>1, QuietStep
  <2>2. CASE lookup(p)
    <3>1. Quiet
      BY <2>2 DEF lookup, tableVars, statVars, admissionVars, promotionVars, Quiet, QuietClaims, QuietBuilders, QuietTables, IsBuilder,
         BuildLabels, ReserveLabels, GroupFrame
    <3> QED
      BY <3>1, QuietStep
  <2>3. CASE Verify(p)
    <3>1. Quiet
      BY <2>3 DEF Verify, Accept, Reject, Goto, Return, localVars, shared, tableVars, statVars,
         admissionVars, promotionVars, Quiet, QuietClaims, QuietBuilders, QuietTables, IsBuilder, BuildLabels, ReserveLabels, GroupFrame
    <3> QED
      BY <3>1, QuietStep
  <2>4. CASE AdmitTable(p)
    <3>1. Quiet
      BY <2>4 DEF AdmitTable, Goto, Return, localVars, shared, tableVars, statVars, admissionVars,
         promotionVars, Quiet, QuietClaims, QuietBuilders, QuietTables, IsBuilder, BuildLabels, ReserveLabels, GroupFrame
    <3> QED
      BY <3>1, QuietStep
  <2>5. CASE AdmitBudget(p)
    <3>1. Quiet
      BY <2>5 DEF AdmitBudget, Goto, Return, localVars, shared, tableVars, statVars,
         admissionVars, promotionVars, Quiet, QuietClaims, QuietBuilders, QuietTables, IsBuilder, BuildLabels, ReserveLabels, GroupFrame
    <3> QED
      BY <3>1, QuietStep
  <2>6. CASE SeenLoad(p)
    <3>1. Quiet
      BY <2>6 DEF SeenLoad, Goto, Return, localVars, shared, tableVars, statVars, admissionVars,
         promotionVars, Quiet, QuietClaims, QuietBuilders, QuietTables, IsBuilder, BuildLabels, ReserveLabels, GroupFrame
    <3> QED
      BY <3>1, QuietStep
  <2>7. CASE SlotLoad(p)
    <3>1. Quiet
      BY <2>7 DEF SlotLoad, SlotRefused, Goto, Load, localVars, shared, tableVars, statVars,
         admissionVars, promotionVars, Quiet, QuietClaims, QuietBuilders, QuietTables, IsBuilder, BuildLabels, ReserveLabels, GroupFrame
    <3> QED
      BY <3>1, QuietStep
  <2>8. CASE SlotCAS(p)
    <3>1. Quiet
      BY <2>8 DEF SlotCAS, Goto, localVars, tableVars, statVars, admissionVars, promotionVars,
         Quiet, QuietClaims, QuietBuilders, QuietTables, IsBuilder, BuildLabels, ReserveLabels, GroupFrame
    <3> QED
      BY <3>1, QuietStep
  <2>9. CASE Publish(p)
    <3>1. counter' = counter
      BY <2>9 DEF Publish, FirstPublisher, CounterPublished, Goto, localVars
    <3>2. Quiet
      BY <2>9, <3>1 DEF Publish, Goto, localVars, tableVars, Quiet, QuietClaims, QuietBuilders, QuietTables,
         IsBuilder, BuildLabels, ReserveLabels, GroupFrame
    <3> QED
      BY <3>2, QuietStep
  <2>10. CASE SlotRelease(p)
    <3>1. Quiet
      BY <2>10 DEF SlotRelease, Goto, localVars, tableVars, statVars, admissionVars,
         promotionVars, Quiet, QuietClaims, QuietBuilders, QuietTables, IsBuilder, BuildLabels, ReserveLabels, GroupFrame
    <3> QED
      BY <3>1, QuietStep
  <2>11. CASE ClaimLoad(p)
    <3>1. Quiet
      BY <2>11 DEF ClaimLoad, Return, Load, shared, tableVars, statVars, admissionVars,
         promotionVars, Quiet, QuietClaims, QuietBuilders, QuietTables, IsBuilder, BuildLabels, ReserveLabels, GroupFrame
    <3> QED
      BY <3>1, QuietStep
  <2>12. CASE ClaimCAS(p)
    <3>1. CASE ClaimUnchanged(p) /\ AtThreshold(p)
      BY <2>12, <3>1, ClaimGranted
    <3>2. CASE ~ClaimUnchanged(p)
      <4>1. Quiet
        BY <2>12, <3>2 DEF ClaimCAS, Goto, localVars, tableVars, Quiet, QuietClaims, QuietBuilders, QuietTables,
           IsBuilder, BuildLabels, ReserveLabels
      <4> QED
        BY <4>1, QuietStep
    <3>3. CASE ClaimUnchanged(p) /\ ~AtThreshold(p)
      <4>1. counter[key[p]] >= 0 /\ reg[p] + 1 >= 0 /\ key[p] \in Keys
        BY <2>12, <3>3 DEF ClaimCAS, ClaimUnchanged, CounterPublished
      <4>2. counter' = [counter EXCEPT ![key[p]] = reg[p] + 1] /\ tables' = tables /\ Return(p)
        BY <2>12, <3>3 DEF ClaimCAS, tableVars
      <4>3. Quiet
        BY <2>12, <4>1, <4>2 DEF ClaimCAS, Return, Quiet, QuietClaims, QuietBuilders, QuietTables,
           IsBuilder, BuildLabels, ReserveLabels, GroupFrame
      <4> QED
        BY <4>3, QuietStep
    <3> QED
      BY <3>1, <3>2, <3>3
  <2>13. CASE BuildBudget(p)
    <3>1. Quiet
      BY <2>13 DEF BuildBudget, Goto, localVars, shared, tableVars, statVars, admissionVars,
         promotionVars, Quiet, QuietClaims, QuietBuilders, QuietTables, IsBuilder, BuildLabels, ReserveLabels, GroupFrame
    <3> QED
      BY <3>1, QuietStep
  <2>14. CASE Build(p)
    <3>1. Quiet
      BY <2>14 DEF Build, Goto, localVars, shared, tableVars, statVars, admissionVars,
         promotionVars, Quiet, QuietClaims, QuietBuilders, QuietTables, IsBuilder, BuildLabels, ReserveLabels, GroupFrame
    <3> QED
      BY <3>1, QuietStep
  <2>15. CASE ReserveLoad(p)
    <3>1. Quiet
      BY <2>15 DEF ReserveLoad, Goto, Load, localVars, shared, tableVars, statVars, admissionVars,
         promotionVars, Quiet, QuietClaims, QuietBuilders, QuietTables, IsBuilder, BuildLabels, ReserveLabels, GroupFrame
    <3> QED
      BY <3>1, QuietStep
  <2>16. CASE ReserveCAS(p)
    <3>1. Quiet
      BY <2>16 DEF ReserveCAS, Goto, localVars, tableVars, statVars, admissionVars, promotionVars,
         Quiet, QuietClaims, QuietBuilders, QuietTables, IsBuilder, BuildLabels, ReserveLabels, GroupFrame
    <3> QED
      BY <3>1, QuietStep
  <2>17. CASE StoreTable(p)
    BY <2>17, TableStored
  <2>18. CASE CountTable(p)
    <3>1. Quiet
      BY <2>18 DEF CountTable, Goto, localVars, tableVars, statVars, admissionVars, promotionVars,
         Quiet, QuietClaims, QuietBuilders, QuietTables, IsBuilder, BuildLabels, ReserveLabels, GroupFrame
    <3> QED
      BY <3>1, QuietStep
  <2>19. CASE Finish(p)
    BY <2>19, ClaimReleased
  <2>20. CASE PromoteHit(p)
    <3>1. Quiet
      BY <2>20 DEF PromoteHit, Return, Load, tableVars, statVars, admissionVars, promotionVars,
         Quiet, QuietClaims, QuietBuilders, QuietTables, IsBuilder, BuildLabels, ReserveLabels, GroupFrame
    <3> QED
      BY <3>1, QuietStep
  <2>21. CASE PromoteStatus(p)
    <3>1. Quiet
      BY <2>21 DEF PromoteStatus, CallQueue, Goto, Return, localVars, shared, tableVars, statVars,
         admissionVars, promotionVars, Quiet, QuietClaims, QuietBuilders, QuietTables, IsBuilder, BuildLabels, ReserveLabels, GroupFrame
    <3> QED
      BY <3>1, QuietStep
  <2>22. CASE PromoteCAS(p)
    <3>1. Quiet
      BY <2>22 DEF PromoteCAS, CallQueue, Goto, localVars, tableVars, statVars, admissionVars,
         promotionVars, Quiet, QuietClaims, QuietBuilders, QuietTables, IsBuilder, BuildLabels, ReserveLabels, GroupFrame
    <3> QED
      BY <3>1, QuietStep
  <2>23. CASE Lock(p)
    <3>1. Quiet
      BY <2>23 DEF Lock, Goto, localVars, tableVars, statVars, admissionVars, promotionVars,
         Quiet, QuietClaims, QuietBuilders, QuietTables, IsBuilder, BuildLabels, ReserveLabels, GroupFrame
    <3> QED
      BY <3>1, QuietStep
  <2>24. CASE queuePromotion(p)
    <3>1. Quiet
      BY <2>24 DEF queuePromotion, UnlockReturn, Goto, Return, localVars, tableVars, statVars,
         admissionVars, promotionVars, Quiet, QuietClaims, QuietBuilders, QuietTables, IsBuilder, BuildLabels, ReserveLabels, GroupFrame
    <3> QED
      BY <3>1, QuietStep
  <2>25. CASE buildPromotionGroupLocked(p)
    <3>1. Quiet
      BY <2>25 DEF buildPromotionGroupLocked, BuildGroup, UnlockReturn, Return, tableVars,
         statVars, admissionVars, promotionVars, Quiet, QuietClaims, QuietBuilders, QuietTables, IsBuilder, BuildLabels, ReserveLabels,
         GroupFrame
    <3> QED
      BY <3>1, QuietStep
  <2>26. CASE buildSoloPromotionLocked(p)
    <3>1. Quiet
      BY <2>26 DEF buildSoloPromotionLocked, BuildGroup, UnlockReturn, Return, tableVars,
         statVars, admissionVars, promotionVars, Quiet, QuietClaims, QuietBuilders, QuietTables, IsBuilder, BuildLabels, ReserveLabels,
         GroupFrame
    <3> QED
      BY <3>1, QuietStep
  <2>27. CASE BuildWarm(p)
    <3>1. Quiet
      BY <2>27 DEF BuildWarm, UnlockReturn, Goto, Return, localVars, tableVars, statVars,
         admissionVars, promotionVars, Quiet, QuietClaims, QuietBuilders, QuietTables, IsBuilder, BuildLabels, ReserveLabels, GroupFrame
    <3> QED
      BY <3>1, QuietStep
  <2>28. CASE RefuseGroup(p)
    <3>1. Quiet
      BY <2>28 DEF RefuseGroup, UnlockReturn, Return, tableVars, statVars, admissionVars,
         promotionVars, Quiet, QuietClaims, QuietBuilders, QuietTables, IsBuilder, BuildLabels, ReserveLabels, GroupFrame
    <3> QED
      BY <3>1, QuietStep
  <2>29. CASE InstallTable(p)
    <3>1. Quiet
      BY <2>29 DEF InstallTable, localVars, tableVars, statVars, admissionVars, promotionVars,
         Quiet, QuietClaims, QuietBuilders, QuietTables, IsBuilder, BuildLabels, ReserveLabels, GroupFrame
    <3> QED
      BY <3>1, QuietStep
  <2>30. CASE InstallStatus(p)
    <3>1. Quiet
      BY <2>30 DEF InstallStatus, localVars, tableVars, statVars, admissionVars, promotionVars,
         Quiet, QuietClaims, QuietBuilders, QuietTables, IsBuilder, BuildLabels, ReserveLabels, GroupFrame
    <3> QED
      BY <3>1, QuietStep
  <2>31. CASE InstallDone(p)
    <3>1. Quiet
      BY <2>31 DEF InstallDone, UnlockReturn, Return, tableVars, statVars, admissionVars,
         promotionVars, Quiet, QuietClaims, QuietBuilders, QuietTables, IsBuilder, BuildLabels, ReserveLabels, GroupFrame
    <3> QED
      BY <3>1, QuietStep
  <2> QED
    BY <1>2, <2>1, <2>2, <2>3, <2>4, <2>5, <2>6, <2>7, <2>8, <2>9, <2>10, <2>11, <2>12,
       <2>13, <2>14, <2>15, <2>16, <2>17, <2>18, <2>19, <2>20, <2>21, <2>22, <2>23, <2>24, <2>25,
       <2>26, <2>27, <2>28, <2>29, <2>30, <2>31 DEF Step
<1> QED
  BY <1>1, <1>2 DEF Next

\* claimAdmissionBuild "grants exactly one goroutine permission to build": for
\* every number of goroutines and keys, at most one goroutine is past the claim
\* for a key, and no key that has a table is being built again.
THEOREM AtMostOneBuilder == Spec => []SingleBuilder
<1>1. Init => AdmissionInv
  <2>1. Init => TypeOK
    BY CacheAssumption DEF Init, TypeOK, SharedTypeOK, LocalTypeOK, Labels, Tiers, Statuses, Earned,
       admissionComplete
  <2>2. Init => GroupFrame /\ CounterPublished /\ SingleBuilder
    BY DEF Init, GroupFrame, CounterPublished, SingleBuilder, BuilderMarked, BuilderUnique, TableDecided, IsBuilder, ReserveLabels, BuildLabels,
       admissionBuilding
  <2> QED
    BY <2>1, <2>2 DEF AdmissionInv
<1>2. AdmissionInv /\ [Next]_vars => AdmissionInv'
  BY TypeStep, FrameStep, PublishedStep, BuilderStep DEF AdmissionInv
<1>3. AdmissionInv => SingleBuilder
  BY DEF AdmissionInv
<1> QED
  BY <1>1, <1>2, <1>3, PTL DEF Spec

-----------------------------------------------------------------------------
\* Promotion.

\* Only the frame of goroutine p may change.
OthersStay(p) ==
  \A q \in Procs \ {p} :
    /\ pc'[q] = pc[q] /\ key'[q] = key[q] /\ mode'[q] = mode[q] /\ pre'[q] = pre[q]
    /\ reg'[q] = reg[q] /\ force'[q] = force[q] /\ group'[q] = group[q]

\* The goroutine is between promotionMu.Lock and its deferred Unlock.
HoldsMu(p) == pc[p] \in LockedLabels \/ (pc[p] \in ReserveLabels /\ group[p] # {})

\* Exactly the owner of promotionMu is in the critical section.
LockHeld == \A p \in Procs : HoldsMu(p) <=> promotionMu = p

PromoterLabels == QueueLabels \cup {"queue", "group", "solo"}

\* What the lookup found stays true enough: a table that was there still is, and
\* whoever asks for a promotion has seen a first-tier one.
PreKnown ==
  \A p \in Procs :
    /\ pre[p] # "none" => pc[p] # "idle" /\ tables[key[p]] # "none"
    /\ pc[p] \in PromoterLabels => pre[p] # "none"
    /\ pc[p] \in PromoterLabels \ {"promote"} => pre[p] = "decoded"

\* A pending key waits in promotionPending, or a goroutine is about to put it there.
PendingHeld ==
  \A k \in Keys : status[k] = "pending" =>
    \/ k \in promotionPending
    \/ \E p \in Procs : key[p] = k /\ pc[p] \in {"lock", "queue"}

\* Waiting candidates are pending first-tier tables; so is one flushed alone.
Candidates ==
  /\ \A k \in promotionPending : status[k] = "pending" /\ tables[k] = "decoded"
  /\ \A p \in Procs : pc[p] = "solo" => key[p] \in promotionPending

\* A group is building until its goroutine installs the tables one by one, each
\* table before its status.
GroupStatus ==
  \A p \in Procs : \A k \in group[p] :
    \/ tables[k] = "decoded" /\ status[k] = "building"
    \/ tables[k] = "warm" /\ pc[p] = "install" /\ status[k] \in {"building", "complete"}

\* Fewer than Width candidates wait, but for the goroutine that has just added
\* the last one; no group is wider than the kernel.
Widths ==
  /\ Cardinality(promotionPending) <= Width
  /\ (\A p \in Procs : pc[p] # "group") => Cardinality(promotionPending) < Width
  /\ \A p \in Procs : Cardinality(group[p]) <= Width

PromotionInv ==
  /\ TypeOK /\ GroupFrame /\ LockHeld /\ PreKnown /\ StatusMatchesTier
  /\ PendingHeld /\ Candidates /\ GroupStatus /\ Widths

-----------------------------------------------------------------------------
\* Which step moves what.

\* A step of one goroutine leaves the frames of the others alone.
LEMMA OneMoves ==
  ASSUME TypeOK, NEW p \in Procs, Begin(p) \/ Step(p)
  PROVE  OthersStay(p)
<1> USE DEF TypeOK, LocalTypeOK, OthersStay, Goto, Load, Return, localVars
<1>1. CASE Begin(p) \/ lookup(p) \/ Verify(p)
  BY <1>1 DEF Begin, lookup, Verify, Accept, Reject
<1>2. CASE \/ AdmitTable(p) \/ AdmitBudget(p) \/ SeenLoad(p) \/ SlotLoad(p) \/ SlotCAS(p)
           \/ Publish(p) \/ SlotRelease(p) \/ ClaimLoad(p) \/ ClaimCAS(p)
  BY <1>2 DEF AdmitTable, AdmitBudget, SeenLoad, SlotLoad, SlotRefused, SlotCAS, Publish, SlotRelease,
       ClaimLoad, ClaimCAS
<1>3. CASE \/ BuildBudget(p) \/ Build(p) \/ ReserveLoad(p) \/ ReserveCAS(p) \/ StoreTable(p)
           \/ CountTable(p) \/ Finish(p)
  BY <1>3 DEF BuildBudget, Build, ReserveLoad, ReserveCAS, StoreTable, CountTable, Finish
<1>4. CASE PromoteHit(p) \/ PromoteStatus(p) \/ PromoteCAS(p) \/ Lock(p) \/ queuePromotion(p)
  BY <1>4 DEF PromoteHit, PromoteStatus, PromoteCAS, Lock, queuePromotion, UnlockReturn, CallQueue
<1>5. CASE \/ buildPromotionGroupLocked(p) \/ buildSoloPromotionLocked(p) \/ BuildWarm(p)
           \/ RefuseGroup(p) \/ InstallTable(p) \/ InstallStatus(p) \/ InstallDone(p)
  BY ZenonT(60), <1>5 DEF buildPromotionGroupLocked, buildSoloPromotionLocked, BuildWarm, RefuseGroup, InstallTable,
       InstallStatus, InstallDone, UnlockReturn, BuildGroup
<1> QED
  BY <1>1, <1>2, <1>3, <1>4, <1>5 DEF Step

\* The steps of lookup, Verify and admit, and of reserveTableBytes on either side.
AdmissionStep(p) ==
  \/ Begin(p) \/ lookup(p) \/ Verify(p)
  \/ AdmitTable(p) \/ AdmitBudget(p) \/ SeenLoad(p) \/ SlotLoad(p) \/ SlotCAS(p)
  \/ Publish(p) \/ SlotRelease(p) \/ ClaimLoad(p) \/ ClaimCAS(p)
  \/ BuildBudget(p) \/ Build(p) \/ ReserveLoad(p) \/ ReserveCAS(p)
  \/ StoreTable(p) \/ CountTable(p) \/ Finish(p)

\* Between two steps of the promoter nothing that promotion decides on changes,
\* but for a first-tier table that appears.
AdmissionQuiet(p) ==
  /\ status' = status /\ promotionPending' = promotionPending /\ promotionMu' = promotionMu
  /\ faults' = faults /\ promoted' = promoted /\ promoHits' = promoHits
  /\ group'[p] = group[p]
  /\ \A k \in Keys : \/ tables'[k] = tables[k]
                     \/ tables[k] = "none" /\ tables'[k] = "decoded"
  /\ HoldsMu(p)' <=> HoldsMu(p)
  /\ pc[p] \notin PromoterLabels \cup {"buildWarm", "install"}
  /\ pc'[p] \notin PromoterLabels \ {"promote"}
  /\ pc'[p] = "install" <=> pc[p] = "casBytes" /\ group[p] # {} /\ bytes = reg[p]

\* Admission does not interfere with promotion.
LEMMA AdmissionSteps ==
  ASSUME TypeOK, GroupFrame, NEW p \in Procs, AdmissionStep(p)
  PROVE  AdmissionQuiet(p)
<1> USE DEF TypeOK, SharedTypeOK, LocalTypeOK, GroupFrame, AdmissionQuiet, HoldsMu, PromoterLabels,
      QueueLabels, LockedLabels, ReserveLabels, Goto, Load, Return, localVars, shared, tableVars,
      promotionVars
<1>1. CASE Begin(p) \/ lookup(p) \/ Verify(p)
  BY ZenonT(60), <1>1 DEF Begin, lookup, Verify, Accept, Reject
<1>2. CASE \/ AdmitTable(p) \/ AdmitBudget(p) \/ SeenLoad(p) \/ SlotLoad(p) \/ SlotCAS(p)
           \/ Publish(p) \/ SlotRelease(p) \/ ClaimLoad(p) \/ ClaimCAS(p)
  BY ZenonT(60), <1>2 DEF AdmitTable, AdmitBudget, SeenLoad, SlotLoad, SlotRefused, SlotCAS, Publish, SlotRelease,
       ClaimLoad, ClaimCAS
<1>3. CASE BuildBudget(p) \/ Build(p) \/ ReserveLoad(p) \/ ReserveCAS(p)
  BY <1>3 DEF BuildBudget, Build, ReserveLoad, ReserveCAS
<1>4. CASE StoreTable(p) \/ CountTable(p) \/ Finish(p)
  BY ZenonT(60), <1>4 DEF StoreTable, CountTable, Finish
<1> QED
  BY <1>1, <1>2, <1>3, <1>4 DEF AdmissionStep

-----------------------------------------------------------------------------
\* Every step keeps the promotion invariant.

\* promotionMu excludes: only Lock enters the critical section and every way out
\* of it unlocks.
LEMMA LockStep ==
  ASSUME TypeOK, GroupFrame, LockHeld, NEW p \in Procs, Begin(p) \/ Step(p)
  PROVE  LockHeld'
<1> USE CacheAssumption DEF TypeOK, SharedTypeOK, LocalTypeOK, GroupFrame, LockHeld, HoldsMu,
      LockedLabels, ReserveLabels, OthersStay
<1>0. OthersStay(p)
  BY OneMoves
<1>1. CASE AdmissionStep(p)
  BY <1>0, <1>1, AdmissionSteps DEF AdmissionQuiet
<1>2. CASE PromoteHit(p) \/ PromoteStatus(p) \/ PromoteCAS(p) \/ Lock(p) \/ queuePromotion(p)
  BY <1>0, <1>2 DEF PromoteHit, PromoteStatus, PromoteCAS, Lock, queuePromotion, UnlockReturn, CallQueue,
     Goto, Load, Return, localVars, shared, promotionVars
<1>3. CASE buildPromotionGroupLocked(p)
  <2>1. pc[p] = "group" /\ (UnlockReturn(p) \/ (promotionMu' = promotionMu /\ pc'[p] = "buildWarm"))
    BY <1>3 DEF buildPromotionGroupLocked, BuildGroup
  <2> QED
    BY <1>0, <2>1 DEF UnlockReturn, Return
<1>4. CASE \/ buildSoloPromotionLocked(p) \/ BuildWarm(p) \/ RefuseGroup(p) \/ InstallTable(p)
           \/ InstallStatus(p) \/ InstallDone(p)
  BY <1>0, <1>4 DEF buildSoloPromotionLocked, BuildWarm, RefuseGroup, InstallTable, InstallStatus,
     InstallDone, UnlockReturn, BuildGroup, Goto, Return, localVars, promotionVars
<1> QED
  BY <1>1, <1>2, <1>3, <1>4 DEF Step, AdmissionStep

\* A table that lookup found is never taken away, so pre stays true.
LEMMA PreStep ==
  ASSUME TypeOK, GroupFrame, PreKnown, NEW p \in Procs, Begin(p) \/ Step(p)
  PROVE  PreKnown'
<1> USE DEF TypeOK, SharedTypeOK, LocalTypeOK, PreKnown, PromoterLabels, QueueLabels, OthersStay
<1>0. OthersStay(p)
  BY OneMoves
<1>1. \A k \in Keys : tables[k] # "none" => tables'[k] # "none"
  <2>1. CASE AdmissionStep(p)
    BY <2>1, AdmissionSteps DEF AdmissionQuiet
  <2>2. CASE PromoteHit(p) \/ PromoteStatus(p) \/ PromoteCAS(p) \/ Lock(p) \/ queuePromotion(p)
    BY <2>2 DEF PromoteHit, PromoteStatus, PromoteCAS, Lock, queuePromotion, shared, tableVars
  <2>3. CASE \/ buildPromotionGroupLocked(p) \/ buildSoloPromotionLocked(p) \/ BuildWarm(p)
             \/ RefuseGroup(p) \/ InstallTable(p) \/ InstallStatus(p) \/ InstallDone(p)
    BY <2>3 DEF buildPromotionGroupLocked, buildSoloPromotionLocked, BuildWarm, RefuseGroup, InstallTable,
       InstallStatus, InstallDone, tableVars
  <2> QED
    BY <2>1, <2>2, <2>3 DEF Step, AdmissionStep
<1>2. CASE Begin(p) \/ lookup(p) \/ Verify(p)
  BY <1>0, <1>1, <1>2 DEF Begin, lookup, Verify, Accept, Reject, Goto, Return, localVars, shared
<1>3. CASE \/ AdmitTable(p) \/ AdmitBudget(p) \/ SeenLoad(p) \/ SlotLoad(p) \/ SlotCAS(p)
           \/ Publish(p) \/ SlotRelease(p) \/ ClaimLoad(p) \/ ClaimCAS(p)
  BY <1>0, <1>1, <1>3 DEF AdmitTable, AdmitBudget, SeenLoad, SlotLoad, SlotRefused, SlotCAS, Publish,
     SlotRelease, ClaimLoad, ClaimCAS, Goto, Load, Return, localVars
<1>4. CASE \/ BuildBudget(p) \/ Build(p) \/ ReserveLoad(p) \/ ReserveCAS(p) \/ StoreTable(p)
           \/ CountTable(p) \/ Finish(p)
  BY <1>0, <1>1, <1>4 DEF BuildBudget, Build, ReserveLoad, ReserveCAS, StoreTable, CountTable, Finish,
     Goto, Load, Return, localVars
<1>5. CASE PromoteHit(p) \/ PromoteStatus(p) \/ PromoteCAS(p) \/ Lock(p) \/ queuePromotion(p)
  BY <1>0, <1>1, <1>5 DEF PromoteHit, PromoteStatus, PromoteCAS, Lock, queuePromotion, UnlockReturn,
     CallQueue, Goto, Load, Return, localVars
<1>6. CASE buildPromotionGroupLocked(p)
  <2>1. \/ Return(p)
        \/ pre' = pre /\ key' = key /\ pc'[p] = "buildWarm"
    BY <1>6 DEF buildPromotionGroupLocked, UnlockReturn, BuildGroup
  <2> QED
    BY <1>0, <1>1, <2>1 DEF Return
<1>7. CASE \/ buildSoloPromotionLocked(p) \/ BuildWarm(p) \/ RefuseGroup(p) \/ InstallTable(p)
           \/ InstallStatus(p) \/ InstallDone(p)
  BY <1>0, <1>1, <1>7 DEF buildSoloPromotionLocked, BuildWarm, RefuseGroup, InstallTable, InstallStatus,
     InstallDone, UnlockReturn, BuildGroup, Goto, Return, localVars
<1> QED
  BY <1>2, <1>3, <1>4, <1>5, <1>6, <1>7 DEF Step

\* Whoever holds promotionMu is the only goroutine with a group of candidates.
LEMMA OneGroup ==
  ASSUME TypeOK, GroupFrame, LockHeld, NEW p \in Procs, HoldsMu(p)
  PROVE  /\ promotionMu = p
         /\ \A q \in Procs \ {p} : ~HoldsMu(q) /\ group[q] = {}
BY CacheAssumption DEF TypeOK, LocalTypeOK, GroupFrame, LockHeld, HoldsMu, LockedLabels

\* The five parts of the promotion invariant that speak of candidates.
CandidatesInv == StatusMatchesTier /\ PendingHeld /\ Candidates /\ GroupStatus /\ Widths

\* Steps that promotion does not see.
LEMMA CandidatesAdmission ==
  ASSUME PromotionInv, NEW p \in Procs, AdmissionStep(p)
  PROVE  CandidatesInv'
<1> USE CacheAssumption DEF PromotionInv, TypeOK, SharedTypeOK, LocalTypeOK, OthersStay, AdmissionQuiet
<1>0. OthersStay(p) /\ AdmissionQuiet(p)
  BY OneMoves, AdmissionSteps DEF Step, AdmissionStep
<1>1. \A q \in Procs : group'[q] = group[q]
  BY <1>0
<1>2. StatusMatchesTier'
  BY <1>0, <1>1 DEF StatusMatchesTier
<1>3. PendingHeld'
  BY <1>0 DEF PendingHeld, PromoterLabels, QueueLabels
<1>4. Candidates'
  BY <1>0 DEF Candidates, PromoterLabels, QueueLabels
<1>5. GroupStatus'
  BY <1>0, <1>1 DEF GroupStatus, HoldsMu
<1>6. Widths'
  BY <1>0, <1>1 DEF Widths, PromoterLabels
<1> QED
  BY <1>2, <1>3, <1>4, <1>5, <1>6 DEF CandidatesInv

\* promote, up to the wait for the lock: an idle key becomes pending only in the
\* compare-and-swap of the goroutine that goes on to queue it.
LEMMA CandidatesPromote ==
  ASSUME PromotionInv, NEW p \in Procs, PromoteHit(p) \/ PromoteStatus(p) \/ PromoteCAS(p) \/ Lock(p)
  PROVE  CandidatesInv'
<1> USE CacheAssumption DEF PromotionInv, TypeOK, SharedTypeOK, LocalTypeOK, OthersStay
<1>0. OthersStay(p)
  BY OneMoves DEF Step
<1>1. /\ tables' = tables /\ promotionPending' = promotionPending
      /\ promotionMu' = promotionMu \/ promotionMu = NoProc
      /\ group'[p] = group[p] /\ group[p] = {}
      /\ pc[p] \in QueueLabels /\ pc'[p] \in {"idle", "queue"} \cup QueueLabels
  BY ZenonT(60) DEF PromoteHit, PromoteStatus, PromoteCAS, Lock, CallQueue, Goto, Load, Return, localVars, shared,
     tableVars, promotionVars, GroupFrame, QueueLabels, ReserveLabels
<1>2. \/ status' = status /\ (pc[p] = "lock" => pc'[p] = "queue" /\ key'[p] = key[p])
      \/ /\ pc[p] = "casStatus" /\ pc'[p] = "lock" /\ key'[p] = key[p]
         /\ status[key[p]] = "idle" /\ status' = [status EXCEPT ![key[p]] = "pending"]
  BY DEF PromoteHit, PromoteStatus, PromoteCAS, Lock, CallQueue, Goto, Load, localVars, shared,
     promotionVars
<1>3. \A q \in Procs : group'[q] = group[q]
  BY <1>0, <1>1
<1>4. StatusMatchesTier'
  BY <1>1, <1>2, <1>3 DEF StatusMatchesTier, PreKnown, PromoterLabels, QueueLabels
<1>5. PendingHeld'
  BY <1>0, <1>1, <1>2 DEF PendingHeld, QueueLabels
<1>6. Candidates'
  BY <1>0, <1>1, <1>2 DEF Candidates, QueueLabels
<1>7. GroupStatus'
  BY <1>0, <1>1, <1>2, <1>3 DEF GroupStatus
<1>8. Widths'
  BY <1>0, <1>1, <1>3 DEF Widths, QueueLabels
<1> QED
  BY <1>4, <1>5, <1>6, <1>7, <1>8 DEF CandidatesInv

\* Adding an element to a finite set adds at most one to its size.
LEMMA OneMore ==
  ASSUME NEW S, IsFiniteSet(S), NEW x
  PROVE  /\ IsFiniteSet(S \cup {x})
         /\ Cardinality(S) \in Nat /\ Cardinality(S \cup {x}) \in Nat
         /\ Cardinality(S \cup {x}) = IF x \in S THEN Cardinality(S) ELSE Cardinality(S) + 1
         /\ Cardinality(S \cup {x}) <= Cardinality(S) + 1
<1>1. IsFiniteSet(S \cup {x})
  BY FS_AddElement
<1>2. Cardinality(S) \in Nat
  BY FS_CardinalityType
<1>3. Cardinality(S \cup {x}) = IF x \in S THEN Cardinality(S) ELSE Cardinality(S) + 1
  BY FS_AddElement
<1> QED
  BY <1>1, <1>2, <1>3


\* A goroutine without a group has one of size zero, which is within any width.
LEMMA Empty == Cardinality({}) = 0 /\ 0 < Width /\ 0 <= Width
BY FS_EmptySet, CacheAssumption

\* queuePromotion up to the choice of what to build: a pending key has a
\* first-tier table, so the goroutine's candidate is always current.
LEMMA CandidatesQueue ==
  ASSUME PromotionInv, NEW p \in Procs, queuePromotion(p)
  PROVE  CandidatesInv'
<1> USE CacheAssumption DEF PromotionInv, TypeOK, SharedTypeOK, LocalTypeOK, OthersStay
<1> DEFINE k == key[p]
<1>0. OthersStay(p)
  BY OneMoves DEF Step
<1>1. pc[p] = "queue" /\ k \in Keys /\ HoldsMu(p)
  BY DEF queuePromotion, HoldsMu, LockedLabels
<1>2. \A q \in Procs : group[q] = {} /\ (q # p => pc[q] \notin {"group", "solo"})
  BY <1>1, OneGroup DEF GroupFrame, ReserveLabels, HoldsMu, LockedLabels
<1>3. Cardinality(promotionPending) < Width
  BY <1>1, <1>2 DEF Widths
<1>4. status[k] = "pending" => tables[k] = "decoded" /\ pre[p] = "decoded"
  BY <1>1 DEF StatusMatchesTier, PreKnown, PromoterLabels, Tiers
<1>5. /\ IsFiniteSet(promotionPending) /\ IsFiniteSet(promotionPending \cup {k})
      /\ Cardinality(promotionPending) \in Nat /\ Cardinality(promotionPending \cup {k}) \in Nat
      /\ Cardinality(promotionPending \cup {k}) <= Cardinality(promotionPending) + 1
  <2>1. IsFiniteSet(promotionPending)
    BY FS_Subset
  <2> QED
    BY <2>1, OneMore
<1>6. tables' = tables
  BY DEF queuePromotion, tableVars
<1>7. CASE status[k] # "pending"
  <2>1. status' = status /\ promotionPending' = promotionPending /\ UnlockReturn(p)
    BY <1>1, <1>7 DEF queuePromotion
  <2>2. pc'[p] = "idle" /\ \A q \in Procs : group'[q] = {}
    BY <1>0, <1>2, <2>1 DEF UnlockReturn, Return
  <2>3. StatusMatchesTier'
    BY <1>2, <1>6, <2>1 DEF StatusMatchesTier
  <2>4. PendingHeld'
    BY <1>0, <1>7, <2>1 DEF PendingHeld
  <2>5. Candidates'
    BY <1>0, <1>6, <2>1, <2>2 DEF Candidates
  <2>6. GroupStatus' /\ Widths'
    BY <1>3, <1>5, <2>1, <2>2, Empty DEF GroupStatus, Widths
  <2> QED
    BY <2>3, <2>4, <2>5, <2>6 DEF CandidatesInv
<1>8. CASE status[k] = "pending"
  <2>1. status' = status /\ promotionPending' = promotionPending \cup {k}
    BY <1>1, <1>4, <1>8 DEF queuePromotion
  <2>2. \/ pc'[p] = "group" /\ group'[p] = group[p] /\ key'[p] = k
        \/ /\ pc'[p] = "solo" /\ group'[p] = group[p] /\ key'[p] = k
           /\ Cardinality(promotionPending \cup {k}) < Width
        \/ /\ pc'[p] = "idle" /\ group'[p] = {}
           /\ Cardinality(promotionPending \cup {k}) < Width
    BY <1>1, <1>4, <1>5, <1>8 DEF queuePromotion, UnlockReturn, Goto, Return, localVars, GroupReady
  <2>3. \A q \in Procs : group'[q] = {}
    BY <1>0, <1>2, <2>2
  <2>4. StatusMatchesTier'
    BY <1>2, <1>6, <2>1 DEF StatusMatchesTier
  <2>5. PendingHeld'
    BY <1>0, <1>8, <2>1 DEF PendingHeld
  <2>6. Candidates'
    BY <1>0, <1>1, <1>2, <1>4, <1>6, <1>8, <2>1, <2>2 DEF Candidates
  <2>7. GroupStatus'
    BY <2>3 DEF GroupStatus
  <2>8. Widths'
    <3>1. \A q \in Procs : Cardinality(group'[q]) <= Width
      BY <2>3, Empty
    <3>2. Cardinality(promotionPending') <= Width
      BY <1>3, <1>5, <2>1
    <3>3. (\A q \in Procs : pc'[q] # "group") => Cardinality(promotionPending') < Width
      BY <2>1, <2>2
    <3> QED
      BY <3>1, <3>2, <3>3 DEF Widths
  <2> QED
    BY <2>4, <2>5, <2>6, <2>7, <2>8 DEF CandidatesInv
<1> QED
  BY <1>7, <1>8

\* buildPromotionGroupLocked: nothing it visits is stale, and a full group takes
\* every waiting candidate.
LEMMA CandidatesGroup ==
  ASSUME PromotionInv, NEW p \in Procs, buildPromotionGroupLocked(p)
  PROVE  CandidatesInv'
<1> USE CacheAssumption DEF PromotionInv, TypeOK, SharedTypeOK, LocalTypeOK, OthersStay
<1>0. OthersStay(p)
  BY OneMoves DEF Step
<1>1. pc[p] = "group" /\ HoldsMu(p)
  BY DEF buildPromotionGroupLocked, HoldsMu, LockedLabels
<1>2. \A q \in Procs : group[q] = {} /\ (q # p => pc[q] \notin {"group", "solo"})
  BY <1>1, OneGroup DEF GroupFrame, ReserveLabels, HoldsMu, LockedLabels
<1>3. IsFiniteSet(promotionPending) /\ Cardinality(promotionPending) <= Width
  BY FS_Subset DEF Widths
<1>4. PICK visited \in SUBSET promotionPending :
        LET fresh == {k \in visited : tables[k] = "decoded"}
            full == Cardinality(fresh) = Width
        IN  /\ full \/ (visited = promotionPending /\ Cardinality(fresh) < Width)
            /\ status' = [k \in Keys |-> IF k \in visited \ fresh THEN "complete"
                                         ELSE IF full /\ k \in fresh THEN "building"
                                         ELSE status[k]]
            /\ promotionPending' = promotionPending \ (IF full THEN visited ELSE visited \ fresh)
            /\ IF full THEN BuildGroup(p, fresh) /\ UNCHANGED promotionMu
               ELSE UnlockReturn(p)
  BY DEF buildPromotionGroupLocked
<1>5. {k \in visited : tables[k] = "decoded"} = visited
  BY DEF Candidates
<1>6. tables' = tables
  BY DEF buildPromotionGroupLocked, tableVars
<1>7. CASE Cardinality(visited) = Width
  <2>1. visited = promotionPending
    <3>1. Cardinality(visited) <= Cardinality(promotionPending) /\ Cardinality(promotionPending) \in Nat
          /\ (Cardinality(promotionPending) = Cardinality(visited) => promotionPending = visited)
      BY <1>3, FS_Subset, FS_CardinalityType
    <3> QED
      BY <1>3, <1>7, <3>1
  <2>2. promotionPending' = {} /\ BuildGroup(p, visited) /\ promotionMu' = promotionMu
    BY <1>4, <1>5, <1>7, <2>1
  <2>3. \A k \in Keys : status'[k] = IF k \in visited THEN "building" ELSE status[k]
    BY <1>4, <1>5, <1>7
  <2>4. group'[p] = visited /\ pc'[p] = "buildWarm" /\ \A q \in Procs \ {p} : group'[q] = {}
    BY <1>0, <1>2, <2>2 DEF BuildGroup
  <2>5. promotionMu = p
    BY <1>1, OneGroup
  <2>6. StatusMatchesTier'
    BY <1>2, <1>6, <2>2, <2>3, <2>4, <2>5 DEF StatusMatchesTier, Candidates
  <2>7. PendingHeld'
    BY <1>0, <1>1, <2>1, <2>2, <2>3 DEF PendingHeld
  <2>8. Candidates'
    BY <1>0, <1>2, <2>2, <2>4 DEF Candidates
  <2>9. GroupStatus'
    BY <1>6, <2>3, <2>4 DEF GroupStatus, Candidates
  <2>10. Widths'
    <3>1. \A q \in Procs : Cardinality(group'[q]) <= Width
      <4>1. Cardinality(group'[p]) = Width /\ Width <= Width
        BY <1>7, <2>4
      <4>2. \A q \in Procs \ {p} : Cardinality(group'[q]) = 0
        BY <2>4, Empty
      <4> QED
        BY <4>1, <4>2, Empty
    <3>2. Cardinality(promotionPending') < Width
      BY <2>2, Empty
    <3> QED
      BY <2>2, <3>1, <3>2, Empty DEF Widths
  <2> QED
    BY <2>6, <2>7, <2>8, <2>9, <2>10 DEF CandidatesInv
<1>8. CASE Cardinality(visited) # Width
  <2>1. visited = promotionPending /\ Cardinality(promotionPending) < Width
    BY <1>4, <1>5, <1>8
  <2>2. promotionPending' = promotionPending /\ UnlockReturn(p)
    BY <1>4, <1>5, <1>8
  <2>3. \A k \in Keys : status'[k] = status[k]
    BY <1>4, <1>5, <1>8
  <2>4. pc'[p] = "idle" /\ \A q \in Procs : group'[q] = {}
    BY <1>0, <1>2, <2>2 DEF UnlockReturn, Return
  <2>5. StatusMatchesTier'
    BY <1>2, <1>6, <2>3 DEF StatusMatchesTier
  <2>6. PendingHeld'
    BY <1>0, <1>1, <2>2, <2>3 DEF PendingHeld
  <2>7. Candidates'
    BY <1>0, <1>6, <2>2, <2>3, <2>4 DEF Candidates
  <2>8. GroupStatus' /\ Widths'
    BY <2>1, <2>2, <2>4, Empty DEF GroupStatus, Widths
  <2> QED
    BY <2>5, <2>6, <2>7, <2>8 DEF CandidatesInv
<1> QED
  BY <1>7, <1>8

\* buildSoloPromotionLocked: the flushed candidate is a pending first-tier table.
LEMMA CandidatesSolo ==
  ASSUME PromotionInv, NEW p \in Procs, buildSoloPromotionLocked(p)
  PROVE  CandidatesInv'
<1> USE CacheAssumption DEF PromotionInv, TypeOK, SharedTypeOK, LocalTypeOK, OthersStay
<1> DEFINE k == key[p]
<1>0. OthersStay(p)
  BY OneMoves DEF Step
<1>1. pc[p] = "solo" /\ k \in Keys /\ HoldsMu(p) /\ k \in promotionPending
  BY DEF buildSoloPromotionLocked, HoldsMu, LockedLabels, Candidates
<1>2. \A q \in Procs : group[q] = {} /\ (q # p => pc[q] \notin {"group", "solo"})
  BY <1>1, OneGroup DEF GroupFrame, ReserveLabels, HoldsMu, LockedLabels
<1>3. status[k] = "pending" /\ tables[k] = "decoded"
  BY <1>1 DEF Candidates
<1>4. /\ promotionPending' = promotionPending \ {k} /\ status' = [status EXCEPT ![k] = "building"]
      /\ BuildGroup(p, {k}) /\ promotionMu' = promotionMu /\ tables' = tables
  BY <1>3 DEF buildSoloPromotionLocked, tableVars
<1>5. group'[p] = {k} /\ pc'[p] = "buildWarm" /\ \A q \in Procs \ {p} : group'[q] = {}
  BY <1>0, <1>2, <1>4 DEF BuildGroup
<1>6. promotionMu = p
  BY <1>1, OneGroup
<1>7. StatusMatchesTier'
  BY <1>2, <1>3, <1>4, <1>5, <1>6 DEF StatusMatchesTier
<1>8. PendingHeld'
  BY <1>0, <1>1, <1>4 DEF PendingHeld
<1>9. Candidates'
  BY <1>0, <1>2, <1>4, <1>5 DEF Candidates
<1>10. GroupStatus'
  BY <1>1, <1>3, <1>4, <1>5 DEF GroupStatus
<1>11. Widths'
  <2>1. Cardinality(promotionPending) < Width /\ Cardinality(promotionPending) \in Nat
    <3>1. Cardinality(promotionPending) \in Nat
      BY FS_Subset, FS_CardinalityType
    <3> QED
      BY <3>1, <1>1, <1>2 DEF Widths
  <2>2. Cardinality(promotionPending') <= Cardinality(promotionPending)
        /\ Cardinality(promotionPending') \in Nat
    <3>1. IsFiniteSet(promotionPending) /\ promotionPending' \subseteq promotionPending
      BY <1>4, FS_Subset
    <3> QED
      BY <3>1, FS_Subset, FS_CardinalityType
  <2>3. Cardinality(group'[p]) <= Width
    <3>1. Cardinality({k}) = 1
      BY FS_Singleton
    <3> QED
      BY <1>5, <3>1
  <2>4. \A q \in Procs : Cardinality(group'[q]) <= Width
    BY <1>5, <2>3, Empty
  <2>5. Cardinality(promotionPending') < Width /\ Cardinality(promotionPending') <= Width
    BY <2>1, <2>2
  <2> QED
    BY <2>4, <2>5 DEF Widths
<1> QED
  BY <1>7, <1>8, <1>9, <1>10, <1>11 DEF CandidatesInv

\* A fault of the warm build, or a budget that refuses it, disables the whole
\* group; a success goes on to reserve the bytes of the whole group.
LEMMA CandidatesBuild ==
  ASSUME PromotionInv, NEW p \in Procs, BuildWarm(p) \/ RefuseGroup(p)
  PROVE  CandidatesInv'
<1> USE CacheAssumption DEF PromotionInv, TypeOK, SharedTypeOK, LocalTypeOK, OthersStay
<1>0. OthersStay(p)
  BY OneMoves DEF Step
<1>1. pc[p] \in {"buildWarm", "refused"} /\ HoldsMu(p)
  BY DEF BuildWarm, RefuseGroup, HoldsMu, LockedLabels, ReserveLabels
<1>2. \A q \in Procs \ {p} : group[q] = {} /\ pc[q] \notin {"group", "solo"}
  BY <1>1, OneGroup DEF HoldsMu, LockedLabels
<1>3. promotionMu = p /\ tables' = tables /\ promotionPending' = promotionPending
  BY <1>1, OneGroup DEF BuildWarm, RefuseGroup, tableVars
<1>4. Cardinality(promotionPending) < Width
  BY <1>1, <1>2 DEF Widths
<1>5. \A k \in group[p] : k \in Keys /\ tables[k] = "decoded" /\ status[k] = "building"
  BY <1>1 DEF GroupStatus
<1>6. CASE pc'[p] = "reserve" /\ group'[p] = group[p] /\ status' = status /\ promotionMu' = promotionMu
  <2>1. \A q \in Procs : group'[q] = group[q]
    BY <1>0, <1>6
  <2>2. StatusMatchesTier'
    BY <1>3, <1>6, <2>1 DEF StatusMatchesTier
  <2>3. PendingHeld'
    BY <1>0, <1>1, <1>3, <1>6 DEF PendingHeld
  <2>4. Candidates' /\ GroupStatus'
    BY <1>0, <1>1, <1>3, <1>6, <2>1 DEF Candidates, GroupStatus
  <2>5. Widths'
    BY <1>3, <1>4, <2>1 DEF Widths
  <2> QED
    BY <2>2, <2>3, <2>4, <2>5 DEF CandidatesInv
<1>7. CASE UnlockReturn(p) /\ StoreGroup(p, "disabled")
  <2>1. pc'[p] = "idle" /\ \A q \in Procs : group'[q] = {}
    BY <1>0, <1>2, <1>7 DEF UnlockReturn, Return
  <2>2. \A k \in Keys : status'[k] = IF k \in group[p] THEN "disabled" ELSE status[k]
    BY <1>7 DEF StoreGroup
  <2>3. StatusMatchesTier'
    BY <1>3, <1>5, <2>2 DEF StatusMatchesTier
  <2>4. PendingHeld'
    BY <1>0, <1>1, <1>3, <2>2 DEF PendingHeld
  <2>5. Candidates'
    BY <1>0, <1>3, <1>5, <2>1, <2>2 DEF Candidates
  <2>6. GroupStatus'
    BY <2>1 DEF GroupStatus
  <2>7. Widths'
    <3>1. \A q \in Procs : Cardinality(group'[q]) <= Width
      BY <2>1, Empty
    <3> QED
      BY <1>3, <1>4, <3>1 DEF Widths
  <2> QED
    BY <2>3, <2>4, <2>5, <2>6, <2>7 DEF CandidatesInv
<1> QED
  BY <1>6, <1>7 DEF BuildWarm, RefuseGroup, Goto, localVars

\* commitPromotionLocked installs the group's tables, each before its status.
LEMMA CandidatesInstall ==
  ASSUME PromotionInv, NEW p \in Procs, InstallTable(p) \/ InstallStatus(p) \/ InstallDone(p)
  PROVE  CandidatesInv'
<1> USE CacheAssumption DEF PromotionInv, TypeOK, SharedTypeOK, LocalTypeOK, OthersStay
<1>0. OthersStay(p)
  BY OneMoves DEF Step
<1>1. pc[p] = "install" /\ HoldsMu(p)
  BY DEF InstallTable, InstallStatus, InstallDone, HoldsMu, LockedLabels
<1>2. \A q \in Procs \ {p} : group[q] = {} /\ pc[q] \notin {"group", "solo"}
  BY <1>1, OneGroup DEF HoldsMu, LockedLabels
<1>3. promotionMu = p /\ promotionPending' = promotionPending
  BY <1>1, OneGroup DEF InstallTable, InstallStatus, InstallDone, promotionVars
<1>4. Cardinality(promotionPending) < Width
  BY <1>1, <1>2 DEF Widths
<1>5. CASE InstallTable(p) \/ InstallStatus(p)
  <2>1. PICK k \in group[p] : \/ /\ tables[k] # "warm" /\ tables' = [tables EXCEPT ![k] = "warm"]
                                 /\ status' = status
                              \/ /\ tables[k] = "warm" /\ status' = [status EXCEPT ![k] = "complete"]
                                 /\ tables' = tables
    BY <1>5 DEF InstallTable, InstallStatus, Stored, tableVars, promotionVars
  <2>2. pc' = pc /\ key' = key /\ group' = group /\ promotionMu' = promotionMu
    BY <1>5 DEF InstallTable, InstallStatus, localVars, promotionVars
  <2>3. k \in Keys /\ status[k] \in {"building", "complete"} /\ tables[k] \in {"decoded", "warm"}
    BY <2>1 DEF GroupStatus
  <2>4. StatusMatchesTier'
    BY <1>1, <1>3, <2>1, <2>2, <2>3 DEF StatusMatchesTier, GroupStatus
  <2>5. PendingHeld'
    BY <1>3, <2>1, <2>2, <2>3 DEF PendingHeld
  <2>6. Candidates'
    BY <1>3, <2>1, <2>2, <2>3 DEF Candidates
  <2>7. GroupStatus'
    BY <1>1, <1>2, <2>1, <2>2, <2>3 DEF GroupStatus
  <2>8. Widths'
    BY <1>3, <2>2 DEF Widths
  <2> QED
    BY <2>4, <2>5, <2>6, <2>7, <2>8 DEF CandidatesInv
<1>6. CASE InstallDone(p)
  <2>1. /\ status' = status /\ tables' = tables /\ UnlockReturn(p)
        /\ \A k \in group[p] : tables[k] = "warm" /\ status[k] = "complete"
    BY <1>6 DEF InstallDone, tableVars
  <2>2. pc'[p] = "idle" /\ \A q \in Procs : group'[q] = {}
    BY <1>0, <1>2, <2>1 DEF UnlockReturn, Return
  <2>3. StatusMatchesTier'
    BY <1>3, <2>1 DEF StatusMatchesTier
  <2>4. PendingHeld'
    BY <1>0, <1>1, <1>3, <2>1 DEF PendingHeld
  <2>5. Candidates' /\ GroupStatus'
    BY <1>0, <1>3, <2>1, <2>2 DEF Candidates, GroupStatus
  <2>6. Widths'
    <3>1. \A q \in Procs : Cardinality(group'[q]) <= Width
      BY <2>2, Empty
    <3> QED
      BY <1>3, <1>4, <3>1 DEF Widths
  <2> QED
    BY <2>3, <2>4, <2>5, <2>6 DEF CandidatesInv
<1> QED
  BY <1>5, <1>6


\* Every step keeps the promotion invariant.
LEMMA PromotionStep ==
  ASSUME PromotionInv, [Next]_vars
  PROVE  PromotionInv'
<1>1. CASE UNCHANGED vars
  BY <1>1 DEF vars, shared, tableVars, promotionVars, localVars, statVars, admissionVars, PromotionInv,
     TypeOK, SharedTypeOK, LocalTypeOK, GroupFrame, LockHeld, HoldsMu, PreKnown, StatusMatchesTier,
     PendingHeld, Candidates, GroupStatus, Widths
<1>2. ASSUME NEW p \in Procs, Begin(p) \/ Step(p)
      PROVE  PromotionInv'
  <2>1. Next
    BY <1>2 DEF Next
  <2>2. TypeOK' /\ GroupFrame'
    BY <2>1, TypeStep, FrameStep DEF PromotionInv
  <2>3. LockHeld' /\ PreKnown'
    BY <1>2, LockStep, PreStep DEF PromotionInv
  <2>4. CandidatesInv'
    BY <1>2, CandidatesAdmission, CandidatesPromote, CandidatesQueue, CandidatesGroup, CandidatesSolo,
       CandidatesBuild, CandidatesInstall DEF Step, AdmissionStep
  <2> QED
    BY <2>2, <2>3, <2>4 DEF PromotionInv, CandidatesInv
<1> QED
  BY <1>1, <1>2 DEF Next

\* The promotion invariant holds in every reachable state.
THEOREM PromotionInvariant == Spec => []PromotionInv
<1>1. Init => PromotionInv
  <2> SUFFICES ASSUME Init
               PROVE  PromotionInv
    OBVIOUS
  <2>1. TypeOK
    BY CacheAssumption DEF Init, TypeOK, SharedTypeOK, LocalTypeOK, Labels, Tiers, Statuses, Earned,
       admissionComplete
  <2>2. GroupFrame /\ LockHeld /\ PreKnown /\ StatusMatchesTier /\ PendingHeld /\ Candidates /\ GroupStatus
    BY CacheAssumption DEF Init, GroupFrame, LockHeld, HoldsMu, LockedLabels, ReserveLabels, PreKnown,
       PromoterLabels, QueueLabels, StatusMatchesTier, PendingHeld, Candidates, GroupStatus
  <2>3. Widths
    BY Empty DEF Init, Widths
  <2> QED
    BY <2>1, <2>2, <2>3 DEF PromotionInv
<1>2. PromotionInv /\ [Next]_vars => PromotionInv'
  BY PromotionStep
<1> QED
  BY <1>1, <1>2, PTL DEF Spec

\* No candidate is lost and every status tells the truth about its table
\* (queuePromotion to commitPromotionLocked), in every interleaving of any number
\* of goroutines: promotionMu is held whenever the candidates change, and a full
\* group always leaves with its last member.
THEOREM CandidatesTracked == Spec => []PendingTracked
<1>1. PromotionInv => PendingTracked
  <2> SUFFICES ASSUME PromotionInv, promotionMu = NoProc
               PROVE  Cardinality(promotionPending) < Width
    BY DEF PromotionInv, PendingTracked, PendingHeld, Candidates
  <2>1. \A p \in Procs : pc[p] # "group"
    BY CacheAssumption DEF PromotionInv, LockHeld, HoldsMu, LockedLabels
  <2> QED
    BY <2>1 DEF PromotionInv, Widths
<1> QED
  BY <1>1, PromotionInvariant, PTL

-----------------------------------------------------------------------------
(***************************************************************************)
(* The limits of the cache (bookkeeping slots, bytes, the statistics, and  *)
(* the verdicts that are final) and what its counters are worth.  A        *)
(* goroutine decides on a counter of another word than the table, so the   *)
(* proofs relate the admission counter and the hit counter to the verdicts *)
(* that were really given: no counter runs ahead of them, whence the cache *)
(* implements the abstract table store, and none lags behind while there   *)
(* is room.                                                                *)
(***************************************************************************)

-----------------------------------------------------------------------------
\* Sizes of sets.

\* Removing an element from a finite set takes one off its size.
LEMMA OneLess ==
  ASSUME NEW S, IsFiniteSet(S), NEW x \in S
  PROVE  /\ IsFiniteSet(S \ {x})
         /\ Cardinality(S) \in Nat /\ Cardinality(S \ {x}) \in Nat
         /\ Cardinality(S \ {x}) = Cardinality(S) - 1
<1>1. IsFiniteSet(S \ {x})
  BY FS_RemoveElement
<1>2. Cardinality(S) \in Nat /\ Cardinality(S \ {x}) \in Nat
  BY <1>1, FS_CardinalityType
<1>3. Cardinality(S \ {x}) = Cardinality(S) - 1
  BY FS_RemoveElement
<1> QED
  BY <1>1, <1>2, <1>3

\* Sets of goroutines and of keys have a size.
LEMMA Sizes ==
  /\ \A S \in SUBSET Procs : IsFiniteSet(S) /\ Cardinality(S) \in Nat
  /\ \A S \in SUBSET Keys : IsFiniteSet(S) /\ Cardinality(S) \in Nat
BY CacheAssumption, FS_Subset, FS_CardinalityType

-----------------------------------------------------------------------------
\* Bookkeeping slots.

SlotHolders == {p \in Procs : pc[p] \in {"publish", "unslot"}}

\* A goroutine that is about to take a slot has seen a free one.
SlotSeen == \A p \in Procs : pc[p] = "casSlot" => reg[p] < EntryLimit

SlotInv == TypeOK /\ SlotAccounting /\ SlotSeen

\* Every step keeps the slots accounted for: a slot is taken by the
\* compare-and-swap of a count below the limit, and is then published or given back.
LEMMA SlotStep ==
  ASSUME SlotInv, NEW p \in Procs, Begin(p) \/ Step(p)
  PROVE  SlotAccounting' /\ SlotSeen'
<1> USE CacheAssumption DEF SlotInv, TypeOK, SharedTypeOK, LocalTypeOK, OthersStay
<1>0. OthersStay(p)
  BY OneMoves
<1>1. SlotHolders \in SUBSET Procs /\ seen \in SUBSET Keys /\ SlotHolders' \in SUBSET Procs
  BY DEF SlotHolders
<1>2. /\ IsFiniteSet(SlotHolders) /\ Cardinality(SlotHolders) \in Nat
      /\ IsFiniteSet(seen) /\ Cardinality(seen) \in Nat
  BY <1>1, Sizes
<1>3. seenCount = Cardinality(seen) + Cardinality(SlotHolders) /\ seenCount <= EntryLimit
  BY DEF SlotAccounting, SlotHolders
<1> SUFFICES /\ seenCount' = Cardinality(seen') + Cardinality(SlotHolders')
             /\ seenCount' <= EntryLimit /\ SlotSeen'
  BY DEF SlotAccounting, SlotHolders
<1>4. CASE SlotCAS(p)
  <2>1. CASE SlotUnchanged(p)
    <3>1. /\ seenCount' = seenCount + 1 /\ seen' = seen /\ pc[p] = "casSlot" /\ pc'[p] = "publish"
          /\ seenCount < EntryLimit
      BY <1>4, <2>1 DEF SlotCAS, SlotUnchanged, Goto, SlotSeen
    <3>2. SlotHolders' = SlotHolders \cup {p} /\ p \notin SlotHolders
      BY <1>0, <3>1 DEF SlotHolders
    <3>3. Cardinality(SlotHolders') = Cardinality(SlotHolders) + 1
      BY <1>2, <3>2, OneMore
    <3> QED
      BY <1>0, <1>2, <1>3, <3>1, <3>3 DEF SlotSeen
  <2>2. CASE ~SlotUnchanged(p)
    <3>1. seenCount' = seenCount /\ seen' = seen /\ pc[p] = "casSlot" /\ pc'[p] = "slot"
      BY <1>4, <2>2 DEF SlotCAS, Goto
    <3>2. SlotHolders' = SlotHolders
      BY <1>0, <3>1 DEF SlotHolders
    <3> QED
      BY <1>0, <1>3, <3>1, <3>2 DEF SlotSeen
  <2> QED
    BY <2>1, <2>2
<1>5. CASE Publish(p)
  <2>1. CASE FirstPublisher(p)
    <3>1. /\ seenCount' = seenCount /\ seen' = seen \cup {key[p]} /\ key[p] \notin seen
          /\ pc[p] = "publish" /\ pc'[p] = "claim"
      BY <1>5, <2>1 DEF Publish, FirstPublisher, Goto
    <3>2. SlotHolders' = SlotHolders \ {p} /\ p \in SlotHolders
      BY <1>0, <3>1 DEF SlotHolders
    <3>3. /\ Cardinality(SlotHolders') = Cardinality(SlotHolders) - 1
          /\ Cardinality(seen') = Cardinality(seen) + 1
      BY <1>2, <3>1, <3>2, OneMore, OneLess
    <3> QED
      BY <1>0, <1>2, <1>3, <3>1, <3>3 DEF SlotSeen
  <2>2. CASE ~FirstPublisher(p)
    <3>1. seenCount' = seenCount /\ seen' = seen /\ pc[p] = "publish" /\ pc'[p] = "unslot"
      BY <1>5, <2>2 DEF Publish, Goto
    <3>2. SlotHolders' = SlotHolders
      BY <1>0, <3>1 DEF SlotHolders
    <3> QED
      BY <1>0, <1>3, <3>1, <3>2 DEF SlotSeen
  <2> QED
    BY <2>1, <2>2
<1>6. CASE SlotRelease(p)
  <2>1. seenCount' = seenCount - 1 /\ seen' = seen /\ pc[p] = "unslot" /\ pc'[p] = "claim"
    BY <1>6 DEF SlotRelease, Goto
  <2>2. SlotHolders' = SlotHolders \ {p} /\ p \in SlotHolders
    BY <1>0, <2>1 DEF SlotHolders
  <2>3. Cardinality(SlotHolders') = Cardinality(SlotHolders) - 1
    BY <1>2, <2>2, OneLess
  <2> QED
    BY <1>0, <1>2, <1>3, <2>1, <2>3 DEF SlotSeen
<1>7. CASE /\ seenCount' = seenCount /\ seen' = seen
           /\ pc[p] \notin {"publish", "unslot"} /\ pc'[p] \notin {"publish", "unslot"}
           /\ pc'[p] = "casSlot" => reg'[p] < EntryLimit
  <2>1. SlotHolders' = SlotHolders
    BY <1>0, <1>7 DEF SlotHolders
  <2> QED
    BY <1>0, <1>3, <1>7, <2>1 DEF SlotSeen
<1>8. CASE Begin(p) \/ lookup(p) \/ Verify(p)
  BY <1>7, <1>8 DEF Begin, lookup, Verify, Accept, Reject, Goto, Return, shared, admissionVars
<1>9. CASE AdmitTable(p) \/ AdmitBudget(p) \/ SeenLoad(p) \/ SlotLoad(p) \/ ClaimLoad(p) \/ ClaimCAS(p)
  BY <1>7, <1>9 DEF AdmitTable, AdmitBudget, SeenLoad, SlotLoad, SlotRefused, ClaimLoad, ClaimCAS, Goto,
     Load, Return, shared, admissionVars
<1>10. CASE \/ BuildBudget(p) \/ Build(p) \/ ReserveLoad(p) \/ ReserveCAS(p) \/ StoreTable(p)
            \/ CountTable(p) \/ Finish(p)
  BY <1>7, <1>10 DEF BuildBudget, Build, ReserveLoad, ReserveCAS, StoreTable, CountTable, Finish, Goto,
     Load, Return, shared, admissionVars
<1>11. CASE PromoteHit(p) \/ PromoteStatus(p) \/ PromoteCAS(p) \/ Lock(p) \/ queuePromotion(p)
  BY <1>7, <1>11 DEF PromoteHit, PromoteStatus, PromoteCAS, Lock, queuePromotion, UnlockReturn, CallQueue,
     Goto, Load, Return, shared, admissionVars
<1>12. CASE \/ buildPromotionGroupLocked(p) \/ buildSoloPromotionLocked(p) \/ BuildWarm(p)
            \/ RefuseGroup(p) \/ InstallTable(p) \/ InstallStatus(p) \/ InstallDone(p)
  BY ZenonT(60), <1>7, <1>12 DEF buildPromotionGroupLocked, buildSoloPromotionLocked, BuildWarm, RefuseGroup,
     InstallTable, InstallStatus, InstallDone, UnlockReturn, BuildGroup, Goto, Return, shared,
     admissionVars
<1> QED
  BY <1>4, <1>5, <1>6, <1>8, <1>9, <1>10, <1>11, <1>12 DEF Step

\* The bookkeeping map never grows past admissionEntryLimit and no slot leaks: the
\* counter of reserveAdmissionSlot equals the published keys plus the slots in the
\* hands of goroutines that publish or give back, in every interleaving.
THEOREM SlotsAccounted == Spec => []SlotAccounting
<1>1. Init => SlotInv
  <2> SUFFICES ASSUME Init
               PROVE  SlotInv
    OBVIOUS
  <2>1. TypeOK
    BY CacheAssumption DEF Init, TypeOK, SharedTypeOK, LocalTypeOK, Labels, Tiers, Statuses, Earned,
       admissionComplete
  <2>2. {p \in Procs : pc[p] \in {"publish", "unslot"}} = {} /\ seen = {} /\ seenCount = 0 /\ SlotSeen
    BY DEF Init, SlotSeen
  <2>3. SlotAccounting
    BY <2>2, Empty, CacheAssumption DEF SlotAccounting
  <2> QED
    BY <2>1, <2>2, <2>3 DEF SlotInv
<1>2. SlotInv /\ [Next]_vars => SlotInv'
  <2> SUFFICES ASSUME SlotInv, [Next]_vars
               PROVE  SlotInv'
    OBVIOUS
  <2>1. TypeOK'
    BY TypeStep DEF SlotInv
  <2>2. CASE UNCHANGED vars
    BY <2>1, <2>2 DEF SlotInv, SlotAccounting, SlotSeen, vars, shared, admissionVars, localVars
  <2>3. CASE Next
    BY <2>1, <2>3, SlotStep DEF SlotInv, Next
  <2> QED
    BY <2>2, <2>3
<1>3. SlotInv => SlotAccounting
  BY DEF SlotInv
<1> QED
  BY <1>1, <1>2, <1>3, PTL DEF Spec

-----------------------------------------------------------------------------
\* The sets that the byte counter and the statistics count.

HasTable == {k \in Keys : tables[k] # "none"}
Warm == {k \in Keys : tables[k] = "warm"}
Storing == {p \in Procs : pc[p] = "store"}
Counting == {p \in Procs : pc[p] = "count"}
Installing == {k \in Keys : \E p \in Procs : pc[p] = "install" /\ k \in group[p] /\ tables[k] # "warm"}
Installed == {k \in Keys : \E p \in Procs : pc[p] = "install" /\ k \in group[p] /\ tables[k] = "warm"}

\* Entries and upgrades that are stored, or paid for and about to be.
Entries == Cardinality(HasTable) + Cardinality(Storing)
Upgrades == Cardinality(Warm) + Cardinality(Installing)

\* All of them are sets of goroutines or of keys.
LEMMA LedgerSizes ==
  /\ \A S \in {HasTable, Warm, Installing, Installed, Storing, Counting} :
       IsFiniteSet(S) /\ Cardinality(S) \in Nat
  /\ \A S \in {HasTable', Warm', Installing', Installed', Storing', Counting'} :
       IsFiniteSet(S) /\ Cardinality(S) \in Nat
<1>1. /\ \A S \in {HasTable, Warm, Installing, Installed} : S \in SUBSET Keys
      /\ \A S \in {HasTable', Warm', Installing', Installed'} : S \in SUBSET Keys
      /\ \A S \in {Storing, Counting, Storing', Counting'} : S \in SUBSET Procs
  BY DEF HasTable, Warm, Installing, Installed, Storing, Counting
<1> QED
  BY <1>1, Sizes

\* The goroutine that stores a table is the first to do so: the branch of admit
\* that hands bytes back to another builder is never taken.
LEMMA StorerFirst ==
  ASSUME AdmissionInv, NEW p \in Procs, pc[p] = "store"
  PROVE  key[p] \in Keys /\ tables[key[p]] = "none"
<1> USE DEF AdmissionInv, TypeOK, LocalTypeOK, SingleBuilder
<1>1. key[p] \in Keys /\ IsBuilder(p)
  BY DEF IsBuilder, BuildLabels
<1>2. counter[key[p]] = -1
  BY <1>1 DEF BuilderMarked, admissionBuilding
<1>3. \A q \in Procs : key[q] = key[p] => pc[q] \notin {"count", "complete"}
  <2> SUFFICES ASSUME NEW q \in Procs, key[q] = key[p], pc[q] \in {"count", "complete"}
               PROVE  FALSE
    OBVIOUS
  <2>1. IsBuilder(q)
    BY DEF IsBuilder, BuildLabels
  <2> QED
    BY <1>1, <2>1 DEF BuilderUnique
<1> QED
  BY <1>1, <1>2, <1>3 DEF TableDecided, admissionComplete

\* Steps that no counted set sees.
LEMMA LedgerQuiet ==
  ASSUME TypeOK, NEW p \in Procs, OthersStay(p), tables' = tables,
         pc[p] \notin {"store", "count", "install"}, pc'[p] \notin {"store", "count", "install"}
  PROVE  /\ HasTable' = HasTable /\ Warm' = Warm /\ Storing' = Storing /\ Counting' = Counting
         /\ Installing' = Installing /\ Installed' = Installed
<1>1. \A q \in Procs : pc'[q] \in {"store", "count", "install"} \/ pc[q] \in {"store", "count", "install"}
                          => q # p /\ pc'[q] = pc[q] /\ group'[q] = group[q]
  BY DEF OthersStay
<1>2. HasTable' = HasTable /\ Warm' = Warm
  BY DEF HasTable, Warm
<1>3. Storing' = Storing /\ Counting' = Counting
  BY <1>1 DEF Storing, Counting
<1>4. Installing' = Installing
  BY <1>1 DEF Installing
<1>5. Installed' = Installed
  BY <1>1 DEF Installed
<1> QED
  BY <1>2, <1>3, <1>4, <1>5

\* The bytes of a single entry have just been reserved.
LEMMA LedgerReserve ==
  ASSUME TypeOK, NEW p \in Procs, OthersStay(p), tables' = tables,
         pc[p] = "casBytes", pc'[p] = "store"
  PROVE  /\ HasTable' = HasTable /\ Warm' = Warm /\ Counting' = Counting
         /\ Installing' = Installing /\ Installed' = Installed
         /\ Storing' = Storing \cup {p} /\ p \notin Storing
<1>1. \A q \in Procs : q = p \/ (pc'[q] = pc[q] /\ group'[q] = group[q])
  BY DEF OthersStay
<1>2. HasTable' = HasTable /\ Warm' = Warm
  BY DEF HasTable, Warm
<1>3. Storing' = Storing \cup {p} /\ p \notin Storing /\ Counting' = Counting
  BY <1>1 DEF Storing, Counting
<1>4. Installing' = Installing
  BY <1>1 DEF Installing
<1>5. Installed' = Installed
  BY <1>1 DEF Installed
<1> QED
  BY <1>2, <1>3, <1>4, <1>5

\* The bytes of a group of upgrades have just been reserved.
LEMMA LedgerReserveGroup ==
  ASSUME PromotionInv, NEW p \in Procs, OthersStay(p), tables' = tables,
         pc[p] = "casBytes", group[p] # {}, group'[p] = group[p], pc'[p] = "install"
  PROVE  /\ HasTable' = HasTable /\ Warm' = Warm /\ Storing' = Storing /\ Counting' = Counting
         /\ Installing = {} /\ Installing' = group[p] /\ Installed' = Installed
<1> USE DEF PromotionInv, TypeOK, LocalTypeOK
<1>1. \A q \in Procs : q = p \/ (pc'[q] = pc[q] /\ group'[q] = group[q])
  BY DEF OthersStay
<1>2. HoldsMu(p)
  BY DEF HoldsMu, ReserveLabels
<1>3. \A q \in Procs \ {p} : group[q] = {}
  BY <1>2, OneGroup
<1>4. group[p] \subseteq Keys /\ \A k \in group[p] : tables[k] = "decoded"
  BY DEF GroupStatus
<1>5. HasTable' = HasTable /\ Warm' = Warm
  BY DEF HasTable, Warm
<1>6. Storing' = Storing /\ Counting' = Counting
  BY <1>1 DEF Storing, Counting
<1>7. Installing = {} /\ Installed = {}
  BY <1>3 DEF Installing, Installed
<1>8. Installing' = group[p]
  BY <1>1, <1>3, <1>4 DEF Installing
<1>9. Installed' = {}
  BY <1>1, <1>3, <1>4 DEF Installed
<1> QED
  BY <1>5, <1>6, <1>7, <1>8, <1>9

\* A first-tier table has just been stored.
LEMMA LedgerStore ==
  ASSUME AdmissionInv, NEW p \in Procs, OthersStay(p), StoreTable(p)
  PROVE  /\ bytes' = bytes /\ key[p] \notin HasTable /\ HasTable' = HasTable \cup {key[p]}
         /\ Storing' = Storing \ {p} /\ p \in Storing
         /\ Counting' = Counting \cup {p} /\ p \notin Counting
         /\ Warm' = Warm /\ Installing' = Installing /\ Installed' = Installed
<1> USE DEF AdmissionInv, TypeOK, SharedTypeOK, LocalTypeOK
<1>0. pc[p] = "store"
  BY DEF StoreTable
<1>1. key[p] \in Keys /\ tables[key[p]] = "none"
  BY <1>0, StorerFirst
<1>2. /\ tables' = [tables EXCEPT ![key[p]] = "decoded"] /\ bytes' = bytes
      /\ pc'[p] = "count" /\ group'[p] = group[p]
  BY <1>0, <1>1 DEF StoreTable, Goto, localVars
<1>3. \A q \in Procs : q = p \/ (pc'[q] = pc[q] /\ group'[q] = group[q])
  BY DEF OthersStay
<1>4. HasTable' = HasTable \cup {key[p]} /\ key[p] \notin HasTable /\ Warm' = Warm
  BY <1>1, <1>2 DEF HasTable, Warm
<1>5. /\ Storing' = Storing \ {p} /\ p \in Storing
      /\ Counting' = Counting \cup {p} /\ p \notin Counting
  BY <1>0, <1>2, <1>3 DEF Storing, Counting
<1>6. \A q \in Procs : key[p] \notin group[q]
  BY <1>1 DEF GroupFrame
<1>7. Installing' = Installing
  BY <1>0, <1>2, <1>3, <1>6 DEF Installing
<1>8. Installed' = Installed
  BY <1>0, <1>1, <1>2, <1>3, <1>6 DEF Installed
<1> QED
  BY <1>2, <1>4, <1>5, <1>7, <1>8

\* A stored table has just been counted.
LEMMA LedgerCount ==
  ASSUME TypeOK, NEW p \in Procs, OthersStay(p), CountTable(p)
  PROVE  /\ HasTable' = HasTable /\ Warm' = Warm /\ Storing' = Storing
         /\ Installing' = Installing /\ Installed' = Installed
         /\ Counting' = Counting \ {p} /\ p \in Counting
<1> USE DEF TypeOK, SharedTypeOK, LocalTypeOK
<1>1. pc[p] = "count" /\ pc'[p] = "complete" /\ tables' = tables
  BY DEF CountTable, Goto
<1>2. \A q \in Procs : q = p \/ (pc'[q] = pc[q] /\ group'[q] = group[q])
  BY DEF OthersStay
<1>3. HasTable' = HasTable /\ Warm' = Warm
  BY <1>1 DEF HasTable, Warm
<1>4. Storing' = Storing /\ Counting' = Counting \ {p} /\ p \in Counting
  BY <1>1, <1>2 DEF Storing, Counting
<1>5. Installing' = Installing
  BY <1>1, <1>2 DEF Installing
<1>6. Installed' = Installed
  BY <1>1, <1>2 DEF Installed
<1> QED
  BY <1>3, <1>4, <1>5, <1>6

\* One table of a group has just been upgraded.
LEMMA LedgerInstall ==
  ASSUME PromotionInv, NEW p \in Procs, InstallTable(p)
  PROVE  /\ HasTable' = HasTable /\ Storing' = Storing /\ Counting' = Counting
         /\ \E k \in Keys : /\ Warm' = Warm \cup {k} /\ k \notin Warm
                            /\ Installing' = Installing \ {k} /\ k \in Installing
                            /\ Installed' = Installed \cup {k} /\ k \notin Installed
<1> USE DEF PromotionInv, TypeOK, SharedTypeOK, LocalTypeOK
<1>1. PICK k \in group[p] : tables[k] # "warm" /\ tables' = [tables EXCEPT ![k] = "warm"]
  BY DEF InstallTable
<1>2. pc' = pc /\ group' = group /\ pc[p] = "install"
  BY DEF InstallTable, localVars
<1>3. k \in Keys /\ tables[k] = "decoded"
  BY <1>1 DEF GroupStatus
<1>4. HasTable' = HasTable /\ Storing' = Storing /\ Counting' = Counting
  BY <1>1, <1>2, <1>3 DEF HasTable, Storing, Counting
<1>5. Warm' = Warm \cup {k} /\ k \notin Warm
  BY <1>1, <1>3 DEF Warm
<1>6. Installing' = Installing \ {k} /\ k \in Installing
  BY <1>1, <1>2, <1>3 DEF Installing
<1>7. Installed' = Installed \cup {k} /\ k \notin Installed
  BY <1>1, <1>2, <1>3 DEF Installed
<1> QED
  BY <1>3, <1>4, <1>5, <1>6, <1>7

\* The last table and status of a group have been stored.
LEMMA LedgerDone ==
  ASSUME PromotionInv, NEW p \in Procs, OthersStay(p), InstallDone(p)
  PROVE  /\ HasTable' = HasTable /\ Warm' = Warm /\ Storing' = Storing /\ Counting' = Counting
         /\ Installing = {} /\ Installing' = {}
         /\ Installed = group[p] /\ Installed' = {}
<1> USE DEF PromotionInv, TypeOK, SharedTypeOK, LocalTypeOK
<1>1. /\ pc[p] = "install" /\ pc'[p] = "idle" /\ tables' = tables
      /\ \A k \in group[p] : tables[k] = "warm"
  BY DEF InstallDone, UnlockReturn, Return, tableVars
<1>2. HoldsMu(p)
  BY <1>1 DEF HoldsMu, LockedLabels
<1>3. \A q \in Procs \ {p} : group[q] = {} /\ group'[q] = {} /\ pc'[q] = pc[q]
  BY <1>2, OneGroup DEF OthersStay
<1>4. HasTable' = HasTable /\ Warm' = Warm
  BY <1>1 DEF HasTable, Warm
<1>5. Storing' = Storing /\ Counting' = Counting
  BY <1>1, <1>3 DEF Storing, Counting
<1>6. Installing = {} /\ Installing' = {} /\ Installed' = {}
  BY <1>1, <1>3 DEF Installing, Installed
<1>7. Installed = group[p]
  BY <1>1, <1>3 DEF Installed
<1> QED
  BY <1>4, <1>5, <1>6, <1>7

-----------------------------------------------------------------------------
\* What one step does to the ledger.

\* Counted sets and counters stay.
LedgerSame ==
  /\ Cardinality(HasTable') = Cardinality(HasTable) /\ Cardinality(Warm') = Cardinality(Warm)
  /\ Entries' = Entries /\ Upgrades' = Upgrades /\ bytes' = bytes
  /\ count' + Cardinality(Counting') = count + Cardinality(Counting)
  /\ promoted' + Cardinality(Installed') = promoted + Cardinality(Installed)

\* One more table, or one more second-tier table, whose bytes were paid before.
LedgerStored ==
  /\ Entries' = Entries /\ Upgrades' = Upgrades /\ bytes' = bytes
  /\ \/ /\ Cardinality(HasTable') = Cardinality(HasTable) + 1
        /\ Cardinality(Warm') = Cardinality(Warm)
        /\ count' + Cardinality(Counting') = count + Cardinality(Counting) + 1
        /\ promoted' + Cardinality(Installed') = promoted + Cardinality(Installed)
     \/ /\ Cardinality(HasTable') = Cardinality(HasTable)
        /\ Cardinality(Warm') = Cardinality(Warm) + 1
        /\ count' + Cardinality(Counting') = count + Cardinality(Counting)
        /\ promoted' + Cardinality(Installed') = promoted + Cardinality(Installed) + 1

\* The goroutine pays for what it is about to store.
LedgerPaid(p) ==
  /\ Cardinality(HasTable') = Cardinality(HasTable) /\ Cardinality(Warm') = Cardinality(Warm)
  /\ pc[p] = "casBytes" /\ bytes = reg[p] /\ bytes' = bytes + Need(p)
  /\ \/ group[p] = {} /\ Entries' = Entries + 1 /\ Upgrades' = Upgrades
     \/ group[p] # {} /\ Entries' = Entries /\ Upgrades' = Upgrades + Cardinality(group[p])
  /\ count' + Cardinality(Counting') = count + Cardinality(Counting)
  /\ promoted' + Cardinality(Installed') = promoted + Cardinality(Installed)

\* Every step keeps the ledger, stores what was paid for, or pays.
LEMMA LedgerStep ==
  ASSUME AdmissionInv, PromotionInv, NEW p \in Procs, Begin(p) \/ Step(p)
  PROVE  LedgerSame \/ LedgerStored \/ LedgerPaid(p)
<1> USE DEF PromotionInv, TypeOK, SharedTypeOK, LocalTypeOK
<1>0. OthersStay(p)
  BY OneMoves
<1>a. /\ \A S \in {HasTable, Warm, Installing, Installed, Storing, Counting} :
           IsFiniteSet(S) /\ Cardinality(S) \in Nat
      /\ \A S \in {HasTable', Warm', Installing', Installed', Storing', Counting'} :
           IsFiniteSet(S) /\ Cardinality(S) \in Nat
  BY LedgerSizes
<1>b. count \in Nat /\ promoted \in Nat /\ bytes \in Int /\ group[p] \in SUBSET Keys
  OBVIOUS
<1>c. Cardinality(group[p]) \in Nat
  BY <1>b, Sizes
<1>d. CASE /\ tables' = tables /\ bytes' = bytes /\ count' = count /\ promoted' = promoted
           /\ pc[p] \notin {"store", "count", "install"} /\ pc'[p] \notin {"store", "count", "install"}
  BY <1>0, <1>d, LedgerQuiet DEF LedgerSame, Entries, Upgrades
<1>1. CASE ReserveCAS(p)
  <2>1. /\ pc[p] = "casBytes" /\ tables' = tables /\ count' = count /\ promoted' = promoted
        /\ group'[p] = group[p]
    BY <1>1 DEF ReserveCAS, promotionVars, Goto, localVars
  <2>2. CASE bytes # reg[p]
    <3>1. bytes' = bytes /\ pc'[p] = "reserve"
      BY <1>1, <2>2 DEF ReserveCAS, Goto
    <3> QED
      BY <1>d, <2>1, <3>1
  <2>3. CASE bytes = reg[p] /\ group[p] = {}
    <3>1. bytes' = bytes + Need(p) /\ pc'[p] = "store"
      BY <1>1, <2>3 DEF ReserveCAS, Goto
    <3>2. /\ HasTable' = HasTable /\ Warm' = Warm /\ Counting' = Counting
          /\ Installing' = Installing /\ Installed' = Installed
          /\ Storing' = Storing \cup {p} /\ p \notin Storing
      BY <1>0, <2>1, <3>1, LedgerReserve
    <3>3. Cardinality(Storing') = Cardinality(Storing) + 1
      BY <1>a, <3>2, OneMore
    <3>4. Entries' = Entries + 1 /\ Upgrades' = Upgrades
      BY <1>a, <3>2, <3>3 DEF Entries, Upgrades
    <3> QED
      BY <2>1, <2>3, <3>1, <3>2, <3>4 DEF LedgerPaid
  <2>4. CASE bytes = reg[p] /\ group[p] # {}
    <3>1. bytes' = bytes + Need(p) /\ pc'[p] = "install"
      BY <1>1, <2>4 DEF ReserveCAS, Goto
    <3>2. /\ HasTable' = HasTable /\ Warm' = Warm /\ Storing' = Storing /\ Counting' = Counting
          /\ Installing = {} /\ Installing' = group[p] /\ Installed' = Installed
      BY <1>0, <2>1, <2>4, <3>1, LedgerReserveGroup
    <3>3. Entries' = Entries /\ Upgrades' = Upgrades + Cardinality(group[p])
      BY <1>a, <1>c, <3>2, Empty DEF Entries, Upgrades
    <3> QED
      BY <2>1, <2>4, <3>1, <3>2, <3>3 DEF LedgerPaid
  <2> QED
    BY <2>2, <2>3, <2>4
<1>2. CASE StoreTable(p)
  <2>1. /\ bytes' = bytes /\ key[p] \notin HasTable /\ HasTable' = HasTable \cup {key[p]}
        /\ Storing' = Storing \ {p} /\ p \in Storing
        /\ Counting' = Counting \cup {p} /\ p \notin Counting
        /\ Warm' = Warm /\ Installing' = Installing /\ Installed' = Installed
    BY <1>0, <1>2, LedgerStore
  <2>2. count' = count /\ promoted' = promoted
    BY <1>2 DEF StoreTable, promotionVars
  <2>3. /\ Cardinality(HasTable') = Cardinality(HasTable) + 1
        /\ Cardinality(Storing') = Cardinality(Storing) - 1
        /\ Cardinality(Counting') = Cardinality(Counting) + 1
    BY <1>a, <2>1, OneMore, OneLess
  <2>4. Entries' = Entries /\ Upgrades' = Upgrades
    BY <1>a, <2>1, <2>3 DEF Entries, Upgrades
  <2> QED
    BY <1>a, <1>b, <2>1, <2>2, <2>3, <2>4 DEF LedgerStored
<1>3. CASE CountTable(p)
  <2>1. /\ HasTable' = HasTable /\ Warm' = Warm /\ Storing' = Storing
        /\ Installing' = Installing /\ Installed' = Installed
        /\ Counting' = Counting \ {p} /\ p \in Counting
    BY <1>0, <1>3, LedgerCount
  <2>2. count' = count + 1 /\ promoted' = promoted /\ bytes' = bytes
    BY <1>3 DEF CountTable, promotionVars
  <2>3. Cardinality(Counting') = Cardinality(Counting) - 1
    BY <1>a, <2>1, OneLess
  <2> QED
    BY <1>a, <1>b, <2>1, <2>2, <2>3 DEF LedgerSame, Entries, Upgrades
<1>4. CASE InstallTable(p)
  <2>1. HasTable' = HasTable /\ Storing' = Storing /\ Counting' = Counting
    BY <1>4, LedgerInstall
  <2>2. PICK k \in Keys : /\ Warm' = Warm \cup {k} /\ k \notin Warm
                          /\ Installing' = Installing \ {k} /\ k \in Installing
                          /\ Installed' = Installed \cup {k} /\ k \notin Installed
    BY <1>4, LedgerInstall
  <2>3. count' = count /\ promoted' = promoted /\ bytes' = bytes
    BY <1>4 DEF InstallTable, promotionVars
  <2>4. /\ Cardinality(Warm') = Cardinality(Warm) + 1
        /\ Cardinality(Installing') = Cardinality(Installing) - 1
        /\ Cardinality(Installed') = Cardinality(Installed) + 1
    BY <1>a, <2>2, OneMore, OneLess
  <2>5. Entries' = Entries /\ Upgrades' = Upgrades
    BY <1>a, <2>1, <2>4 DEF Entries, Upgrades
  <2> QED
    BY <1>a, <1>b, <2>1, <2>3, <2>4, <2>5 DEF LedgerStored
<1>5. CASE InstallStatus(p)
  <2>1. /\ tables' = tables /\ pc' = pc /\ group' = group /\ bytes' = bytes /\ count' = count
        /\ promoted' = promoted
    BY <1>5 DEF InstallStatus, tableVars, localVars
  <2>2. /\ HasTable' = HasTable /\ Warm' = Warm /\ Storing' = Storing /\ Counting' = Counting
        /\ Installing' = Installing /\ Installed' = Installed
    BY <2>1 DEF HasTable, Warm, Storing, Counting, Installing, Installed
  <2> QED
    BY <2>1, <2>2 DEF LedgerSame, Entries, Upgrades
<1>6. CASE InstallDone(p)
  <2>1. /\ HasTable' = HasTable /\ Warm' = Warm /\ Storing' = Storing /\ Counting' = Counting
        /\ Installing = {} /\ Installing' = {}
        /\ Installed = group[p] /\ Installed' = {}
    BY <1>0, <1>6, LedgerDone
  <2>2. promoted' = promoted + Cardinality(group[p]) /\ count' = count /\ bytes' = bytes
    BY <1>6 DEF InstallDone, Unique, tableVars
  <2>3. promoted' + Cardinality(Installed') = promoted + Cardinality(Installed)
    BY <1>b, <1>c, <2>1, <2>2, Empty
  <2> QED
    BY <2>1, <2>2, <2>3 DEF LedgerSame, Entries, Upgrades
<1>7. CASE Begin(p) \/ lookup(p) \/ Verify(p)
  BY <1>d, <1>7 DEF Begin, lookup, Verify, Accept, Reject, Goto, Return, shared, tableVars, promotionVars
<1>8. CASE \/ AdmitTable(p) \/ AdmitBudget(p) \/ SeenLoad(p) \/ SlotLoad(p) \/ SlotCAS(p)
           \/ Publish(p) \/ SlotRelease(p) \/ ClaimLoad(p) \/ ClaimCAS(p)
  BY <1>d, <1>8 DEF AdmitTable, AdmitBudget, SeenLoad, SlotLoad, SlotRefused, SlotCAS, Publish,
     SlotRelease, ClaimLoad, ClaimCAS, Goto, Load, Return, shared, tableVars, promotionVars
<1>9. CASE BuildBudget(p) \/ Build(p) \/ ReserveLoad(p) \/ Finish(p)
  BY <1>d, <1>9 DEF BuildBudget, Build, ReserveLoad, Finish, Goto, Load, Return, shared, tableVars,
     promotionVars
<1>10. CASE PromoteHit(p) \/ PromoteStatus(p) \/ PromoteCAS(p) \/ Lock(p) \/ queuePromotion(p)
  BY <1>d, <1>10 DEF PromoteHit, PromoteStatus, PromoteCAS, Lock, queuePromotion, UnlockReturn, CallQueue,
     Goto, Load, Return, shared, tableVars, promotionVars
<1>11. CASE \/ buildPromotionGroupLocked(p) \/ buildSoloPromotionLocked(p) \/ BuildWarm(p)
            \/ RefuseGroup(p)
  BY ZenonT(60), <1>d, <1>11 DEF buildPromotionGroupLocked, buildSoloPromotionLocked, BuildWarm, RefuseGroup,
     UnlockReturn, BuildGroup, Goto, Return, shared, tableVars, promotionVars
<1> QED
  BY <1>1, <1>2, <1>3, <1>4, <1>5, <1>6, <1>7, <1>8, <1>9, <1>10, <1>11 DEF Step

-----------------------------------------------------------------------------
\* Bytes.

\* A product of naturals is a natural, and grows with its factors.
LEMMA Products ==
  /\ \A a, b \in Nat : a * b \in Nat
  /\ \A a, b, c \in Nat : a <= b => a * c <= b * c
<1>1. \A a, b \in Nat : a * b \in Nat
  OBVIOUS
<1>2. ASSUME NEW a \in Nat, NEW b \in Nat, NEW c \in Nat, a <= b
      PROVE  a * c <= b * c
  <2>1. PICK d \in Nat : b = a + d
    <3>1. b - a \in Nat /\ b = a + (b - a)
      BY <1>2
    <3> QED
      BY <3>1
  <2>2. b * c = a * c + d * c
    BY <2>1
  <2> QED
    BY <1>1, <2>2
<1> QED
  BY <1>1, <1>2

Upgrade == WarmBytes - DecodedBytes

\* The byte counter is the price of the entries and of the upgrades.
Priced == bytes = DecodedBytes * Entries + Upgrade * Upgrades /\ bytes <= MaxBytes

\* The counter splits into what is stored and what is in flight.
LEMMA PricedIsExact == ByteAccounting <=> Priced
<1> DEFINE D == DecodedBytes
           U == Upgrade
           h == Cardinality(HasTable)
           w == Cardinality(Warm)
           s == Cardinality(Storing)
           i == Cardinality(Installing)
<1>1. /\ D \in Int /\ U \in Int /\ h \in Int /\ w \in Int /\ s \in Int /\ i \in Int
  BY CacheAssumption, LedgerSizes DEF Upgrade
<1>2. Footprint = D * h + U * w /\ InFlight = D * s + U * i
  BY DEF Footprint, InFlight, HasTable, Warm, Storing, Installing, Upgrade
<1>3. D * h + U * w + (D * s + U * i) = D * (h + s) + U * (w + i)
  <2> HIDE DEF D, U, h, w, s, i
  <2> QED
    BY <1>1
<1> QED
  BY <1>2, <1>3 DEF ByteAccounting, Priced, Entries, Upgrades

\* Prices and counts are naturals, and so is what a goroutine asks for.
LEMMA Prices ==
  ASSUME TypeOK
  PROVE  /\ DecodedBytes \in Nat /\ Upgrade \in Nat /\ MaxBytes \in Nat /\ Width \in Nat
         /\ Entries \in Nat /\ Upgrades \in Nat
         /\ \A p \in Procs : Cardinality(group[p]) \in Nat /\ Need(p) \in Nat
<1>1. DecodedBytes \in Nat /\ Upgrade \in Nat /\ MaxBytes \in Nat /\ Width \in Nat
  BY CacheAssumption DEF Upgrade
<1>2. Entries \in Nat /\ Upgrades \in Nat
  BY LedgerSizes DEF Entries, Upgrades
<1>3. ASSUME NEW p \in Procs
      PROVE  Cardinality(group[p]) \in Nat /\ Need(p) \in Nat
  <2>1. Cardinality(group[p]) \in Nat
    BY Sizes DEF TypeOK, LocalTypeOK
  <2>2. Cardinality(group[p]) * Upgrade \in Nat
    BY <1>1, <2>1, Products
  <2> QED
    BY <1>1, <2>1, <2>2 DEF Need, Upgrade
<1> QED
  BY <1>1, <1>2, <1>3

\* A goroutine that is about to reserve bytes saw that they fit; one that was
\* refused, or disables its key, was refused for good.
BudgetFrame ==
  \A p \in Procs :
    /\ pc[p] = "casBytes" => reg[p] + Need(p) <= MaxBytes
    /\ pc[p] = "refused" => bytes + Need(p) > MaxBytes
    /\ pc[p] = "disable" => key[p] \notin Buildable \/ bytes + DecodedBytes > MaxBytes

BudgetInv ==
  /\ AdmissionInv /\ PromotionInv /\ BudgetFrame
  /\ ByteAccounting /\ StatsExact /\ DisabledJustified /\ PromotionDisabledJustified

\* Nothing is paid beyond the budget, and the price is what is added.
LEMMA PricedStep ==
  ASSUME AdmissionInv, PromotionInv, BudgetFrame, Priced, NEW p \in Procs, Begin(p) \/ Step(p)
  PROVE  Priced' /\ bytes' \in Nat /\ bytes \in Nat /\ bytes <= bytes'
<1>1. /\ DecodedBytes \in Nat /\ Upgrade \in Nat /\ MaxBytes \in Nat
      /\ Entries \in Nat /\ Upgrades \in Nat
      /\ Cardinality(group[p]) \in Nat /\ Need(p) \in Nat
  BY Prices DEF AdmissionInv
<1>2. bytes \in Nat /\ bytes = DecodedBytes * Entries + Upgrade * Upgrades /\ bytes <= MaxBytes
  <2>1. DecodedBytes * Entries \in Nat /\ Upgrade * Upgrades \in Nat
    BY <1>1, Products
  <2> QED
    BY <2>1 DEF Priced
<1>3. CASE Entries' = Entries /\ Upgrades' = Upgrades /\ bytes' = bytes
  BY <1>2, <1>3 DEF Priced, Upgrade
<1>4. CASE LedgerPaid(p)
  <2>1. bytes' = bytes + Need(p) /\ bytes + Need(p) <= MaxBytes
    BY <1>4 DEF LedgerPaid, BudgetFrame
  <2>2. bytes' = DecodedBytes * Entries' + Upgrade * Upgrades'
    <3>1. CASE group[p] = {} /\ Entries' = Entries + 1 /\ Upgrades' = Upgrades
      <4>1. Need(p) = DecodedBytes
        BY <3>1 DEF Need
      <4>2. DecodedBytes * (Entries + 1) = DecodedBytes * Entries + DecodedBytes
        BY <1>1
      <4>3. DecodedBytes * Entries \in Nat /\ Upgrade * Upgrades \in Nat
        BY <1>1, Products
      <4> QED
        BY <1>1, <1>2, <2>1, <3>1, <4>1, <4>2, <4>3
    <3>2. CASE group[p] # {} /\ Entries' = Entries /\ Upgrades' = Upgrades + Cardinality(group[p])
      <4>1. Need(p) = Cardinality(group[p]) * Upgrade
        BY <3>2 DEF Need, Upgrade
      <4>2. Upgrade * (Upgrades + Cardinality(group[p]))
              = Upgrade * Upgrades + Cardinality(group[p]) * Upgrade
        BY <1>1
      <4>3. DecodedBytes * Entries \in Nat /\ Upgrade * Upgrades \in Nat
        BY <1>1, Products
      <4> QED
        BY <1>1, <1>2, <2>1, <3>2, <4>1, <4>2, <4>3
    <3> QED
      BY <1>4, <3>1, <3>2 DEF LedgerPaid
  <2>3. bytes' \in Nat /\ bytes <= bytes'
    BY <1>1, <1>2, <2>1
  <2> QED
    BY <1>2, <2>1, <2>2, <2>3 DEF Priced, Upgrade
<1> QED
  BY <1>3, <1>4, LedgerStep DEF LedgerSame, LedgerStored

\* A refusal stays justified, since bytes never go back.
LEMMA BudgetFrameStep ==
  ASSUME AdmissionInv, PromotionInv, BudgetFrame, Priced, NEW p \in Procs, Begin(p) \/ Step(p)
  PROVE  BudgetFrame'
<1> USE DEF AdmissionInv, TypeOK, SharedTypeOK, LocalTypeOK
<1>0. OthersStay(p) /\ Priced' /\ bytes' \in Nat /\ bytes \in Nat /\ bytes <= bytes'
  BY OneMoves, PricedStep
<1>1. /\ DecodedBytes \in Nat /\ MaxBytes \in Nat /\ \A q \in Procs : Need(q) \in Nat
  BY Prices
<1>2. \A q \in Procs : group'[q] = group[q] => Need(q)' = Need(q)
  BY DEF Need
<1>3. \A q \in Procs \ {p} : /\ pc'[q] = pc[q] /\ reg'[q] = reg[q] /\ key'[q] = key[q]
                             /\ Need(q)' = Need(q)
  BY <1>0, <1>2 DEF OthersStay
<1> DEFINE Framed(q) == /\ pc[q] = "casBytes" => reg[q] + Need(q) <= MaxBytes
                        /\ pc[q] = "refused" => bytes + Need(q) > MaxBytes
                        /\ pc[q] = "disable" => key[q] \notin Buildable \/ bytes + DecodedBytes > MaxBytes
<1>4. ASSUME NEW q \in Procs \ {p}
      PROVE  Framed(q)'
  <2>1. Framed(q)
    BY DEF BudgetFrame
  <2>2. /\ pc'[q] = pc[q] /\ reg'[q] = reg[q] /\ key'[q] = key[q] /\ Need(q)' = Need(q)
        /\ Need(q) \in Nat
    BY <1>1, <1>3
  <2> HIDE DEF AdmissionInv
  <2> QED
    BY <1>0, <1>1, <2>1, <2>2
<1>5. Framed(p)'
  <2>1. CASE ReserveLoad(p)
    <3>1. group'[p] = group[p] /\ Need(p)' = Need(p) /\ bytes' = bytes /\ Need(p) \in Nat
      BY <1>1, <1>2, <2>1 DEF ReserveLoad, Goto, Load, localVars, shared, tableVars
    <3>2. \/ ~Fits(p) /\ pc'[p] = "refused"
          \/ Fits(p) /\ pc'[p] = "casBytes" /\ reg'[p] = bytes
      BY <2>1 DEF ReserveLoad, Goto, Load
    <3> QED
      BY <1>0, <1>1, <3>1, <3>2 DEF Fits
  <2>2. CASE BuildBudget(p) \/ Build(p)
    <3>1. pc'[p] = "disable" => bytes >= MaxBytes \/ key[p] \notin Buildable
      BY <2>2 DEF BuildBudget, Build, Goto
    <3>2. bytes' = bytes /\ key'[p] = key[p] /\ pc'[p] \notin {"casBytes", "refused"}
      BY <2>2 DEF BuildBudget, Build, Goto, localVars, shared, tableVars
    <3>3. DecodedBytes > 0
      BY CacheAssumption
    <3> QED
      BY <1>0, <1>1, <3>1, <3>2, <3>3
  <2>3. CASE pc'[p] \notin {"casBytes", "refused", "disable"}
    BY <2>3
  <2>4. CASE Begin(p) \/ lookup(p) \/ Verify(p)
    BY <2>3, <2>4 DEF Begin, lookup, Verify, Accept, Reject, Goto, Return
  <2>5. CASE \/ AdmitTable(p) \/ AdmitBudget(p) \/ SeenLoad(p) \/ SlotLoad(p) \/ SlotCAS(p)
             \/ Publish(p) \/ SlotRelease(p) \/ ClaimLoad(p) \/ ClaimCAS(p)
    BY <2>3, <2>5 DEF AdmitTable, AdmitBudget, SeenLoad, SlotLoad, SlotRefused, SlotCAS, Publish,
       SlotRelease, ClaimLoad, ClaimCAS, Goto, Load, Return
  <2>6. CASE ReserveCAS(p) \/ StoreTable(p) \/ CountTable(p) \/ Finish(p)
    BY <2>3, <2>6 DEF ReserveCAS, StoreTable, CountTable, Finish, Goto, Return
  <2>7. CASE PromoteHit(p) \/ PromoteStatus(p) \/ PromoteCAS(p) \/ Lock(p) \/ queuePromotion(p)
    BY <2>3, <2>7 DEF PromoteHit, PromoteStatus, PromoteCAS, Lock, queuePromotion, UnlockReturn,
       CallQueue, Goto, Load, Return
  <2>8. CASE \/ buildPromotionGroupLocked(p) \/ buildSoloPromotionLocked(p) \/ BuildWarm(p)
             \/ RefuseGroup(p) \/ InstallTable(p) \/ InstallStatus(p) \/ InstallDone(p)
    BY ZenonT(60), <2>3, <2>8 DEF buildPromotionGroupLocked, buildSoloPromotionLocked, BuildWarm, RefuseGroup,
       InstallTable, InstallStatus, InstallDone, UnlockReturn, BuildGroup, Goto, Return
  <2> QED
    BY <2>1, <2>2, <2>4, <2>5, <2>6, <2>7, <2>8 DEF Step
<1>6. \A q \in Procs : Framed(q)'
  BY <1>4, <1>5
<1> QED
  BY <1>6 DEF BudgetFrame

\* The statistics follow the ledger.
LEMMA StatsStep ==
  ASSUME AdmissionInv, PromotionInv, StatsExact, NEW p \in Procs, Begin(p) \/ Step(p)
  PROVE  StatsExact'
<1>1. LedgerSame \/ LedgerStored \/ LedgerPaid(p)
  BY LedgerStep
<1>2. /\ count + Cardinality(Counting) = Cardinality(HasTable)
      /\ promoted + Cardinality(Installed) = Cardinality(Warm)
  BY DEF StatsExact, Counting, HasTable, Installed, Warm
<1>3. /\ count' + Cardinality(Counting') = Cardinality(HasTable')
      /\ promoted' + Cardinality(Installed') = Cardinality(Warm')
  BY <1>1, <1>2, LedgerSizes DEF LedgerSame, LedgerStored, LedgerPaid
<1> QED
  BY <1>3 DEF StatsExact, Counting, HasTable, Installed, Warm

\* Which step decides what about a key: only Finish stores an admission verdict,
\* only a fault of the warm build or a refusal of the budget disables a promotion.
LEMMA Verdicts ==
  ASSUME TypeOK, CounterPublished, NEW p \in Procs, Begin(p) \/ Step(p), NEW k \in Keys
  PROVE  /\ faults' \in Nat /\ (faults' = 0 => faults = 0)
         /\ counter'[k] = -2 => \/ counter[k] = -2
                                \/ /\ Finish(p) /\ k = key[p]
                                   /\ pc[p] = "disable" \/ (pc[p] = "refused" /\ group[p] = {})
         /\ status'[k] = "disabled" => \/ status[k] = "disabled" \/ faults' # 0
                                       \/ pc[p] = "refused" /\ group[p] # {}
<1> USE DEF TypeOK, SharedTypeOK, LocalTypeOK
<1>1. CASE \/ Begin(p) \/ lookup(p) \/ Verify(p)
           \/ AdmitTable(p) \/ AdmitBudget(p) \/ SeenLoad(p) \/ SlotLoad(p) \/ SlotCAS(p)
           \/ Publish(p) \/ SlotRelease(p) \/ ClaimLoad(p)
  BY <1>1 DEF Begin, lookup, Verify, Accept, Reject, AdmitTable, AdmitBudget, SeenLoad, SlotLoad, SlotCAS,
     Publish, SlotRelease, ClaimLoad, shared, admissionVars, promotionVars
<1>2. CASE ClaimCAS(p)
  <2>1. reg[p] \in Int /\ reg[p] >= 0
    BY <1>2 DEF ClaimCAS, CounterPublished
  <2>2. \E n \in {-1, reg[p] + 1} : counter' = counter \/ counter' = [counter EXCEPT ![key[p]] = n]
    BY <1>2 DEF ClaimCAS, admissionBuilding
  <2>3. counter'[k] = -2 => counter[k] = -2
    BY <2>1, <2>2
  <2> QED
    BY <1>2, <2>3 DEF ClaimCAS, promotionVars
<1>3. CASE \/ BuildBudget(p) \/ Build(p) \/ ReserveLoad(p) \/ ReserveCAS(p) \/ StoreTable(p)
           \/ CountTable(p) \/ Finish(p)
  BY <1>3 DEF BuildBudget, Build, ReserveLoad, ReserveCAS, StoreTable, CountTable, Finish, shared,
     admissionVars, promotionVars, admissionComplete, admissionDisabled
<1>4. CASE PromoteHit(p) \/ PromoteStatus(p) \/ PromoteCAS(p) \/ Lock(p) \/ queuePromotion(p)
  BY <1>4 DEF PromoteHit, PromoteStatus, PromoteCAS, Lock, queuePromotion, shared, admissionVars,
     promotionVars
<1>5. CASE buildPromotionGroupLocked(p)
  <2>1. /\ status'[k] \in {"complete", "building", status[k]}
        /\ faults' = faults /\ counter' = counter
    BY <1>5 DEF buildPromotionGroupLocked, admissionVars
  <2> QED
    BY <2>1
<1>6. CASE \/ buildSoloPromotionLocked(p) \/ BuildWarm(p) \/ RefuseGroup(p) \/ InstallTable(p)
           \/ InstallStatus(p) \/ InstallDone(p)
  BY <1>6 DEF buildSoloPromotionLocked, BuildWarm, RefuseGroup, InstallTable, InstallStatus, InstallDone,
     StoreGroup, admissionVars, promotionVars
<1> QED
  BY <1>1, <1>2, <1>3, <1>4, <1>5, <1>6 DEF Step

\* What did not fit still does not fit when more is used.
LEMMA StillShort ==
  ASSUME NEW a \in Nat, NEW b \in Nat, a <= b, NEW n \in Nat, NEW m \in Nat, a + n > m
  PROVE  b + n > m
OBVIOUS

\* An admission or a promotion is refused for good only for want of budget.
LEMMA JustifiedStep ==
  ASSUME BudgetInv, Priced, NEW p \in Procs, Begin(p) \/ Step(p)
  PROVE  DisabledJustified' /\ PromotionDisabledJustified'
<1> USE DEF BudgetInv
<1>0. bytes' \in Nat /\ bytes \in Nat /\ bytes <= bytes'
  BY PricedStep
<1>1. DecodedBytes \in Nat /\ Upgrade \in Nat /\ MaxBytes \in Nat /\ Width \in Nat
      /\ Cardinality(group[p]) \in Nat /\ Width * Upgrade \in Nat
  BY Prices, Products DEF PromotionInv
<1>2. TypeOK /\ CounterPublished
  BY DEF AdmissionInv
<1>a. \A n \in Nat : bytes + n > MaxBytes => bytes' + n > MaxBytes
  <2>1. MaxBytes \in Nat
    BY CacheAssumption
  <2> QED
    BY <1>0, <2>1, StillShort
<1>3. ASSUME NEW k \in Keys, counter'[k] = -2
      PROVE  k \notin Buildable \/ bytes' + DecodedBytes > MaxBytes
  <2>1. counter[k] = -2 \/ (k = key[p] /\ (pc[p] = "disable" \/ (pc[p] = "refused" /\ group[p] = {})))
    BY <1>2, <1>3, Verdicts
  <2>2. k \notin Buildable \/ bytes + DecodedBytes > MaxBytes
    BY <2>1 DEF DisabledJustified, admissionDisabled, BudgetFrame, Need
  <2> QED
    BY <1>1, <1>a, <2>2
<1>4. ASSUME NEW k \in Keys, status'[k] = "disabled", faults' = 0
      PROVE  bytes' + Width * Upgrade > MaxBytes
  <2>1. (status[k] = "disabled" /\ faults = 0) \/ (pc[p] = "refused" /\ group[p] # {})
    BY <1>2, <1>4, Verdicts
  <2>2. bytes + Width * Upgrade > MaxBytes
    <3>1. CASE status[k] = "disabled" /\ faults = 0
      BY <3>1 DEF PromotionDisabledJustified, Upgrade
    <3>2. CASE pc[p] = "refused" /\ group[p] # {}
      <4>1. bytes + Cardinality(group[p]) * Upgrade > MaxBytes
        BY <3>2 DEF BudgetFrame, Need, Upgrade
      <4>2. Cardinality(group[p]) <= Width
        BY DEF PromotionInv, Widths
      <4>3. /\ Cardinality(group[p]) * Upgrade <= Width * Upgrade
            /\ Cardinality(group[p]) * Upgrade \in Nat
        BY <1>1, <4>2, Products
      <4> HIDE DEF BudgetInv
      <4> QED
        BY <1>0, <1>1, <4>1, <4>3
    <3> QED
      BY <2>1, <3>1, <3>2
  <2> QED
    BY <1>1, <1>a, <2>2
<1>5. DisabledJustified'
  BY <1>3 DEF DisabledJustified, admissionDisabled
<1>6. PromotionDisabledJustified'
  BY <1>4 DEF PromotionDisabledJustified, Upgrade
<1> QED
  BY <1>5, <1>6

\* Every step keeps the budget invariant.
LEMMA BudgetStep ==
  ASSUME BudgetInv, [Next]_vars
  PROVE  BudgetInv'
<1>1. CASE UNCHANGED vars
  <2>1. AdmissionInv' /\ PromotionInv'
    BY <1>1, TypeStep, FrameStep, PublishedStep, BuilderStep, PromotionStep DEF BudgetInv, AdmissionInv
  <2>2. /\ tables' = tables /\ count' = count /\ bytes' = bytes /\ counter' = counter
        /\ status' = status /\ promoted' = promoted /\ faults' = faults
        /\ pc' = pc /\ key' = key /\ reg' = reg /\ group' = group
    BY <1>1 DEF vars, shared, tableVars, promotionVars, localVars, admissionVars
  <2>3. BudgetFrame'
    BY <2>2 DEF BudgetInv, BudgetFrame, Need
  <2>4. ByteAccounting'
    BY <2>2 DEF BudgetInv, ByteAccounting, Footprint, InFlight
  <2>5. StatsExact' /\ DisabledJustified' /\ PromotionDisabledJustified'
    BY <2>2 DEF BudgetInv, StatsExact, DisabledJustified, PromotionDisabledJustified
  <2> QED
    BY <2>1, <2>3, <2>4, <2>5 DEF BudgetInv
<1>2. ASSUME NEW p \in Procs, Begin(p) \/ Step(p)
      PROVE  BudgetInv'
  <2>1. Next
    BY <1>2 DEF Next
  <2>2. Priced
    BY PricedIsExact DEF BudgetInv
  <2>3. AdmissionInv'
    BY <2>1, TypeStep, FrameStep, PublishedStep, BuilderStep DEF BudgetInv, AdmissionInv
  <2>4. PromotionInv'
    BY <2>1, PromotionStep DEF BudgetInv
  <2>5. ByteAccounting'
    <3>1. Priced'
      BY <1>2, <2>2, PricedStep DEF BudgetInv
    <3>2. (ByteAccounting <=> Priced)'
      BY PricedIsExact, PTL
    <3> QED
      BY <3>1, <3>2
  <2>6. BudgetFrame' /\ StatsExact'
    BY <1>2, <2>2, BudgetFrameStep, StatsStep DEF BudgetInv
  <2>7. DisabledJustified' /\ PromotionDisabledJustified'
    BY <1>2, <2>2, JustifiedStep
  <2> QED
    BY <2>3, <2>4, <2>5, <2>6, <2>7 DEF BudgetInv
<1> QED
  BY <1>1, <1>2 DEF Next

\* The budget invariant holds in every reachable state.
THEOREM BudgetInvariant == Spec => []BudgetInv
<1>1. Init => BudgetInv
  <2> SUFFICES ASSUME Init
               PROVE  BudgetInv
    OBVIOUS
  <2>1. TypeOK
    BY CacheAssumption DEF Init, TypeOK, SharedTypeOK, LocalTypeOK, Labels, Tiers, Statuses, Earned,
       admissionComplete
  <2>2. AdmissionInv
    BY <2>1 DEF Init, AdmissionInv, GroupFrame, CounterPublished, SingleBuilder, BuilderMarked,
       BuilderUnique, TableDecided, IsBuilder, ReserveLabels, BuildLabels, admissionBuilding
  <2>3. PromotionInv
    <3>1. GroupFrame /\ LockHeld /\ PreKnown /\ StatusMatchesTier /\ PendingHeld /\ Candidates /\ GroupStatus
      BY CacheAssumption DEF Init, GroupFrame, LockHeld, HoldsMu, LockedLabels, ReserveLabels, PreKnown,
         PromoterLabels, QueueLabels, StatusMatchesTier, PendingHeld, Candidates, GroupStatus
    <3>2. Widths
      BY Empty DEF Init, Widths
    <3> QED
      BY <2>1, <3>1, <3>2 DEF PromotionInv
  <2>4. BudgetFrame /\ DisabledJustified /\ PromotionDisabledJustified
    BY DEF Init, BudgetFrame, DisabledJustified, PromotionDisabledJustified, admissionDisabled
  <2>5. /\ HasTable = {} /\ Warm = {} /\ Storing = {} /\ Counting = {} /\ Installing = {} /\ Installed = {}
        /\ count = 0 /\ promoted = 0 /\ bytes = 0
    BY DEF Init, HasTable, Warm, Storing, Counting, Installing, Installed
  <2>6. StatsExact
    <3>1. /\ count + Cardinality(Counting) = Cardinality(HasTable)
          /\ promoted + Cardinality(Installed) = Cardinality(Warm)
      BY <2>5, Empty
    <3> QED
      BY <3>1 DEF StatsExact, Counting, HasTable, Installed, Warm
  <2>7. Priced
    <3>1. Entries = 0 /\ Upgrades = 0
      BY <2>5, Empty DEF Entries, Upgrades
    <3>2. DecodedBytes \in Nat /\ Upgrade \in Nat /\ MaxBytes \in Nat
      BY <2>1, Prices
    <3>3. DecodedBytes * 0 = 0 /\ Upgrade * 0 = 0
      BY <3>2
    <3> QED
      BY <2>5, <3>1, <3>2, <3>3 DEF Priced
  <2> QED
    BY <2>2, <2>3, <2>4, <2>6, <2>7, PricedIsExact DEF BudgetInv
<1>2. BudgetInv /\ [Next]_vars => BudgetInv'
  BY BudgetStep
<1> QED
  BY <1>1, <1>2, PTL DEF Spec

\* The byte counter of reserveTableBytes is exact at every instant and never passes
\* MaxTableBytes, for every number of goroutines and keys and every price: no path
\* of admit or of commitPromotionLocked leaks or double-counts a reservation.
THEOREM BytesAccounted == Spec => []ByteAccounting
<1>1. BudgetInv => ByteAccounting
  BY DEF BudgetInv
<1> QED
  BY <1>1, BudgetInvariant, PTL

\* Stats never counts a table or an upgrade that is not stored, or stores one that
\* it will not count (count.Add in admit, promoted.Add in commitPromotionLocked).
THEOREM StatsCounted == Spec => []StatsExact
<1>1. BudgetInv => StatsExact
  BY DEF BudgetInv
<1> QED
  BY <1>1, BudgetInvariant, PTL

\* admissionDisabled is stored only for a key whose table cannot be built, or can
\* no longer be paid for, and then never can: bytes are never given back.
THEOREM DisablingJustified == Spec => []DisabledJustified
<1>1. BudgetInv => DisabledJustified
  BY DEF BudgetInv
<1> QED
  BY <1>1, BudgetInvariant, PTL

\* Without a builder fault a promotion is disabled only when what is left of the
\* budget is smaller than what a full group adds (commitPromotionLocked).
THEOREM PromotionDisablingJustified == Spec => []PromotionDisabledJustified
<1>1. BudgetInv => PromotionDisabledJustified
  BY DEF BudgetInv
<1> QED
  BY <1>1, BudgetInvariant, PTL

-----------------------------------------------------------------------------
\* Decisions that are final.

\* A decided admission counter is not written again: it is negative, its key is
\* published, and its builder is gone.
LEMMA AdmissionFinal ==
  ASSUME AdmissionInv, NEW p \in Procs, Begin(p) \/ Step(p), NEW k \in Keys,
         counter[k] \in {admissionComplete, admissionDisabled}
  PROVE  counter'[k] = counter[k]
<1> USE DEF AdmissionInv, TypeOK, SharedTypeOK, LocalTypeOK, admissionComplete, admissionDisabled
<1>1. CASE Publish(p)
  <2>1. counter' = counter \/ (key[p] \notin seen /\ counter' = [counter EXCEPT ![key[p]] = 0])
    BY <1>1 DEF Publish, FirstPublisher
  <2> QED
    BY <2>1 DEF CounterPublished
<1>2. CASE ClaimCAS(p)
  <2>1. reg[p] >= 0 /\ reg[p] \in Int
    BY <1>2 DEF ClaimCAS, CounterPublished
  <2>2. counter' = counter \/ (counter[key[p]] = reg[p] /\ \E n \in Int : counter' = [counter EXCEPT ![key[p]] = n])
    BY <1>2 DEF ClaimCAS, ClaimUnchanged, admissionBuilding
  <2> QED
    BY <2>1, <2>2
<1>3. CASE Finish(p)
  <2>1. IsBuilder(p)
    BY <1>3 DEF Finish, IsBuilder, BuildLabels, ReserveLabels
  <2>2. counter[key[p]] = -1
    <3>1. key[p] \in Keys
      BY <1>3 DEF Finish
    <3> QED
      BY <2>1, <3>1 DEF SingleBuilder, BuilderMarked, admissionBuilding
  <2> QED
    BY <1>3, <2>2 DEF Finish
<1>4. CASE counter' = counter
  BY <1>4
<1>5. CASE \/ Begin(p) \/ lookup(p) \/ Verify(p)
           \/ AdmitTable(p) \/ AdmitBudget(p) \/ SeenLoad(p) \/ SlotLoad(p) \/ SlotCAS(p)
           \/ SlotRelease(p) \/ ClaimLoad(p)
           \/ BuildBudget(p) \/ Build(p) \/ ReserveLoad(p) \/ ReserveCAS(p) \/ StoreTable(p)
           \/ CountTable(p)
  BY <1>4, <1>5 DEF Begin, lookup, Verify, Accept, Reject, AdmitTable, AdmitBudget, SeenLoad, SlotLoad,
     SlotCAS, SlotRelease, ClaimLoad, BuildBudget, Build, ReserveLoad, ReserveCAS, StoreTable, CountTable,
     shared, admissionVars
<1>6. CASE \/ PromoteHit(p) \/ PromoteStatus(p) \/ PromoteCAS(p) \/ Lock(p) \/ queuePromotion(p)
           \/ buildPromotionGroupLocked(p) \/ buildSoloPromotionLocked(p) \/ BuildWarm(p)
           \/ RefuseGroup(p) \/ InstallTable(p) \/ InstallStatus(p) \/ InstallDone(p)
  <2>1. counter' = counter
    BY <1>6 DEF PromoteHit, PromoteStatus, PromoteCAS, Lock, queuePromotion, buildPromotionGroupLocked,
       buildSoloPromotionLocked, BuildWarm, RefuseGroup, InstallTable, InstallStatus, InstallDone, shared,
       admissionVars
  <2> QED
    BY <2>1
<1> QED
  BY <1>1, <1>2, <1>3, <1>5, <1>6 DEF Step

\* A settled promotion status is not written again, but for the same value: every
\* store of a status is to an idle, a pending or a building key.
LEMMA PromotionFinal ==
  ASSUME PromotionInv, NEW p \in Procs, Begin(p) \/ Step(p), NEW k \in Keys,
         status[k] \in {"complete", "disabled"}
  PROVE  status'[k] = status[k]
<1> USE DEF PromotionInv, TypeOK, SharedTypeOK, LocalTypeOK
<1>1. CASE AdmissionStep(p)
  BY <1>1, AdmissionSteps DEF AdmissionQuiet
<1>2. CASE PromoteHit(p) \/ PromoteStatus(p) \/ PromoteCAS(p) \/ Lock(p) \/ queuePromotion(p)
  BY <1>2 DEF PromoteHit, PromoteStatus, PromoteCAS, Lock, queuePromotion, shared, promotionVars
<1>3. CASE buildPromotionGroupLocked(p)
  <2>1. status'[k] = status[k] \/ k \in promotionPending
    BY <1>3 DEF buildPromotionGroupLocked
  <2> QED
    BY <2>1 DEF Candidates
<1>4. CASE buildSoloPromotionLocked(p)
  <2>1. status'[k] = status[k] \/ (k = key[p] /\ pc[p] = "solo")
    BY <1>4 DEF buildSoloPromotionLocked
  <2> QED
    BY <2>1 DEF Candidates
<1>5. CASE BuildWarm(p) \/ RefuseGroup(p)
  <2>1. pc[p] # "install" /\ (status'[k] = status[k] \/ k \in group[p])
    BY <1>5 DEF BuildWarm, RefuseGroup, StoreGroup
  <2> QED
    BY <2>1 DEF GroupStatus
<1>6. CASE InstallTable(p) \/ InstallStatus(p) \/ InstallDone(p)
  <2>1. status'[k] = status[k] \/ (k \in group[p] /\ status'[k] = "complete")
    BY <1>6 DEF InstallTable, InstallStatus, InstallDone, promotionVars
  <2> QED
    BY <2>1 DEF GroupStatus
<1> QED
  BY <1>1, <1>2, <1>3, <1>4, <1>5, <1>6 DEF Step, AdmissionStep

\* What the lock-free fast paths rely on: bytes are never given back, and neither an
\* admission verdict nor a promotion verdict is ever revised.
THEOREM DecisionsNeverRevised == Spec => DecisionsFinal
<1> DEFINE Final == /\ bytes' >= bytes
                    /\ \A k \in Keys :
                         /\ counter[k] \in {admissionComplete, admissionDisabled} => counter'[k] = counter[k]
                         /\ status[k] \in {"complete", "disabled"} => status'[k] = status[k]
<1>1. ASSUME BudgetInv, Next
      PROVE  Final
  <2>1. PICK p \in Procs : Begin(p) \/ Step(p)
    BY <1>1 DEF Next
  <2>2. bytes' >= bytes
    <3>1. bytes' \in Nat /\ bytes \in Nat /\ bytes <= bytes'
      BY <1>1, <2>1, PricedIsExact, PricedStep DEF BudgetInv
    <3> QED
      BY <3>1
  <2>3. \A k \in Keys :
          /\ counter[k] \in {admissionComplete, admissionDisabled} => counter'[k] = counter[k]
          /\ status[k] \in {"complete", "disabled"} => status'[k] = status[k]
    BY <1>1, <2>1, AdmissionFinal, PromotionFinal DEF BudgetInv
  <2> QED
    BY <2>2, <2>3
<1>2. BudgetInv /\ [Next]_vars => [Final]_vars
  BY <1>1
<1> QED
  BY <1>2, BudgetInvariant, PTL DEF Spec, DecisionsFinal

-----------------------------------------------------------------------------
\* The key has n successes, or as many as the history counts.
Reached(k, n) == verified[k] = Earned \/ verified[k] >= n

\* Goroutines that saw a success of the key which its counter does not show yet.
Sightings(k) == {p \in Procs : key[p] = k /\ pc[p] \in AdmitLabels}
FreshHits(k) == {p \in Procs : key[p] = k /\ pc[p] = "promote"}

\* Every sighting an admission counter shows, or is about to show, is a success;
\* a counter that is decided or building was one that reached the threshold.
SightingsEarned ==
  \A k \in Keys : IF counter[k] >= 0 THEN Reached(k, counter[k] + Cardinality(Sightings(k)))
                  ELSE verified[k] >= BuildThreshold

\* Every hit a promotion counter shows, or is about to show, is a success on top of
\* those that earned the first-tier table, however often the int32 wrapped.
HitsEarned ==
  \A k \in Keys : IF tables[k] = "none" THEN promoHits[k] = 0
                  ELSE Reached(k, BuildThreshold + promoHits[k] + Cardinality(FreshHits(k)))

\* A goroutine that compares a hit count with the threshold holds a true one.
PromoterEarned ==
  \A p \in Procs :
    /\ pc[p] = "status" => Reached(key[p], BuildThreshold + reg[p])
    /\ pc[p] = "casStatus" => verified[key[p]] = Earned

\* Only a key that earned both tiers is a candidate.
StatusEarned == \A k \in Keys : status[k] # "idle" => verified[k] = Earned

CreditInv ==
  /\ BudgetInv
  /\ SightingsEarned /\ HitsEarned /\ PromoterEarned /\ StatusEarned

-----------------------------------------------------------------------------
\* Sightings and verdicts.

\* Thresholds are positive, and the history counts far enough for both.
LEMMA Thresholds ==
  /\ BuildThreshold \in Nat /\ BuildThreshold > 0 /\ PromotionThreshold \in Nat /\ PromotionThreshold > 0
  /\ Earned \in Nat /\ Earned = BuildThreshold + PromotionThreshold
BY CacheAssumption DEF Earned

\* The sets of sightings have a size.
LEMMA SightingSizes ==
  \A k \in Keys :
    /\ IsFiniteSet(Sightings(k)) /\ Cardinality(Sightings(k)) \in Nat
    /\ IsFiniteSet(FreshHits(k)) /\ Cardinality(FreshHits(k)) \in Nat
    /\ IsFiniteSet(Sightings(k)') /\ Cardinality(Sightings(k)') \in Nat
    /\ IsFiniteSet(FreshHits(k)') /\ Cardinality(FreshHits(k)') \in Nat
<1>1. \A k \in Keys : /\ Sightings(k) \in SUBSET Procs /\ FreshHits(k) \in SUBSET Procs
                      /\ Sightings(k)' \in SUBSET Procs /\ FreshHits(k)' \in SUBSET Procs
  BY DEF Sightings, FreshHits
<1> QED
  BY <1>1, Sizes

\* A subset is no larger.
LEMMA Smaller ==
  ASSUME NEW S, IsFiniteSet(S), NEW T \in SUBSET S
  PROVE  Cardinality(T) \in Nat /\ Cardinality(S) \in Nat /\ Cardinality(T) <= Cardinality(S)
BY FS_Subset, FS_CardinalityType

\* A success is worth a sighting: what an accepted signature adds to the history it
\* adds to no counter yet.
LEMMA Accepted ==
  ASSUME TypeOK, NEW p \in Procs, pc[p] = "verify", Accept(p)
  PROVE  /\ key[p] \in Keys /\ tables' = tables /\ counter' = counter /\ promoHits' = promoHits
         /\ status' = status
         /\ \A k \in Keys : verified'[k] = IF k = key[p] /\ verified[k] < Earned THEN verified[k] + 1
                                           ELSE verified[k]
         /\ pc'[p] \in {"admit", "promote", "idle"} /\ reg'[p] \in Int
         /\ pc'[p] # "idle" => key'[p] = key[p]
         /\ pc'[p] = "promote" => pre[p] # "none"
BY DEF TypeOK, SharedTypeOK, LocalTypeOK, Accept, Goto, Return, localVars, tableVars, admissionVars,
   promotionVars

\* Any other step leaves the history alone, and nobody joins the sightings.
OtherStep(p) == (Begin(p) \/ Step(p)) /\ ~(pc[p] = "verify" /\ Accept(p))

LEMMA HistoryStays ==
  ASSUME TypeOK, NEW p \in Procs, OtherStep(p)
  PROVE  /\ verified' = verified
         /\ pc'[p] \in AdmitLabels => pc[p] \in AdmitLabels /\ key'[p] = key[p]
         /\ pc'[p] # "promote"
<1> USE DEF TypeOK, SharedTypeOK, LocalTypeOK, AdmitLabels, OtherStep, Goto, Load, Return, localVars, shared
<1>1. CASE Begin(p) \/ lookup(p) \/ Verify(p)
  BY <1>1 DEF Begin, lookup, Verify, Reject
<1>2. CASE \/ AdmitTable(p) \/ AdmitBudget(p) \/ SeenLoad(p) \/ SlotLoad(p) \/ SlotCAS(p)
           \/ Publish(p) \/ SlotRelease(p) \/ ClaimLoad(p) \/ ClaimCAS(p)
  BY <1>2 DEF AdmitTable, AdmitBudget, SeenLoad, SlotLoad, SlotRefused, SlotCAS, Publish, SlotRelease,
       ClaimLoad, ClaimCAS
<1>3. CASE \/ BuildBudget(p) \/ Build(p) \/ ReserveLoad(p) \/ ReserveCAS(p) \/ StoreTable(p)
           \/ CountTable(p) \/ Finish(p)
  BY <1>3 DEF BuildBudget, Build, ReserveLoad, ReserveCAS, StoreTable, CountTable, Finish
<1>4. CASE PromoteHit(p) \/ PromoteStatus(p) \/ PromoteCAS(p) \/ Lock(p) \/ queuePromotion(p)
  BY <1>4 DEF PromoteHit, PromoteStatus, PromoteCAS, Lock, queuePromotion, UnlockReturn, CallQueue
<1>5. CASE \/ buildPromotionGroupLocked(p) \/ buildSoloPromotionLocked(p) \/ BuildWarm(p)
           \/ RefuseGroup(p) \/ InstallTable(p) \/ InstallStatus(p) \/ InstallDone(p)
  BY ZenonT(60), <1>5 DEF buildPromotionGroupLocked, buildSoloPromotionLocked, BuildWarm, RefuseGroup, InstallTable,
       InstallStatus, InstallDone, UnlockReturn, BuildGroup
<1> QED
  BY <1>1, <1>2, <1>3, <1>4, <1>5 DEF Step

\* The set of sightings only shrinks in such a step.
LEMMA SightingsShrink ==
  ASSUME TypeOK, NEW p \in Procs, OtherStep(p), NEW k \in Keys
  PROVE  /\ Cardinality(Sightings(k)') <= Cardinality(Sightings(k))
         /\ Cardinality(FreshHits(k)') <= Cardinality(FreshHits(k))
<1>1. OthersStay(p)
  BY OneMoves DEF OtherStep
<1>2. Sightings(k)' \in SUBSET Sightings(k) /\ FreshHits(k)' \in SUBSET FreshHits(k)
  BY <1>1, HistoryStays DEF Sightings, FreshHits, OthersStay
<1> QED
  BY <1>2, SightingSizes, Smaller

\* One more success is worth one more sighting.
LEMMA ReachedMore ==
  ASSUME TypeOK, NEW k \in Keys, NEW m \in Int, NEW n \in Int, n <= m + 1, Reached(k, m),
         verified'[k] = IF verified[k] < Earned THEN verified[k] + 1 ELSE verified[k]
  PROVE  verified'[k] = Earned \/ verified'[k] >= n
<1>1. verified[k] \in 0 .. Earned /\ Earned \in Nat
  BY Thresholds DEF TypeOK, SharedTypeOK
<1> QED
  BY <1>1 DEF Reached

\* What an accepted signature does to the sets of sightings.
LEMMA SightingsGrow ==
  ASSUME TypeOK, NEW p \in Procs, pc[p] = "verify", Accept(p), NEW k \in Keys
  PROVE  LET one == IF k = key[p] THEN 1 ELSE 0
         IN  /\ Cardinality(Sightings(k)') <= Cardinality(Sightings(k)) + one
             /\ Cardinality(FreshHits(k)') <= Cardinality(FreshHits(k)) + one
<1>1. OthersStay(p)
  BY OneMoves DEF Step, Verify
<1>2. CASE k # key[p]
  <2>1. Sightings(k)' \in SUBSET Sightings(k) /\ FreshHits(k)' \in SUBSET FreshHits(k)
    BY <1>1, <1>2, Accepted DEF Sightings, FreshHits, OthersStay, AdmitLabels
  <2> QED
    BY <1>2, <2>1, SightingSizes, Smaller
<1>3. CASE k = key[p]
  <2>1. Sightings(k)' \in SUBSET (Sightings(k) \cup {p}) /\ FreshHits(k)' \in SUBSET (FreshHits(k) \cup {p})
    BY <1>1, <1>3, Accepted DEF Sightings, FreshHits, OthersStay, AdmitLabels
  <2>2. /\ IsFiniteSet(Sightings(k) \cup {p}) /\ IsFiniteSet(FreshHits(k) \cup {p})
        /\ Cardinality(Sightings(k) \cup {p}) <= Cardinality(Sightings(k)) + 1
        /\ Cardinality(FreshHits(k) \cup {p}) <= Cardinality(FreshHits(k)) + 1
    BY SightingSizes, OneMore
  <2>3. /\ Cardinality(Sightings(k)') <= Cardinality(Sightings(k) \cup {p})
        /\ Cardinality(FreshHits(k)') <= Cardinality(FreshHits(k) \cup {p})
        /\ Cardinality(Sightings(k) \cup {p}) \in Nat /\ Cardinality(FreshHits(k) \cup {p}) \in Nat
    BY <2>1, <2>2, Smaller
  <2> QED
    BY <1>3, <2>2, <2>3, SightingSizes
<1> QED
  BY <1>2, <1>3

\* Which step moves an admission counter: Publish writes the zero that is there,
\* ClaimCAS turns a sighting into a count or into the claim, Finish ends a build.
LEMMA CounterMoves ==
  ASSUME AdmissionInv, NEW p \in Procs, Begin(p) \/ Step(p)
  PROVE  \/ counter' = counter
         \/ /\ pc[p] = "casClaim" /\ counter[key[p]] >= 0 /\ counter[key[p]] \in Int /\ ClaimCAS(p)
            /\ key[p] \in Keys
            /\ counter' = [counter EXCEPT ![key[p]] =
                             IF counter[key[p]] >= BuildThreshold - 1 THEN -1 ELSE counter[key[p]] + 1]
         \/ /\ Finish(p) /\ counter[key[p]] = -1 /\ key[p] \in Keys
            /\ \E v \in {-2, -3} : counter' = [counter EXCEPT ![key[p]] = v]
<1> USE DEF AdmissionInv, TypeOK, SharedTypeOK, LocalTypeOK
<1>1. CASE Publish(p)
  <2>1. counter' = counter \/ (key[p] \notin seen /\ counter' = [counter EXCEPT ![key[p]] = 0])
    BY <1>1 DEF Publish, FirstPublisher
  <2>2. key[p] \in Keys
    BY <1>1 DEF Publish
  <2>3. counter \in [Keys -> admissionComplete .. (BuildThreshold - 1)]
    OBVIOUS
  <2>4. key[p] \notin seen => counter[key[p]] = 0
    BY <2>2 DEF CounterPublished
  <2> QED
    BY <2>1, <2>2, <2>3, <2>4
<1>2. CASE ClaimCAS(p)
  <2>1. reg[p] >= 0 /\ reg[p] \in Int /\ key[p] \in Keys /\ counter[key[p]] \in Int
    BY <1>2 DEF ClaimCAS, CounterPublished, admissionComplete
  <2>2. \/ counter' = counter
        \/ /\ counter[key[p]] = reg[p]
           /\ counter' = [counter EXCEPT ![key[p]] = IF reg[p] >= BuildThreshold - 1 THEN -1 ELSE reg[p] + 1]
    BY <1>2 DEF ClaimCAS, ClaimUnchanged, AtThreshold, admissionBuilding
  <2>3. pc[p] = "casClaim"
    BY <1>2 DEF ClaimCAS
  <2> QED
    BY <1>2, <2>1, <2>2, <2>3
<1>3. CASE Finish(p)
  <2>1. IsBuilder(p) /\ key[p] \in Keys
    BY <1>3 DEF Finish, IsBuilder, BuildLabels, ReserveLabels
  <2>2. counter[key[p]] = -1
    BY <2>1 DEF SingleBuilder, BuilderMarked, admissionBuilding
  <2> QED
    BY <1>3, <2>1, <2>2 DEF Finish, admissionComplete, admissionDisabled
<1>4. CASE \/ Begin(p) \/ lookup(p) \/ Verify(p)
           \/ AdmitTable(p) \/ AdmitBudget(p) \/ SeenLoad(p) \/ SlotLoad(p) \/ SlotCAS(p)
           \/ SlotRelease(p) \/ ClaimLoad(p)
           \/ BuildBudget(p) \/ Build(p) \/ ReserveLoad(p) \/ ReserveCAS(p) \/ StoreTable(p)
           \/ CountTable(p)
  BY <1>4 DEF Begin, lookup, Verify, Accept, Reject, AdmitTable, AdmitBudget, SeenLoad, SlotLoad,
     SlotCAS, SlotRelease, ClaimLoad, BuildBudget, Build, ReserveLoad, ReserveCAS, StoreTable, CountTable,
     shared, admissionVars
<1>5. CASE \/ PromoteHit(p) \/ PromoteStatus(p) \/ PromoteCAS(p) \/ Lock(p) \/ queuePromotion(p)
           \/ buildPromotionGroupLocked(p) \/ buildSoloPromotionLocked(p) \/ BuildWarm(p)
           \/ RefuseGroup(p) \/ InstallTable(p) \/ InstallStatus(p) \/ InstallDone(p)
  BY <1>5 DEF PromoteHit, PromoteStatus, PromoteCAS, Lock, queuePromotion, buildPromotionGroupLocked,
     buildSoloPromotionLocked, BuildWarm, RefuseGroup, InstallTable, InstallStatus, InstallDone, shared,
     admissionVars
<1> QED
  BY <1>1, <1>2, <1>3, <1>4, <1>5 DEF Step

\* An admission counter never runs ahead of the successes.
LEMMA SightingsStep ==
  ASSUME AdmissionInv, SightingsEarned, NEW p \in Procs, Begin(p) \/ Step(p)
  PROVE  SightingsEarned'
<1>0. TypeOK /\ \A k \in Keys : counter[k] \in Int /\ verified[k] \in Int
  BY Thresholds DEF AdmissionInv, TypeOK, SharedTypeOK, admissionComplete
<1>a. counter \in [Keys -> Int]
  BY <1>0 DEF TypeOK, SharedTypeOK, admissionComplete
<1> SUFFICES ASSUME NEW k \in Keys
             PROVE  IF counter'[k] >= 0 THEN Reached(k, counter[k] + Cardinality(Sightings(k)))'
                    ELSE verified'[k] >= BuildThreshold
  BY DEF SightingsEarned
<1> DEFINE c == counter[k]
           n == Cardinality(Sightings(k))
           m == Cardinality(Sightings(k)')
<1>1. n \in Nat /\ m \in Nat /\ c \in Int /\ verified[k] \in Int
  BY <1>0, SightingSizes
<1>2. IF c >= 0 THEN Reached(k, c + n) ELSE verified[k] >= BuildThreshold
  BY DEF SightingsEarned
<1>3. CASE pc[p] = "verify" /\ Accept(p)
  <2>1. counter'[k] = c /\ verified'[k] = IF k = key[p] /\ verified[k] < Earned THEN verified[k] + 1
                                          ELSE verified[k]
    BY <1>0, <1>3, Accepted
  <2>2. m <= n + (IF k = key[p] THEN 1 ELSE 0)
    BY <1>0, <1>3, SightingsGrow
  <2>3. CASE c < 0
    BY <1>1, <1>2, <2>1, <2>3, Thresholds
  <2>4. CASE c >= 0 /\ k = key[p]
    <3>1. c + m <= (c + n) + 1 /\ c + m \in Int /\ c + n \in Int
      BY <1>1, <2>2, <2>4
    <3>2. verified'[k] = IF verified[k] < Earned THEN verified[k] + 1 ELSE verified[k]
      BY <2>1, <2>4
    <3>3. Reached(k, c + n)
      BY <1>2, <2>4
    <3>4. verified'[k] = Earned \/ verified'[k] >= c + m
      BY <1>0, <3>1, <3>2, <3>3, ReachedMore
    <3> QED
      BY <2>1, <2>4, <3>4 DEF Reached
  <2>5. CASE c >= 0 /\ k # key[p]
    <3>1. c + m <= c + n /\ c + m \in Int /\ c + n \in Int
      BY <1>1, <2>2, <2>5
    <3>2. verified'[k] = verified[k] /\ Reached(k, c + n)
      BY <1>2, <2>1, <2>5
    <3> QED
      BY <1>1, <2>1, <2>5, <3>1, <3>2 DEF Reached
  <2> QED
    BY <1>1, <2>3, <2>4, <2>5
<1>4. CASE OtherStep(p)
  <2>1. verified' = verified /\ m <= n
    BY <1>0, <1>4, HistoryStays, SightingsShrink
  <2>2. CASE counter'[k] = c
    BY <1>1, <1>2, <2>1, <2>2 DEF Reached
  <2>3. CASE /\ pc[p] = "casClaim" /\ k = key[p] /\ c >= 0 /\ ClaimCAS(p)
             /\ counter'[k] = IF c >= BuildThreshold - 1 THEN -1 ELSE c + 1
    <3>1. pc'[p] \notin AdmitLabels
      <4>1. counter' # counter
        BY <1>1, <2>3
      <4> QED
        BY <2>3, <4>1, <1>0 DEF ClaimCAS, Goto, Return, AdmitLabels, TypeOK, LocalTypeOK
    <3>2. Sightings(k)' \in SUBSET (Sightings(k) \ {p}) /\ p \in Sightings(k)
      <4>1. OthersStay(p)
        BY <1>0, <1>4, OneMoves DEF OtherStep
      <4> QED
        BY <2>3, <3>1, <4>1 DEF Sightings, OthersStay, AdmitLabels
    <3>3. m <= n - 1
      <4>1. IsFiniteSet(Sightings(k) \ {p}) /\ Cardinality(Sightings(k) \ {p}) = n - 1
        BY <3>2, SightingSizes, OneLess
      <4> QED
        BY <3>2, <4>1, Smaller
    <3>4. Reached(k, c + n)
      BY <1>2, <2>3
    <3>5. CASE c >= BuildThreshold - 1
      BY <1>1, <2>1, <2>3, <3>3, <3>4, <3>5, Thresholds DEF Reached
    <3>6. CASE c < BuildThreshold - 1
      <4>1. counter'[k] = c + 1 /\ (c + 1) + m <= c + n
        BY <1>1, <2>3, <3>3, <3>6, Thresholds
      <4> QED
        BY <1>1, <2>1, <2>3, <3>4, <4>1 DEF Reached
    <3> QED
      BY <1>1, <3>5, <3>6, Thresholds
  <2>4. CASE c = -1 /\ counter'[k] \in {-2, -3}
    BY <1>2, <2>1, <2>4
  <2>5. \/ counter' = counter
        \/ /\ pc[p] = "casClaim" /\ counter[key[p]] >= 0 /\ ClaimCAS(p) /\ key[p] \in Keys
           /\ counter' = [counter EXCEPT ![key[p]] =
                            IF counter[key[p]] >= BuildThreshold - 1 THEN -1 ELSE counter[key[p]] + 1]
        \/ /\ counter[key[p]] = -1 /\ key[p] \in Keys
           /\ \E v \in {-2, -3} : counter' = [counter EXCEPT ![key[p]] = v]
    BY <1>4, CounterMoves DEF OtherStep
  <2> QED
    BY <1>a, <2>2, <2>3, <2>4, <2>5
<1> QED
  BY <1>3, <1>4 DEF OtherStep

-----------------------------------------------------------------------------
\* Hits, tables and candidates.

\* Which step stores a table: a builder the first one of its key, the owner of
\* promotionMu the second one of a candidate that is building.
LEMMA TableMoves ==
  ASSUME AdmissionInv, PromotionInv, NEW p \in Procs, Begin(p) \/ Step(p)
  PROVE  \/ tables' = tables
         \/ /\ StoreTable(p) /\ key[p] \in Keys /\ tables[key[p]] = "none" /\ counter[key[p]] = -1
            /\ tables' = [tables EXCEPT ![key[p]] = "decoded"]
         \/ /\ InstallTable(p)
            /\ \E k \in Keys : /\ tables[k] = "decoded" /\ status[k] = "building"
                               /\ tables' = [tables EXCEPT ![k] = "warm"]
<1> USE DEF AdmissionInv, PromotionInv, TypeOK, SharedTypeOK, LocalTypeOK
<1>1. CASE StoreTable(p)
  <2>1. key[p] \in Keys /\ tables[key[p]] = "none"
    BY <1>1, StorerFirst DEF StoreTable
  <2>2. IsBuilder(p)
    BY <1>1 DEF StoreTable, IsBuilder, BuildLabels
  <2>3. counter[key[p]] = -1
    BY <2>1, <2>2 DEF SingleBuilder, BuilderMarked, admissionBuilding
  <2> QED
    BY <1>1, <2>1, <2>3 DEF StoreTable
<1>2. CASE InstallTable(p)
  <2>1. PICK k \in group[p] : tables[k] # "warm" /\ tables' = [tables EXCEPT ![k] = "warm"]
    BY <1>2 DEF InstallTable
  <2>2. k \in Keys /\ tables[k] = "decoded" /\ status[k] = "building"
    BY <2>1 DEF GroupStatus
  <2> QED
    BY <1>2, <2>1, <2>2
<1>3. CASE \/ Begin(p) \/ lookup(p) \/ Verify(p)
           \/ AdmitTable(p) \/ AdmitBudget(p) \/ SeenLoad(p) \/ SlotLoad(p) \/ SlotCAS(p)
           \/ Publish(p) \/ SlotRelease(p) \/ ClaimLoad(p) \/ ClaimCAS(p)
  BY <1>3 DEF Begin, lookup, Verify, Accept, Reject, AdmitTable, AdmitBudget, SeenLoad, SlotLoad, SlotCAS,
     Publish, SlotRelease, ClaimLoad, ClaimCAS, shared, tableVars
<1>4. CASE \/ BuildBudget(p) \/ Build(p) \/ ReserveLoad(p) \/ ReserveCAS(p) \/ CountTable(p) \/ Finish(p)
  BY <1>4 DEF BuildBudget, Build, ReserveLoad, ReserveCAS, CountTable, Finish, shared, tableVars
<1>5. CASE PromoteHit(p) \/ PromoteStatus(p) \/ PromoteCAS(p) \/ Lock(p) \/ queuePromotion(p)
  BY <1>5 DEF PromoteHit, PromoteStatus, PromoteCAS, Lock, queuePromotion, shared, tableVars
<1>6. CASE \/ buildPromotionGroupLocked(p) \/ buildSoloPromotionLocked(p) \/ BuildWarm(p)
           \/ RefuseGroup(p) \/ InstallStatus(p) \/ InstallDone(p)
  BY <1>6 DEF buildPromotionGroupLocked, buildSoloPromotionLocked, BuildWarm, RefuseGroup, InstallStatus,
     InstallDone, tableVars
<1> QED
  BY <1>1, <1>2, <1>3, <1>4, <1>5, <1>6 DEF Step

\* Which step moves a hit counter: PromoteHit, which keeps the value it wrote.
LEMMA HitMoves ==
  ASSUME TypeOK, NEW p \in Procs, Begin(p) \/ Step(p)
  PROVE  \/ promoHits' = promoHits
         \/ /\ pc[p] = "promote" /\ pre[p] = "decoded" /\ PromoteHit(p) /\ tables' = tables
            /\ promoHits' = [promoHits EXCEPT ![key[p]] = WrapAdd(@)]
            /\ reg'[p] = WrapAdd(promoHits[key[p]]) /\ pc'[p] = "status" /\ key'[p] = key[p]
<1> USE DEF TypeOK, SharedTypeOK, LocalTypeOK
<1>1. CASE PromoteHit(p)
  BY <1>1 DEF PromoteHit, Load, tableVars
<1>2. CASE \/ Begin(p) \/ lookup(p) \/ Verify(p)
           \/ AdmitTable(p) \/ AdmitBudget(p) \/ SeenLoad(p) \/ SlotLoad(p) \/ SlotCAS(p)
           \/ Publish(p) \/ SlotRelease(p) \/ ClaimLoad(p) \/ ClaimCAS(p)
  BY <1>2 DEF Begin, lookup, Verify, Accept, Reject, AdmitTable, AdmitBudget, SeenLoad, SlotLoad, SlotCAS,
     Publish, SlotRelease, ClaimLoad, ClaimCAS, shared, promotionVars
<1>3. CASE \/ BuildBudget(p) \/ Build(p) \/ ReserveLoad(p) \/ ReserveCAS(p) \/ StoreTable(p)
           \/ CountTable(p) \/ Finish(p)
  BY <1>3 DEF BuildBudget, Build, ReserveLoad, ReserveCAS, StoreTable, CountTable, Finish, shared,
     promotionVars
<1>4. CASE PromoteStatus(p) \/ PromoteCAS(p) \/ Lock(p) \/ queuePromotion(p)
  BY <1>4 DEF PromoteStatus, PromoteCAS, Lock, queuePromotion, shared, promotionVars
<1>5. CASE \/ buildPromotionGroupLocked(p) \/ buildSoloPromotionLocked(p) \/ BuildWarm(p)
           \/ RefuseGroup(p) \/ InstallTable(p) \/ InstallStatus(p) \/ InstallDone(p)
  BY <1>5 DEF buildPromotionGroupLocked, buildSoloPromotionLocked, BuildWarm, RefuseGroup, InstallTable,
     InstallStatus, InstallDone, promotionVars
<1> QED
  BY <1>1, <1>2, <1>3, <1>4, <1>5 DEF Step

\* Adding one to an int32 gives at most one more.
LEMMA WrapAtMost ==
  ASSUME NEW n \in -HitLimit .. (HitLimit - 1)
  PROVE  WrapAdd(n) \in Int /\ WrapAdd(n) <= n + 1
BY CacheAssumption DEF WrapAdd

\* A hit counter never runs ahead of the successes.
LEMMA HitsStep ==
  ASSUME AdmissionInv, PromotionInv, SightingsEarned, HitsEarned, NEW p \in Procs, Begin(p) \/ Step(p)
  PROVE  HitsEarned'
<1> USE Thresholds
<1>0. TypeOK /\ OthersStay(p)
  BY OneMoves DEF AdmissionInv
<1>a. /\ tables \in [Keys -> Tiers] /\ promoHits \in [Keys -> -HitLimit .. (HitLimit - 1)]
      /\ HitLimit \in Nat
  BY <1>0, CacheAssumption DEF TypeOK, SharedTypeOK
<1>b. \A k \in Keys : promoHits[k] \in Int /\ verified[k] \in Int
  BY <1>0, <1>a DEF TypeOK, SharedTypeOK
<1> SUFFICES ASSUME NEW k \in Keys
             PROVE  IF tables'[k] = "none" THEN promoHits'[k] = 0
                    ELSE \/ verified'[k] = Earned
                         \/ verified'[k] >= BuildThreshold + promoHits'[k] + Cardinality(FreshHits(k)')
  BY DEF HitsEarned, Reached
<1> DEFINE h == promoHits[k]
           n == Cardinality(FreshHits(k))
           m == Cardinality(FreshHits(k)')
<1>1. n \in Nat /\ m \in Nat /\ h \in Int /\ verified[k] \in Int
  BY <1>b, SightingSizes
<1>2. IF tables[k] = "none" THEN h = 0 ELSE Reached(k, BuildThreshold + h + n)
  BY DEF HitsEarned
<1>3. CASE pc[p] = "verify" /\ Accept(p)
  <2>1. /\ tables'[k] = tables[k] /\ promoHits'[k] = h
        /\ verified'[k] = IF k = key[p] /\ verified[k] < Earned THEN verified[k] + 1 ELSE verified[k]
    BY <1>0, <1>3, Accepted
  <2>2. m <= n + (IF k = key[p] THEN 1 ELSE 0)
    BY <1>0, <1>3, SightingsGrow
  <2>3. CASE tables[k] = "none"
    BY <1>2, <2>1, <2>3
  <2>4. CASE tables[k] # "none" /\ k = key[p]
    <3>1. /\ BuildThreshold + h + m <= (BuildThreshold + h + n) + 1
          /\ BuildThreshold + h + m \in Int /\ BuildThreshold + h + n \in Int
      BY <1>1, <2>2, <2>4
    <3>2. Reached(k, BuildThreshold + h + n)
      BY <1>2, <2>4
    <3>3. verified'[k] = Earned \/ verified'[k] >= BuildThreshold + h + m
      BY <1>0, <2>1, <2>4, <3>1, <3>2, ReachedMore
    <3> QED
      BY <2>1, <2>4, <3>3
  <2>5. CASE tables[k] # "none" /\ k # key[p]
    BY <1>1, <1>2, <2>1, <2>2, <2>5 DEF Reached
  <2> QED
    BY <2>3, <2>4, <2>5
<1>4. CASE OtherStep(p)
  <2>1. verified' = verified /\ m <= n
    BY <1>0, <1>4, HistoryStays, SightingsShrink
  <2>2. CASE promoHits' = promoHits
    <3>1. CASE tables[k] = "none" /\ tables'[k] # "none"
      <4>1. counter[k] = -1
        BY <1>4, <1>a, <3>1, TableMoves DEF OtherStep
      <4>2. verified[k] >= BuildThreshold
        BY <4>1 DEF SightingsEarned
      <4>3. FreshHits(k) = {}
        BY <3>1 DEF FreshHits, PromotionInv, PreKnown, PromoterLabels, QueueLabels
      <4>4. m = 0 /\ h = 0
        BY <1>1, <1>2, <2>1, <3>1, <4>3, Empty
      <4> QED
        BY <1>1, <2>1, <2>2, <3>1, <4>2, <4>4
    <3>2. CASE (tables[k] = "none") <=> (tables'[k] = "none")
      BY <1>1, <1>2, <2>1, <2>2, <3>2 DEF Reached
    <3>3. tables[k] # "none" => tables'[k] # "none"
      BY <1>4, <1>a, TableMoves DEF OtherStep
    <3> QED
      BY <3>1, <3>2, <3>3
  <2>3. CASE /\ pc[p] = "promote" /\ pre[p] = "decoded" /\ tables' = tables
             /\ promoHits' = [promoHits EXCEPT ![key[p]] = WrapAdd(@)] /\ pc'[p] = "status"
    <3>1. CASE k # key[p]
      BY <1>a, <1>1, <1>2, <2>1, <2>3, <3>1 DEF Reached
    <3>2. CASE k = key[p]
      <4>1. tables[k] # "none"
        BY <2>3, <3>2 DEF PromotionInv, PreKnown
      <4>2. FreshHits(k)' \in SUBSET (FreshHits(k) \ {p}) /\ p \in FreshHits(k)
        BY <1>0, <2>3, <3>2 DEF FreshHits, OthersStay
      <4>3. m <= n - 1
        <5>1. IsFiniteSet(FreshHits(k) \ {p}) /\ Cardinality(FreshHits(k) \ {p}) = n - 1
          BY <4>2, SightingSizes, OneLess
        <5> QED
          BY <4>2, <5>1, Smaller
      <4>4. promoHits'[k] = WrapAdd(h)
        BY <1>a, <2>3, <3>2
      <4>5. WrapAdd(h) \in Int /\ WrapAdd(h) <= h + 1
        BY <1>a, WrapAtMost
      <4>6. Reached(k, BuildThreshold + h + n)
        BY <1>2, <4>1
      <4> QED
        BY <1>1, <2>1, <2>3, <4>1, <4>3, <4>4, <4>5, <4>6 DEF Reached
    <3> QED
      BY <3>1, <3>2
  <2> QED
    BY <1>0, <1>4, <2>2, <2>3, HitMoves DEF OtherStep
<1> QED
  BY <1>3, <1>4 DEF OtherStep

\* Successes are never forgotten.
LEMMA HistoryGrows ==
  ASSUME TypeOK, NEW p \in Procs, Begin(p) \/ Step(p), NEW k \in Keys
  PROVE  /\ verified[k] \in 0 .. Earned /\ verified'[k] \in 0 .. Earned /\ verified'[k] >= verified[k]
         /\ \A n \in Int : Reached(k, n) => verified'[k] = Earned \/ verified'[k] >= n
<1>1. verified[k] \in 0 .. Earned /\ Earned \in Nat
  BY Thresholds DEF TypeOK, SharedTypeOK
<1>2. verified'[k] = verified[k] \/ verified'[k] = IF verified[k] < Earned THEN verified[k] + 1 ELSE verified[k]
  <2>1. CASE pc[p] = "verify" /\ Accept(p)
    BY <2>1, Accepted
  <2>2. CASE OtherStep(p)
    BY <2>2, HistoryStays
  <2> QED
    BY <2>1, <2>2 DEF OtherStep
<1> QED
  BY <1>1, <1>2 DEF Reached

\* Only the compare-and-swap of promote makes an idle key a candidate.
LEMMA IdleLeaves ==
  ASSUME PromotionInv, NEW p \in Procs, Begin(p) \/ Step(p), NEW k \in Keys,
         status[k] = "idle", status'[k] # "idle"
  PROVE  pc[p] = "casStatus" /\ k = key[p]
<1> USE DEF PromotionInv, TypeOK, SharedTypeOK, LocalTypeOK
<1>1. CASE AdmissionStep(p)
  BY <1>1, AdmissionSteps DEF AdmissionQuiet
<1>2. CASE PromoteHit(p) \/ PromoteStatus(p) \/ PromoteCAS(p) \/ Lock(p) \/ queuePromotion(p)
  BY <1>2 DEF PromoteHit, PromoteStatus, PromoteCAS, Lock, queuePromotion, shared, promotionVars
<1>3. CASE buildPromotionGroupLocked(p)
  <2>1. status'[k] = status[k] \/ k \in promotionPending
    BY <1>3 DEF buildPromotionGroupLocked
  <2> QED
    BY <2>1 DEF Candidates
<1>4. CASE buildSoloPromotionLocked(p)
  <2>1. status'[k] = status[k] \/ (k = key[p] /\ pc[p] = "solo")
    BY <1>4 DEF buildSoloPromotionLocked
  <2> QED
    BY <2>1 DEF Candidates
<1>5. CASE BuildWarm(p) \/ RefuseGroup(p) \/ InstallTable(p) \/ InstallStatus(p) \/ InstallDone(p)
  <2>1. status'[k] = status[k] \/ k \in group[p]
    BY <1>5 DEF BuildWarm, RefuseGroup, InstallTable, InstallStatus, InstallDone, StoreGroup, promotionVars
  <2> QED
    BY <2>1 DEF GroupStatus
<1> QED
  BY <1>1, <1>2, <1>3, <1>4, <1>5 DEF Step, AdmissionStep

\* The labels at which a goroutine compares a hit count are reached in order.
LEMMA PromoterMoves ==
  ASSUME TypeOK, NEW p \in Procs, Begin(p) \/ Step(p)
  PROVE  /\ pc'[p] = "status" => PromoteHit(p)
         /\ pc'[p] = "casStatus" => /\ PromoteStatus(p) /\ pc[p] = "status" /\ key'[p] = key[p]
                                    /\ reg[p] >= PromotionThreshold
<1> USE DEF TypeOK, LocalTypeOK, Goto, Load, Return, localVars
<1>1. CASE PromoteHit(p) \/ PromoteStatus(p)
  BY <1>1 DEF PromoteHit, PromoteStatus, CallQueue
<1>2. CASE Begin(p) \/ lookup(p) \/ Verify(p)
  BY <1>2 DEF Begin, lookup, Verify, Accept, Reject
<1>3. CASE \/ AdmitTable(p) \/ AdmitBudget(p) \/ SeenLoad(p) \/ SlotLoad(p) \/ SlotCAS(p)
           \/ Publish(p) \/ SlotRelease(p) \/ ClaimLoad(p) \/ ClaimCAS(p)
  BY <1>3 DEF AdmitTable, AdmitBudget, SeenLoad, SlotLoad, SlotRefused, SlotCAS, Publish, SlotRelease,
       ClaimLoad, ClaimCAS
<1>4. CASE \/ BuildBudget(p) \/ Build(p) \/ ReserveLoad(p) \/ ReserveCAS(p) \/ StoreTable(p)
           \/ CountTable(p) \/ Finish(p)
  BY <1>4 DEF BuildBudget, Build, ReserveLoad, ReserveCAS, StoreTable, CountTable, Finish
<1>5. CASE PromoteCAS(p) \/ Lock(p) \/ queuePromotion(p)
  BY <1>5 DEF PromoteCAS, Lock, queuePromotion, UnlockReturn, CallQueue
<1>6. CASE \/ buildPromotionGroupLocked(p) \/ buildSoloPromotionLocked(p) \/ BuildWarm(p)
           \/ RefuseGroup(p) \/ InstallTable(p) \/ InstallStatus(p) \/ InstallDone(p)
  BY <1>6 DEF buildPromotionGroupLocked, buildSoloPromotionLocked, BuildWarm, RefuseGroup, InstallTable,
       InstallStatus, InstallDone, UnlockReturn, BuildGroup
<1> QED
  BY <1>1, <1>2, <1>3, <1>4, <1>5, <1>6 DEF Step

\* Whoever compares a hit count with the threshold holds a true one, and whoever
\* passes has a key that earned its promotion.
LEMMA PromoterStep ==
  ASSUME AdmissionInv, PromotionInv, HitsEarned, PromoterEarned, StatusEarned,
         NEW p \in Procs, Begin(p) \/ Step(p)
  PROVE  PromoterEarned' /\ StatusEarned'
<1> USE Thresholds
<1>0. TypeOK /\ OthersStay(p)
  BY OneMoves DEF AdmissionInv
<1>1. \A k \in Keys : /\ verified[k] \in 0 .. Earned /\ verified'[k] \in 0 .. Earned
                      /\ verified'[k] >= verified[k]
                      /\ \A n \in Int : Reached(k, n) => verified'[k] = Earned \/ verified'[k] >= n
  BY <1>0, HistoryGrows
<1>2. \A q \in Procs : pc[q] # "idle" => key[q] \in Keys /\ reg[q] \in Int
  BY <1>0 DEF TypeOK, LocalTypeOK
<1> DEFINE Earning(q) == /\ pc[q] = "status" => Reached(key[q], BuildThreshold + reg[q])
                         /\ pc[q] = "casStatus" => verified[key[q]] = Earned
<1>3. ASSUME NEW q \in Procs \ {p}
      PROVE  Earning(q)'
  <2>1. Earning(q)
    BY DEF PromoterEarned
  <2>2. pc'[q] = pc[q] /\ key'[q] = key[q] /\ reg'[q] = reg[q]
    BY <1>0 DEF OthersStay
  <2> QED
    BY <1>1, <1>2, <2>1, <2>2 DEF Reached
<1>4. ASSUME pc'[p] = "status"
      PROVE  Earning(p)'
  <2> DEFINE k == key[p]
             h == promoHits[k]
             n == Cardinality(FreshHits(k))
  <2>1. pc[p] = "promote" /\ pre[p] = "decoded" /\ reg'[p] = WrapAdd(h) /\ key'[p] = k /\ k \in Keys
    <3>1. PromoteHit(p)
      BY <1>0, <1>4, PromoterMoves
    <3>2. pre[p] # "warm"
      BY <1>0, <1>4, <3>1 DEF PromoteHit, Return, TypeOK, LocalTypeOK
    <3> QED
      BY <1>0, <1>2, <3>1, <3>2 DEF PromoteHit, Load, TypeOK, LocalTypeOK
  <2>2. tables[k] # "none" /\ h \in -HitLimit .. (HitLimit - 1)
    BY <1>0, <2>1 DEF PromotionInv, PreKnown, TypeOK, SharedTypeOK
  <2>3. Reached(k, BuildThreshold + h + n)
    BY <2>1, <2>2 DEF HitsEarned
  <2>4. n \in Nat /\ n >= 1
    <3>1. p \in FreshHits(k)
      BY <2>1 DEF FreshHits
    <3>2. Cardinality(FreshHits(k) \ {p}) = n - 1 /\ Cardinality(FreshHits(k) \ {p}) \in Nat /\ n \in Nat
      BY <2>1, <3>1, SightingSizes, OneLess
    <3> QED
      BY <3>2
  <2>5. WrapAdd(h) \in Int /\ WrapAdd(h) <= h + 1 /\ h \in Int
    BY <2>2, WrapAtMost, CacheAssumption
  <2>6. Reached(k, BuildThreshold + WrapAdd(h)) /\ BuildThreshold + WrapAdd(h) \in Int
    BY <1>1, <2>1, <2>3, <2>4, <2>5 DEF Reached
  <2> QED
    BY <1>1, <1>4, <2>1, <2>6 DEF Reached
<1>5. ASSUME pc'[p] = "casStatus"
      PROVE  Earning(p)'
  <2>1. pc[p] = "status" /\ reg[p] >= PromotionThreshold /\ key'[p] = key[p]
    BY <1>0, <1>5, PromoterMoves
  <2>2. Reached(key[p], BuildThreshold + reg[p]) /\ key[p] \in Keys /\ reg[p] \in Int
    BY <1>2, <2>1 DEF PromoterEarned
  <2> QED
    BY <1>1, <1>5, <2>1, <2>2 DEF Reached
<1>6. PromoterEarned'
  BY <1>3, <1>4, <1>5 DEF PromoterEarned
<1>7. StatusEarned'
  <2> SUFFICES ASSUME NEW k \in Keys, status'[k] # "idle"
               PROVE  verified'[k] = Earned
    BY DEF StatusEarned
  <2>1. status[k] # "idle" \/ (pc[p] = "casStatus" /\ k = key[p])
    BY IdleLeaves
  <2>2. verified[k] = Earned
    BY <2>1 DEF StatusEarned, PromoterEarned
  <2> QED
    BY <1>1, <2>2
<1> QED
  BY <1>6, <1>7

-----------------------------------------------------------------------------
\* The credit invariant, and the refinement it carries.

\* Every step keeps the credit invariant.
LEMMA CreditStep ==
  ASSUME CreditInv, [Next]_vars
  PROVE  CreditInv'
<1>1. BudgetInv'
  BY BudgetStep DEF CreditInv
<1>2. CASE UNCHANGED vars
  <2>1. /\ counter' = counter /\ verified' = verified /\ tables' = tables /\ promoHits' = promoHits
        /\ status' = status /\ pc' = pc /\ key' = key /\ reg' = reg
    BY <1>2 DEF vars, shared, tableVars, admissionVars, promotionVars, localVars
  <2>2. SightingsEarned'
    BY <2>1 DEF CreditInv, SightingsEarned, Reached, Sightings
  <2>3. HitsEarned'
    BY <2>1 DEF CreditInv, HitsEarned, Reached, FreshHits
  <2>4. PromoterEarned' /\ StatusEarned'
    BY <2>1 DEF CreditInv, PromoterEarned, StatusEarned, Reached
  <2> QED
    BY <1>1, <2>2, <2>3, <2>4 DEF CreditInv
<1>3. ASSUME NEW p \in Procs, Begin(p) \/ Step(p)
      PROVE  CreditInv'
  <2>1. AdmissionInv /\ PromotionInv
    BY DEF CreditInv, BudgetInv
  <2>2. SightingsEarned' /\ HitsEarned' /\ PromoterEarned' /\ StatusEarned'
    BY <1>3, <2>1, SightingsStep, HitsStep, PromoterStep DEF CreditInv
  <2> QED
    BY <1>1, <2>2 DEF CreditInv
<1> QED
  BY <1>2, <1>3 DEF Next

\* The credit invariant holds in every reachable state.
THEOREM CreditInvariant == Spec => []CreditInv
<1>1. BudgetInv /\ Init => CreditInv
  <2> SUFFICES ASSUME BudgetInv, Init
               PROVE  CreditInv
    OBVIOUS
  <2>1. \A k \in Keys : /\ Sightings(k) = {} /\ FreshHits(k) = {} /\ counter[k] = 0 /\ verified[k] = 0
                        /\ promoHits[k] = 0 /\ tables[k] = "none" /\ status[k] = "idle"
    BY DEF Init, Sightings, FreshHits, AdmitLabels
  <2>2. \A p \in Procs : pc[p] = "idle"
    BY DEF Init
  <2>3. SightingsEarned
    BY <2>1, Empty DEF SightingsEarned, Reached
  <2>4. HitsEarned /\ PromoterEarned /\ StatusEarned
    BY <2>1, <2>2 DEF HitsEarned, PromoterEarned, StatusEarned
  <2> QED
    BY <2>3, <2>4 DEF CreditInv
<1>2. CreditInv /\ [Next]_vars => CreditInv'
  BY CreditStep
<1> QED
  BY <1>1, <1>2, BudgetInvariant, PTL DEF Spec

\* The memory of all stored tables stays within the budget after every step.
LEMMA FootprintBound ==
  ASSUME TypeOK, ByteAccounting
  PROVE  Footprint <= MaxBytes
<1> DEFINE s == Cardinality(Storing)
           i == Cardinality(Installing)
<1>1. DecodedBytes * s \in Nat /\ Upgrade * i \in Nat
  BY LedgerSizes, Prices, Products
<1>2. InFlight \in Nat
  <2>1. InFlight = DecodedBytes * s + Upgrade * i
    BY DEF InFlight, Storing, Installing, Upgrade
  <2> HIDE DEF s, i
  <2> QED
    BY <1>1, <2>1
<1>3. Footprint \in Nat
  <2>1. DecodedBytes * Cardinality(HasTable) \in Nat /\ Upgrade * Cardinality(Warm) \in Nat
    BY LedgerSizes, Prices, Products
  <2>2. Footprint = DecodedBytes * Cardinality(HasTable) + Upgrade * Cardinality(Warm)
    BY DEF Footprint, HasTable, Warm, Upgrade
  <2> QED
    BY <2>1, <2>2
<1>4. MaxBytes \in Nat
  BY CacheAssumption
<1> QED
  BY <1>2, <1>3, <1>4 DEF ByteAccounting

\* The abstract store measures memory as the byte counter does.
LEMMA SameFootprint == Store!Footprint(tables) = Footprint
<1>1. \A S : Store!Cardinality(S) = Cardinality(S)
  BY DEF Cardinality, Store!Cardinality
<1> QED
  BY <1>1 DEF Footprint, Store!Footprint

\* Every step of the cache is a step of the abstract store, or none.
LEMMA StoreStep ==
  ASSUME CreditInv, CreditInv', [Next]_vars
  PROVE  [Store!Next]_<<tables, verified>>
<1>0. TypeOK /\ AdmissionInv /\ PromotionInv
  BY DEF CreditInv, BudgetInv, AdmissionInv
<1>a. tables \in [Keys -> Tiers] /\ verified \in [Keys -> 0 .. Earned]
  BY <1>0 DEF TypeOK, SharedTypeOK
<1>b. Store!Footprint(tables)' <= MaxBytes
  <2>1. TypeOK' /\ ByteAccounting'
    BY DEF CreditInv, BudgetInv, AdmissionInv
  <2>2. (TypeOK /\ ByteAccounting => Footprint <= MaxBytes)'
    BY FootprintBound, PTL
  <2>3. (Store!Footprint(tables) = Footprint)'
    BY SameFootprint, PTL
  <2> QED
    BY <2>1, <2>2, <2>3
<1>1. CASE UNCHANGED vars
  BY <1>1 DEF vars, shared, tableVars
<1>2. ASSUME NEW p \in Procs, Begin(p) \/ Step(p)
      PROVE  [Store!Next]_<<tables, verified>>
  <2>1. CASE pc[p] = "verify" /\ Accept(p)
    <3>1. key[p] \in Keys /\ tables' = tables
      BY <1>0, <2>1, Accepted
    <3>2. verified' = [verified EXCEPT ![key[p]] = IF @ < Earned THEN @ + 1 ELSE @]
      BY <2>1 DEF Accept
    <3>3. Store!Succeed(key[p])
      BY <3>1, <3>2 DEF Store!Succeed, Store!Earned, Earned
    <3> QED
      BY <3>1, <3>3 DEF Store!Next
  <2>2. CASE OtherStep(p)
    <3>1. verified' = verified
      BY <1>0, <2>2, HistoryStays
    <3>2. CASE tables' = tables
      BY <3>1, <3>2
    <3>3. CASE /\ key[p] \in Keys /\ tables[key[p]] = "none" /\ counter[key[p]] = -1
               /\ tables' = [tables EXCEPT ![key[p]] = "decoded"]
      <4>1. verified[key[p]] >= BuildThreshold
        BY <3>3 DEF CreditInv, SightingsEarned
      <4>2. Store!Install(key[p])
        BY <1>b, <3>1, <3>3, <4>1 DEF Store!Install, Store!Replace, Store!Footprint
      <4> QED
        BY <3>3, <4>2 DEF Store!Next
    <3>4. CASE \E k \in Keys : /\ tables[k] = "decoded" /\ status[k] = "building"
                               /\ tables' = [tables EXCEPT ![k] = "warm"]
      <4>1. PICK k \in Keys : /\ tables[k] = "decoded" /\ status[k] = "building"
                              /\ tables' = [tables EXCEPT ![k] = "warm"]
        BY <3>4
      <4>2. verified[k] >= Earned
        <5>1. verified[k] = Earned /\ Earned \in Nat
          BY <4>1, Thresholds DEF CreditInv, StatusEarned
        <5> QED
          BY <5>1
      <4>3. Store!Promote(k)
        BY <1>b, <3>1, <4>1, <4>2 DEF Store!Promote, Store!Replace, Store!Footprint, Store!Earned, Earned
      <4> QED
        BY <4>3 DEF Store!Next
    <3> QED
      BY <1>0, <2>2, <3>2, <3>3, <3>4, TableMoves DEF OtherStep
  <2> QED
    BY <1>2, <2>1, <2>2 DEF OtherStep
<1> QED
  BY <1>1, <1>2 DEF Next

\* The cache implements the abstract table store: whatever the interleaving, a key
\* earns a first-tier table only by BuildThreshold successful verifications and a
\* second-tier table only by PromotionThreshold more, no table is evicted, shrunk
\* or built twice, and the memory of all tables never exceeds MaxTableBytes.
THEOREM CacheImplementsStore == Spec => ImplementsTableStore
<1>1. Init => Store!Init
  BY DEF Init, Store!Init
<1>2. CreditInv /\ CreditInv' /\ [Next]_vars => [Store!Next]_<<tables, verified>>
  BY StoreStep
<1> QED
  BY <1>1, <1>2, CreditInvariant, PTL DEF Spec, ImplementsTableStore, Store!Spec

-----------------------------------------------------------------------------
\* No success is lost either, as long as there is room.

\* There are slots for every key and every goroutine, and bytes left.
RoomLeft == bytes < MaxBytes /\ EntryLimit >= Cardinality(Keys) + Cardinality(Procs)

\* An undecided key has counted every success but those a goroutine is about to
\* count, and nobody was refused a slot.
NoneLost ==
  /\ \A k \in Keys : counter[k] >= 0 => verified[k] <= counter[k] + Cardinality(Sightings(k))
  /\ \A p \in Procs : pc[p] # "recheck"

ExactInv == CreditInv /\ SlotInv /\ (RoomLeft => NoneLost)

\* A key with a table is not counting sightings any more.
LEMMA TableUncounted ==
  ASSUME AdmissionInv, NEW k \in Keys, tables[k] # "none"
  PROVE  counter[k] < 0
<1> USE DEF AdmissionInv, SingleBuilder
<1>1. CASE counter[k] = admissionComplete
  BY <1>1 DEF admissionComplete
<1>2. CASE \E p \in Procs : key[p] = k /\ pc[p] \in {"count", "complete"}
  BY <1>2 DEF BuilderMarked, IsBuilder, BuildLabels, admissionBuilding
<1> QED
  BY <1>1, <1>2 DEF TableDecided

\* With room for all a slot is never refused: a goroutine that asks for one holds
\* none, so at most the others and the published keys do.
LEMMA SlotFree ==
  ASSUME SlotInv, NEW p \in Procs, pc[p] = "slot",
         EntryLimit >= Cardinality(Keys) + Cardinality(Procs)
  PROVE  seenCount < EntryLimit
<1>1. SlotHolders \in SUBSET (Procs \ {p}) /\ seen \in SUBSET Keys
  BY DEF SlotInv, SlotHolders, TypeOK, SharedTypeOK
<1>2. IsFiniteSet(Procs) /\ IsFiniteSet(Keys) /\ EntryLimit \in Nat
  BY CacheAssumption
<1>3. /\ IsFiniteSet(Procs \ {p}) /\ Cardinality(Procs \ {p}) = Cardinality(Procs) - 1
      /\ Cardinality(Procs) \in Nat /\ Cardinality(Procs \ {p}) \in Nat
  BY <1>2, OneLess
<1>4. /\ Cardinality(SlotHolders) \in Nat /\ Cardinality(SlotHolders) <= Cardinality(Procs \ {p})
      /\ Cardinality(seen) \in Nat /\ Cardinality(seen) <= Cardinality(Keys) /\ Cardinality(Keys) \in Nat
  BY <1>1, <1>2, <1>3, Smaller
<1>5. seenCount = Cardinality(seen) + Cardinality(SlotHolders)
  BY DEF SlotInv, SlotAccounting, SlotHolders
<1> QED
  BY <1>2, <1>3, <1>4, <1>5

\* While there is room, a goroutine that leaves admit without counting leaves a key
\* that is decided, or about to be.
LEMMA LeavesDecided ==
  ASSUME AdmissionInv, SlotInv, RoomLeft, NoneLost, NEW p \in Procs, OtherStep(p), pc[p] \in AdmitLabels,
         counter' = counter
  PROVE  /\ pc'[p] # "recheck"
         /\ pc'[p] \in AdmitLabels => key'[p] = key[p]
         /\ pc'[p] \notin AdmitLabels => counter[key[p]] < 0
<1> USE DEF AdmissionInv, TypeOK, SharedTypeOK, LocalTypeOK, AdmitLabels
<1>0. key[p] \in Keys
  OBVIOUS
<1>1. CASE AdmitTable(p)
  BY <1>0, <1>1, TableUncounted DEF AdmitTable, Goto, Return, localVars
<1>2. CASE AdmitBudget(p)
  BY <1>2, CacheAssumption DEF AdmitBudget, RoomLeft, Goto, localVars
<1>3. CASE SeenLoad(p)
  <2>1. pc[p] # "recheck"
    BY DEF NoneLost
  <2> QED
    BY <1>3, <2>1 DEF SeenLoad, Goto, localVars
<1>4. CASE SlotLoad(p)
  <2>1. seenCount < EntryLimit /\ seenCount \in Int /\ EntryLimit \in Int
    BY <1>4, SlotFree, CacheAssumption DEF SlotLoad, RoomLeft
  <2>2. ~(seenCount >= EntryLimit)
    BY <2>1
  <2> QED
    BY <1>4, <2>2 DEF SlotLoad, Load
<1>5. CASE SlotCAS(p) \/ Publish(p) \/ SlotRelease(p)
  BY <1>5 DEF SlotCAS, Publish, SlotRelease, Goto, localVars
<1>6. CASE ClaimLoad(p)
  BY <1>6 DEF ClaimLoad, Decided, Load, Return
<1>7. CASE ClaimCAS(p)
  <2>1. CASE ~ClaimUnchanged(p)
    BY <1>7, <2>1 DEF ClaimCAS, Goto, localVars
  <2>2. CASE ClaimUnchanged(p)
    <3>1. counter[key[p]] = reg[p] /\ reg[p] \in Int /\ reg[p] >= 0
      BY <1>7, <2>2 DEF ClaimUnchanged, ClaimCAS, CounterPublished
    <3>2. counter'[key[p]] = -1 \/ counter'[key[p]] = reg[p] + 1
      BY <1>0, <1>7, <2>2 DEF ClaimCAS, admissionBuilding
    <3> QED
      BY <3>1, <3>2
  <2> QED
    BY <2>1, <2>2
<1>8. Step(p)
  BY DEF OtherStep, Begin
<1>9. ~(lookup(p) \/ Verify(p))
  BY DEF lookup, Verify
<1>10. ~(BuildBudget(p) \/ Build(p) \/ ReserveLoad(p) \/ ReserveCAS(p) \/ StoreTable(p) \/ CountTable(p)
          \/ Finish(p))
  BY DEF BuildBudget, Build, ReserveLoad, ReserveCAS, StoreTable, CountTable, Finish
<1>11. ~(PromoteHit(p) \/ PromoteStatus(p) \/ PromoteCAS(p) \/ Lock(p) \/ queuePromotion(p))
  BY DEF PromoteHit, PromoteStatus, PromoteCAS, Lock, queuePromotion
<1>12. ~(buildPromotionGroupLocked(p) \/ buildSoloPromotionLocked(p) \/ BuildWarm(p) \/ RefuseGroup(p)
          \/ InstallTable(p) \/ InstallStatus(p) \/ InstallDone(p))
  BY DEF buildPromotionGroupLocked, buildSoloPromotionLocked, BuildWarm, RefuseGroup, InstallTable,
     InstallStatus, InstallDone
<1> HIDE DEF AdmissionInv, TypeOK, SharedTypeOK, LocalTypeOK, AdmitLabels
<1> QED
  BY <1>1, <1>2, <1>3, <1>4, <1>5, <1>6, <1>7, <1>8, <1>9, <1>10, <1>11, <1>12 DEF Step

\* While there is room no success is lost.
LEMMA NoneLostStep ==
  ASSUME AdmissionInv, PromotionInv, SlotInv, RoomLeft, NoneLost, NEW p \in Procs, Begin(p) \/ Step(p)
  PROVE  NoneLost'
<1>0. TypeOK /\ OthersStay(p)
  BY OneMoves DEF AdmissionInv
<1>a. /\ counter \in [Keys -> Int] /\ \A k \in Keys : verified[k] \in Int
      /\ pc \in [Procs -> Labels] /\ key \in [Procs -> Keys \cup {NoKey}]
  BY <1>0, Thresholds DEF TypeOK, SharedTypeOK, LocalTypeOK, admissionComplete
<1>b. \A k \in Keys : /\ Cardinality(Sightings(k)) \in Nat /\ Cardinality(Sightings(k)') \in Nat
                      /\ IsFiniteSet(Sightings(k))
                      /\ counter[k] >= 0 => verified[k] <= counter[k] + Cardinality(Sightings(k))
  BY SightingSizes DEF NoneLost
<1>1. CASE pc[p] = "verify" /\ Accept(p)
  <2>1. /\ key[p] \in Keys /\ counter' = counter /\ pc'[p] # "recheck" /\ pc'[p] \in {"admit", "promote", "idle"}
        /\ \A k \in Keys : verified'[k] = IF k = key[p] /\ verified[k] < Earned THEN verified[k] + 1
                                          ELSE verified[k]
        /\ pc'[p] # "idle" => key'[p] = key[p]
    BY <1>0, <1>1, Accepted
  <2>2. pc'[p] # "admit" => pre[p] # "none"
    BY <1>1, <1>a DEF Accept, Goto
  <2>3. pre[p] # "none" => counter[key[p]] < 0
    BY <1>a, <2>1, TableUncounted DEF PromotionInv, PreKnown
  <2>4. ASSUME NEW k \in Keys, counter[k] >= 0
        PROVE  verified'[k] <= counter[k] + Cardinality(Sightings(k)')
    <3>1. CASE k = key[p]
      <4>1. pc'[p] = "admit" /\ key'[p] = k
        BY <1>a, <2>1, <2>2, <2>3, <2>4, <3>1
      <4>2. Sightings(k)' = Sightings(k) \cup {p} /\ p \notin Sightings(k)
        BY <1>0, <1>1, <4>1 DEF Sightings, OthersStay, AdmitLabels
      <4>3. Cardinality(Sightings(k)') = Cardinality(Sightings(k)) + 1
        BY <1>b, <4>2, OneMore
      <4>4. verified'[k] <= verified[k] + 1 /\ verified'[k] \in Int
        BY <1>a, <2>1, Thresholds
      <4> QED
        BY <1>a, <1>b, <2>4, <4>3, <4>4
    <3>2. CASE k # key[p]
      <4>1. Sightings(k)' = Sightings(k)
        BY <1>0, <1>1, <2>1, <3>2 DEF Sightings, OthersStay, AdmitLabels
      <4>2. verified'[k] = verified[k]
        BY <2>1, <3>2
      <4> QED
        BY <1>b, <2>4, <4>1, <4>2
    <3> QED
      BY <3>1, <3>2
  <2>5. \A q \in Procs : pc'[q] # "recheck"
    BY <1>0, <2>1 DEF NoneLost, OthersStay
  <2> QED
    BY <2>1, <2>4, <2>5 DEF NoneLost
<1>2. CASE OtherStep(p)
  <2>1. /\ verified' = verified
        /\ pc'[p] \in AdmitLabels => pc[p] \in AdmitLabels /\ key'[p] = key[p]
    BY <1>0, <1>2, HistoryStays
  <2>2. \A k \in Keys : p \notin Sightings(k) => Sightings(k)' = Sightings(k)
    BY <1>0, <2>1 DEF Sightings, OthersStay
  <2>3. CASE counter' = counter
    <3>1. pc[p] \in AdmitLabels => /\ pc'[p] # "recheck"
                                   /\ pc'[p] \notin AdmitLabels => counter[key[p]] < 0
      BY <1>2, <2>3, LeavesDecided
    <3>2. ASSUME NEW k \in Keys, counter[k] >= 0
          PROVE  Sightings(k)' = Sightings(k)
      <4>1. CASE p \in Sightings(k)
        <5>1. pc'[p] \in AdmitLabels /\ key'[p] = k
          BY <1>a, <2>1, <3>1, <3>2, <4>1 DEF Sightings
        <5> QED
          BY <1>0, <4>1, <5>1 DEF Sightings, OthersStay
      <4> QED
        BY <2>2, <4>1
    <3>3. \A q \in Procs : pc'[q] # "recheck"
      BY <1>0, <2>1, <3>1 DEF NoneLost, OthersStay, AdmitLabels
    <3> QED
      BY <1>b, <2>1, <2>3, <3>2, <3>3 DEF NoneLost
  <2>4. CASE /\ pc[p] = "casClaim" /\ counter[key[p]] >= 0 /\ ClaimCAS(p) /\ key[p] \in Keys
             /\ counter' = [counter EXCEPT ![key[p]] =
                              IF counter[key[p]] >= BuildThreshold - 1 THEN -1 ELSE counter[key[p]] + 1]
    <3>1. counter'[key[p]] # counter[key[p]] /\ counter'[key[p]] \in {-1, counter[key[p]] + 1}
      BY <1>a, <2>4, Thresholds
    <3>2. pc'[p] \notin AdmitLabels
      BY <1>a, <2>4, <3>1 DEF ClaimCAS, Goto, Return, AdmitLabels
    <3>3. ASSUME NEW k \in Keys, counter'[k] >= 0
          PROVE  verified'[k] <= counter'[k] + Cardinality(Sightings(k)')
      <4>1. CASE k = key[p]
        <5>1. Sightings(k)' = Sightings(k) \ {p} /\ p \in Sightings(k)
          BY <1>0, <2>4, <3>2, <4>1 DEF Sightings, OthersStay, AdmitLabels
        <5>2. Cardinality(Sightings(k)') = Cardinality(Sightings(k)) - 1
          BY <1>b, <5>1, OneLess
        <5>3. counter'[k] = counter[k] + 1 /\ counter[k] >= 0
          BY <2>4, <3>1, <3>3, <4>1
        <5> QED
          BY <1>a, <1>b, <2>1, <5>2, <5>3
      <4>2. CASE k # key[p]
        <5>1. p \notin Sightings(k) /\ counter'[k] = counter[k]
          BY <1>a, <2>4, <4>2 DEF Sightings
        <5> QED
          BY <1>b, <2>1, <2>2, <3>3, <5>1
      <4> QED
        BY <4>1, <4>2
    <3>4. \A q \in Procs : pc'[q] # "recheck"
      BY <1>0, <3>2 DEF NoneLost, OthersStay, AdmitLabels
    <3> QED
      BY <3>3, <3>4 DEF NoneLost
  <2>5. CASE /\ Finish(p) /\ counter[key[p]] = -1 /\ key[p] \in Keys
             /\ \E v \in {-2, -3} : counter' = [counter EXCEPT ![key[p]] = v]
    <3>1. pc[p] \notin AdmitLabels /\ pc'[p] = "idle"
      BY <1>a, <2>5 DEF Finish, Return, AdmitLabels
    <3>2. ASSUME NEW k \in Keys, counter'[k] >= 0
          PROVE  counter'[k] = counter[k] /\ Sightings(k)' = Sightings(k)
      <4>1. counter'[k] = counter[k]
        BY <1>a, <2>5, <3>2
      <4>2. p \notin Sightings(k)
        BY <3>1 DEF Sightings
      <4> QED
        BY <2>2, <4>1, <4>2
    <3>3. \A q \in Procs : pc'[q] # "recheck"
      BY <1>0, <3>1 DEF NoneLost, OthersStay
    <3> QED
      BY <1>b, <2>1, <3>2, <3>3 DEF NoneLost
  <2> QED
    BY <1>2, <2>3, <2>4, <2>5, CounterMoves DEF OtherStep
<1> QED
  BY <1>1, <1>2 DEF OtherStep

\* Every step keeps the exact invariant: room that is left now was left before.
LEMMA ExactStep ==
  ASSUME ExactInv, [Next]_vars
  PROVE  ExactInv'
<1>1. CreditInv'
  BY CreditStep DEF ExactInv
<1>2. TypeOK'
  BY TypeStep DEF ExactInv, SlotInv
<1>3. CASE UNCHANGED vars
  <2>1. /\ counter' = counter /\ verified' = verified /\ pc' = pc /\ key' = key /\ reg' = reg
        /\ bytes' = bytes /\ seen' = seen /\ seenCount' = seenCount
    BY <1>3 DEF vars, shared, tableVars, admissionVars, localVars
  <2>2. SlotInv'
    BY <1>2, <2>1 DEF ExactInv, SlotInv, SlotAccounting, SlotSeen
  <2>3. RoomLeft' => NoneLost'
    BY <2>1 DEF ExactInv, RoomLeft, NoneLost, Sightings
  <2> QED
    BY <1>1, <2>2, <2>3 DEF ExactInv
<1>4. ASSUME NEW p \in Procs, Begin(p) \/ Step(p)
      PROVE  ExactInv'
  <2>1. SlotInv'
    BY <1>2, <1>4, SlotStep DEF ExactInv, SlotInv
  <2>2. AdmissionInv /\ PromotionInv /\ BudgetFrame /\ Priced
    BY PricedIsExact DEF ExactInv, CreditInv, BudgetInv
  <2>3. RoomLeft' => RoomLeft
    <3>1. bytes' \in Nat /\ bytes \in Nat /\ bytes <= bytes' /\ MaxBytes \in Nat
      BY <1>4, <2>2, PricedStep, CacheAssumption
    <3> QED
      BY <3>1 DEF RoomLeft
  <2>4. RoomLeft => NoneLost'
    BY <1>4, <2>2, NoneLostStep DEF ExactInv
  <2> QED
    BY <1>1, <2>1, <2>3, <2>4 DEF ExactInv
<1> QED
  BY <1>3, <1>4 DEF Next

\* The exact invariant holds in every reachable state.
THEOREM ExactInvariant == Spec => []ExactInv
<1>1. Init /\ CreditInv => ExactInv
  <2> SUFFICES ASSUME Init, CreditInv
               PROVE  ExactInv
    OBVIOUS
  <2>1. TypeOK
    BY DEF CreditInv, BudgetInv, AdmissionInv
  <2>2. SlotHolders = {} /\ seen = {} /\ seenCount = 0 /\ SlotSeen
    BY DEF Init, SlotSeen, SlotHolders
  <2>3. SlotAccounting
    <3>1. EntryLimit \in Nat
      BY CacheAssumption
    <3>2. seenCount = Cardinality(seen) + Cardinality(SlotHolders) /\ seenCount <= EntryLimit
      BY <2>2, <3>1, Empty
    <3> QED
      BY <3>2 DEF SlotAccounting, SlotHolders
  <2>4. \A k \in Keys : Sightings(k) = {} /\ counter[k] = 0 /\ verified[k] = 0
    BY DEF Init, Sightings, AdmitLabels
  <2>5. NoneLost
    <3>1. \A k \in Keys : verified[k] <= counter[k] + Cardinality(Sightings(k))
      BY <2>4, Empty
    <3>2. \A p \in Procs : pc[p] # "recheck"
      BY DEF Init
    <3> QED
      BY <3>1, <3>2 DEF NoneLost
  <2> QED
    BY <2>1, <2>2, <2>3, <2>5 DEF ExactInv, SlotInv
<1>2. ExactInv /\ [Next]_vars => ExactInv'
  BY ExactStep
<1> QED
  BY <1>1, <1>2, CreditInvariant, PTL DEF Spec

\* When no call is in progress every successful verification of a key without a
\* table was counted exactly once, and a key that reached the threshold is decided:
\* no lost update between admissionCounter, claimAdmissionBuild and admit, for any
\* number of goroutines, while there is room for all of them.
THEOREM AdmissionCounted == Spec => []AdmissionExact
<1>1. ExactInv => AdmissionExact
  <2> SUFFICES ASSUME ExactInv, Quiescent, RoomLeft, NEW k \in Keys
               PROVE  IF verified[k] < BuildThreshold THEN counter[k] = verified[k]
                      ELSE counter[k] \in {admissionComplete, admissionDisabled}
    BY DEF AdmissionExact, RoomLeft
  <2>1. counter[k] \in -3 .. (BuildThreshold - 1) /\ verified[k] \in 0 .. Earned
    BY DEF ExactInv, SlotInv, TypeOK, SharedTypeOK, admissionComplete
  <2>2. Sightings(k) = {}
    BY DEF Quiescent, Sightings, AdmitLabels
  <2>3. counter[k] # -1
    BY DEF Quiescent, ExactInv, CreditInv, BudgetInv, AdmissionInv, SingleBuilder, BuilderMarked, IsBuilder,
       BuildLabels, ReserveLabels, admissionBuilding
  <2>4. counter[k] >= 0 => verified[k] <= counter[k]
    BY <2>1, <2>2, Empty DEF ExactInv, NoneLost
  <2>5. IF counter[k] >= 0 THEN verified[k] = Earned \/ verified[k] >= counter[k]
        ELSE verified[k] >= BuildThreshold
    BY <2>1, <2>2, Empty DEF ExactInv, CreditInv, SightingsEarned, Reached
  <2> QED
    BY <2>1, <2>3, <2>4, <2>5, Thresholds DEF admissionComplete, admissionDisabled
<1> QED
  BY <1>1, ExactInvariant, PTL
=============================================================================
