-------------------------- MODULE ProbePoolProofs --------------------------
(***************************************************************************)
(* Proofs about ProbePool, for every sequence of providers, every set of   *)
(* models and every limit.                                                 *)
(***************************************************************************)
EXTENDS ProbePool, FiniteSetTheorems, TLAPS

\* Before the probing nothing has been asked; a goroutine is past "new" only
\* in a run that probes, and has returned in one that has ended.
PhaseInv ==
  /\ phase = "listing" => at <= Len(Order)
  /\ phase # "ended" => outcome = "none"
  /\ phase \in {"discovering", "listing"} => completed = {} /\ confirmed = {}
  /\ \A t \in Targets :
       /\ phase \in {"discovering", "listing"} => pc[t] \in {"absent", "new"}
       /\ phase = "ended" => pc[t] \in {"absent", "new", "done"}

\* Those of S that belong to provider p.
HoldersOf(p, S) == {t \in Holders(S) : t[1] = p}

\* The channels are never over their capacity, nor the day over its budget.
SlotsInv ==
  /\ Cardinality(Holders(InSlot)) <= Concurrency
  /\ \A p \in Providers :
       Cardinality(HoldersOf(p, InProvider)) <= ProviderConcurrency
  /\ DailyLimit > 0 => used <= DailyLimit

\* A goroutine that returns leaves a completed result, or has stopped the run;
\* so the run that returns no error has one for every goroutine.
ResultInv ==
  /\ confirmed \subseteq completed
  /\ ~Stopped => \A t \in Targets : pc[t] = "done" => t \in completed
  /\ outcome = "ok" => \A t \in Targets : pc[t] # "absent" => t \in completed

\* The goroutine that keeps the first refusal holds a slot: those that have
\* passed the test by then, sent or not, are fewer than the slots.
LateInv ==
  IF runErr THEN late + Cardinality(Holders({"checked"})) < Concurrency
            ELSE late = 0

PoolInv == TypeOK /\ PhaseInv /\ SlotsInv /\ ResultInv /\ LateInv

-----------------------------------------------------------------------------
(***************************************************************************)
(* The sets of goroutines                                                  *)
(***************************************************************************)
\* A run has finitely many targets.
LEMMA TargetsFinite == IsFiniteSet(Targets)
<1>1. IsFiniteSet(1..Len(Order))
  BY PoolAssumption, FS_Interval
<1>2. Order \in Surjection(1..Len(Order), Providers)
  <2>1. Order \in [1..Len(Order) -> Providers]
    BY PoolAssumption
  <2>2. \A p \in Providers : \E i \in 1..Len(Order) : Order[i] = p
    BY DEF Providers
  <2>3. QED
    BY <2>1, <2>2 DEF Surjection
<1>3. IsFiniteSet(Providers)
  BY <1>1, <1>2, FS_Surjection
<1>4. QED
  BY <1>3, PoolAssumption, FS_Product DEF Targets

\* The goroutines in any set of places, of all providers or of one, are
\* finitely many.
LEMMA HoldersFinite ==
  /\ \A S : IsFiniteSet(Holders(S)) /\ Cardinality(Holders(S)) \in Nat
  /\ \A p, S : /\ IsFiniteSet(HoldersOf(p, S))
               /\ Cardinality(HoldersOf(p, S)) \in Nat
<1>1. ASSUME NEW A \in SUBSET Targets
      PROVE  IsFiniteSet(A) /\ Cardinality(A) \in Nat
  BY <1>1, TargetsFinite, FS_Subset, FS_CardinalityType
<1>2. /\ \A S : Holders(S) \in SUBSET Targets
      /\ \A p, S : HoldersOf(p, S) \in SUBSET Targets
  BY DEF Holders, HoldersOf
<1>3. QED
  BY <1>1, <1>2

\* A part of a finite set keeps its bound.
LEMMA PartBounded ==
  ASSUME NEW B, IsFiniteSet(B), NEW A \in SUBSET B,
         NEW n \in Nat, Cardinality(B) <= n
  PROVE  IsFiniteSet(A) /\ Cardinality(A) <= n
<1>1. IsFiniteSet(A) /\ Cardinality(A) <= Cardinality(B)
  BY FS_Subset
<1>2. Cardinality(A) \in Nat /\ Cardinality(B) \in Nat
  BY <1>1, FS_CardinalityType
<1>3. QED
  BY <1>1, <1>2

\* One element more keeps the bound of a set that was below it.
LEMMA OneMoreBounded ==
  ASSUME NEW B, IsFiniteSet(B), NEW x,
         NEW n \in Nat, Cardinality(B) < n
  PROVE  Cardinality(B \union {x}) <= n
<1>1. Cardinality(B) \in Nat
  BY FS_CardinalityType
<1>2. Cardinality(B \union {x})
        = IF x \in B THEN Cardinality(B) ELSE Cardinality(B) + 1
  BY FS_AddElement
<1>3. QED
  BY <1>1, <1>2

\* A part of a finite set that lacks one element is below the bound.
LEMMA OneLessBounded ==
  ASSUME NEW B, IsFiniteSet(B), NEW x \in B, NEW A \in SUBSET (B \ {x}),
         NEW n \in Nat, Cardinality(B) <= n
  PROVE  Cardinality(A) < n
<1>1. IsFiniteSet(B \ {x}) /\ Cardinality(B \ {x}) = Cardinality(B) - 1
  BY FS_RemoveElement
<1>2. IsFiniteSet(A) /\ Cardinality(A) <= Cardinality(B \ {x})
  BY <1>1, FS_Subset
<1>3. Cardinality(A) \in Nat /\ Cardinality(B) \in Nat
  BY <1>2, FS_CardinalityType
<1>4. QED
  BY <1>1, <1>2, <1>3
-----------------------------------------------------------------------------
(***************************************************************************)
(* The invariant is inductive                                              *)
(***************************************************************************)
LEMMA InitPool == Init => PoolInv
<1> SUFFICES ASSUME Init PROVE PoolInv
  OBVIOUS
<1>1. Len(Order) \in Nat
  BY PoolAssumption
<1>2. TypeOK
  <2>1. at \in 1..Len(Order) + 1
    BY <1>1 DEF Init
  <2>2. pc \in [Targets -> {"absent", "new", "done"} \union InProvider]
    BY DEF Init
  <2>3. QED
    BY <2>1, <2>2 DEF Init, TypeOK
<1>3. PhaseInv
  BY DEF Init, PhaseInv
<1>4. SlotsInv
  <2>1. Holders(InSlot) = {} /\ \A p : HoldersOf(p, InProvider) = {}
    BY DEF Init, Holders, HoldersOf, InProvider, InSlot
  <2>2. 0 <= Concurrency /\ 0 <= ProviderConcurrency /\ 0 <= DailyLimit
    BY PoolAssumption
  <2>3. QED
    BY <2>1, <2>2, FS_EmptySet DEF Init, SlotsInv
<1>5. ResultInv
  BY DEF Init, ResultInv
<1>6. LateInv
  BY DEF Init, LateInv
<1>7. QED
  BY <1>2, <1>3, <1>4, <1>5, <1>6 DEF PoolInv

LEMMA TypeStep == TypeOK /\ PhaseInv /\ [Next]_vars => TypeOK'
<1> SUFFICES ASSUME TypeOK, PhaseInv, [Next]_vars PROVE TypeOK'
  OBVIOUS
<1>1. Len(Order) \in Nat
  BY PoolAssumption
<1> USE <1>1 DEF TypeOK
<1>2. CASE BeginListing
  BY <1>2 DEF BeginListing, Reserve
<1>3. CASE RefuseListing
  BY <1>3 DEF RefuseListing
<1>4. CASE NextPage
  BY <1>4 DEF NextPage, Reserve
<1>5. CASE ListingFails
  <2>1. runErr' \in BOOLEAN
    BY <1>5, Zenon DEF ListingFails
  <2>2. QED
    BY <1>5, <2>1 DEF ListingFails, PhaseInv
<1>6. CASE CatalogFails
  BY <1>6 DEF CatalogFails
<1>7. CASE Collected
  BY <1>7 DEF Collected
<1>8. CASE EndRun
  BY <1>8 DEF EndRun, Outcome
<1>9. CASE Cancel
  BY <1>9 DEF Cancel
<1>10. CASE NextRun
  <2>1. at' \in 1..Len(Order) + 1
    BY <1>10 DEF NextRun
  <2>2. pc' \in [Targets -> {"absent", "new", "done"} \union InProvider]
    BY <1>10 DEF NextRun
  <2>3. QED
    BY <1>10, <2>1, <2>2 DEF NextRun
<1>11. CASE OtherRequest
  BY <1>11 DEF OtherRequest, Reserve
<1>12. CASE NewDay
  BY <1>12 DEF NewDay
<1>13. ASSUME NEW selected \in SUBSET Models, Listed(selected)
      PROVE  TypeOK'
  BY <1>13 DEF Listed, PhaseInv
<1>14. ASSUME NEW t \in Targets, TakeProviderSlot(t) PROVE TypeOK'
  BY <1>14 DEF TakeProviderSlot, InProvider, InSlot
<1>15. ASSUME NEW t \in Targets, TakeSlot(t) PROVE TypeOK'
  BY <1>15 DEF TakeSlot, InProvider, InSlot
<1>16. ASSUME NEW t \in Targets, GiveUp(t) PROVE TypeOK'
  BY <1>16 DEF GiveUp, InProvider, InSlot
<1>17. ASSUME NEW t \in Targets, BeforeRequest(t) PROVE TypeOK'
  BY <1>17 DEF BeforeRequest, InProvider, InSlot
<1>18. ASSUME NEW t \in Targets, Guard(t) PROVE TypeOK'
  BY <1>18 DEF Guard, Reserve, InProvider, InSlot
<1>19. ASSUME NEW t \in Targets, GuardFails(t) PROVE TypeOK'
  BY <1>19 DEF GuardFails, InProvider, InSlot
<1>20. ASSUME NEW t \in Targets, Fail(t) PROVE TypeOK'
  BY <1>20 DEF Fail, InProvider, InSlot
<1>21. ASSUME NEW t \in Targets, Answer(t) PROVE TypeOK'
  BY <1>21 DEF Answer, InProvider, InSlot
<1>22. CASE UNCHANGED vars
  BY <1>22 DEF vars
<1>23. QED
  BY <1>2, <1>3, <1>4, <1>5, <1>6, <1>7, <1>8, <1>9, <1>10, <1>11, <1>12,
     <1>13, <1>14, <1>15, <1>16, <1>17, <1>18, <1>19, <1>20, <1>21, <1>22
     DEF Next, Discover, Goroutine

LEMMA PhaseStep == TypeOK /\ PhaseInv /\ [Next]_vars => PhaseInv'
<1> SUFFICES ASSUME TypeOK, PhaseInv, [Next]_vars PROVE PhaseInv'
  OBVIOUS
<1> USE DEF TypeOK, PhaseInv
<1>1. CASE BeginListing
  BY <1>1 DEF BeginListing
<1>2. CASE RefuseListing
  BY <1>2 DEF RefuseListing
<1>3. CASE NextPage
  BY <1>3 DEF NextPage
<1>4. CASE ListingFails
  BY <1>4 DEF ListingFails
<1>5. CASE CatalogFails
  BY <1>5 DEF CatalogFails
<1>6. CASE Collected
  BY <1>6 DEF Collected, Holders
<1>7. CASE EndRun
  BY <1>7 DEF EndRun
<1>8. CASE Cancel
  BY <1>8 DEF Cancel
<1>9. CASE NextRun
  BY <1>9 DEF NextRun
<1>10. CASE OtherRequest
  BY <1>10 DEF OtherRequest
<1>11. CASE NewDay
  BY <1>11 DEF NewDay
<1>12. ASSUME NEW selected \in SUBSET Models, Listed(selected)
      PROVE  PhaseInv'
  BY <1>12 DEF Listed
<1>13. ASSUME NEW t \in Targets, TakeProviderSlot(t) PROVE PhaseInv'
  BY <1>13 DEF TakeProviderSlot
<1>14. ASSUME NEW t \in Targets, TakeSlot(t) PROVE PhaseInv'
  BY <1>14 DEF TakeSlot
<1>15. ASSUME NEW t \in Targets, GiveUp(t) PROVE PhaseInv'
  BY <1>15 DEF GiveUp
<1>16. ASSUME NEW t \in Targets, BeforeRequest(t) PROVE PhaseInv'
  BY <1>16 DEF BeforeRequest
<1>17. ASSUME NEW t \in Targets, Guard(t) PROVE PhaseInv'
  BY <1>17 DEF Guard
<1>18. ASSUME NEW t \in Targets, GuardFails(t) PROVE PhaseInv'
  BY <1>18 DEF GuardFails
<1>19. ASSUME NEW t \in Targets, Fail(t) PROVE PhaseInv'
  BY <1>19 DEF Fail
<1>20. ASSUME NEW t \in Targets, Answer(t) PROVE PhaseInv'
  BY <1>20 DEF Answer
<1>21. CASE UNCHANGED vars
  BY <1>21 DEF vars
<1>22. QED
  BY <1>1, <1>2, <1>3, <1>4, <1>5, <1>6, <1>7, <1>8, <1>9, <1>10, <1>11,
     <1>12, <1>13, <1>14, <1>15, <1>16, <1>17, <1>18, <1>19, <1>20, <1>21
     DEF Next, Discover, Goroutine

\* The slots taken keep their bounds in a step that takes none.
LEMMA NoSlotTaken ==
  ASSUME TypeOK, SlotsInv,
         \A t \in Targets : /\ pc'[t] \in InSlot => pc[t] \in InSlot
                            /\ pc'[t] \in InProvider => pc[t] \in InProvider
  PROVE  /\ Cardinality(Holders(InSlot)') <= Concurrency
         /\ \A p \in Providers :
              Cardinality(HoldersOf(p, InProvider)') <= ProviderConcurrency
<1>1. Holders(InSlot)' \in SUBSET Holders(InSlot)
  BY DEF Holders, InSlot
<1>2. ASSUME NEW p \in Providers
      PROVE  HoldersOf(p, InProvider)' \in SUBSET HoldersOf(p, InProvider)
  BY DEF HoldersOf, Holders, InProvider, InSlot
<1>3. Cardinality(Holders(InSlot)') <= Concurrency
  BY <1>1, HoldersFinite, PartBounded, PoolAssumption DEF SlotsInv
<1>4. ASSUME NEW p \in Providers
      PROVE  Cardinality(HoldersOf(p, InProvider)') <= ProviderConcurrency
  BY <1>2, HoldersFinite, PartBounded, PoolAssumption DEF SlotsInv
<1>5. QED
  BY <1>3, <1>4

\* A reservation keeps the day within its budget.
LEMMA ReserveKeepsBudget ==
  ASSUME TypeOK, SlotsInv, Reserve
  PROVE  DailyLimit > 0 => used' <= DailyLimit
  BY PoolAssumption DEF TypeOK, SlotsInv, Reserve, WithinBudget

LEMMA SlotsStep == TypeOK /\ PhaseInv /\ SlotsInv /\ [Next]_vars => SlotsInv'
<1> SUFFICES ASSUME TypeOK, PhaseInv, SlotsInv, [Next]_vars PROVE SlotsInv'
  OBVIOUS
<1> DEFINE NoneTaken ==
      \A t \in Targets : /\ pc'[t] \in InSlot => pc[t] \in InSlot
                         /\ pc'[t] \in InProvider => pc[t] \in InProvider
           InBudget == DailyLimit > 0 => used' <= DailyLimit
<1>a. NoneTaken /\ InBudget => SlotsInv'
  BY NoSlotTaken DEF SlotsInv
<1>b. used' = used => InBudget
  BY DEF SlotsInv
<1>c. pc' = pc => NoneTaken
  OBVIOUS
<1>d. Reserve => InBudget
  BY ReserveKeepsBudget
<1> HIDE DEF InBudget
<1>1. CASE BeginListing
  BY <1>1, <1>a, <1>b, <1>c, <1>d DEF BeginListing
<1>2. CASE RefuseListing
  BY <1>2, <1>a, <1>b, <1>c, <1>d DEF RefuseListing
<1>3. CASE NextPage
  BY <1>3, <1>a, <1>b, <1>c, <1>d DEF NextPage
<1>4. CASE ListingFails
  BY <1>4, <1>a, <1>b, <1>c, <1>d DEF ListingFails
<1>5. CASE CatalogFails
  BY <1>5, <1>a, <1>b, <1>c, <1>d DEF CatalogFails
<1>6. CASE Collected
  BY <1>6, <1>a, <1>b, <1>c, <1>d DEF Collected
<1>7. CASE EndRun
  BY <1>7, <1>a, <1>b, <1>c, <1>d DEF EndRun
<1>8. CASE Cancel
  BY <1>8, <1>a, <1>b, <1>c, <1>d DEF Cancel
<1>9. CASE NextRun
  <2>1. NoneTaken
    BY <1>9 DEF NextRun, InProvider, InSlot
  <2>2. QED
    BY <1>9, <1>a, <1>b, <2>1 DEF NextRun
<1>10. CASE OtherRequest
  BY <1>10, <1>a, <1>b, <1>c, <1>d DEF OtherRequest
<1>11. CASE NewDay
  <2>1. InBudget
    BY <1>11, PoolAssumption DEF NewDay, InBudget
  <2>2. QED
    BY <1>11, <1>a, <1>c, <2>1 DEF NewDay
<1>12. ASSUME NEW selected \in SUBSET Models, Listed(selected)
      PROVE  SlotsInv'
  <2>1. NoneTaken
    BY <1>12 DEF Listed, InProvider, InSlot, TypeOK
  <2>2. QED
    BY <1>12, <1>a, <1>b, <2>1 DEF Listed
<1>13. ASSUME NEW t \in Targets, TakeProviderSlot(t) PROVE SlotsInv'
  <2>1. /\ pc[t] = "new"
        /\ pc' = [pc EXCEPT ![t] = "waiting"]
        /\ Cardinality(HoldersOf(t[1], InProvider)) < ProviderConcurrency
        /\ used' = used
    BY <1>13 DEF TakeProviderSlot, HoldersOf
  <2>2. Holders(InSlot)' = Holders(InSlot)
    BY <2>1 DEF Holders, InSlot, TypeOK
  <2>3. ASSUME NEW p \in Providers
        PROVE  Cardinality(HoldersOf(p, InProvider)') <= ProviderConcurrency
    <3>1. CASE p = t[1]
      <4>1. HoldersOf(p, InProvider)' = HoldersOf(p, InProvider) \union {t}
        BY <2>1, <3>1 DEF HoldersOf, Holders, InProvider, InSlot, TypeOK
      <4>2. QED
        BY <2>1, <3>1, <4>1, HoldersFinite, OneMoreBounded, PoolAssumption
    <3>2. CASE p # t[1]
      <4>1. HoldersOf(p, InProvider)' = HoldersOf(p, InProvider)
        BY <2>1, <3>2 DEF HoldersOf, Holders, InProvider, InSlot, TypeOK
      <4>2. QED
        BY <4>1 DEF SlotsInv
    <3>3. QED
      BY <3>1, <3>2
  <2>4. QED
    BY <2>1, <2>2, <2>3 DEF SlotsInv
<1>14. ASSUME NEW t \in Targets, TakeSlot(t) PROVE SlotsInv'
  <2>1. /\ pc[t] = "waiting"
        /\ pc' = [pc EXCEPT ![t] = "slot"]
        /\ Cardinality(Holders(InSlot)) < Concurrency
        /\ used' = used
    BY <1>14 DEF TakeSlot, SlotFree
  <2>2. Holders(InSlot)' = Holders(InSlot) \union {t}
    BY <2>1 DEF Holders, InSlot, TypeOK
  <2>3. Cardinality(Holders(InSlot)') <= Concurrency
    BY <2>1, <2>2, HoldersFinite, OneMoreBounded, PoolAssumption
  <2>4. ASSUME NEW p \in Providers
        PROVE  HoldersOf(p, InProvider)' = HoldersOf(p, InProvider)
    BY <2>1 DEF HoldersOf, Holders, InProvider, InSlot, TypeOK
  <2>5. QED
    BY <2>1, <2>3, <2>4 DEF SlotsInv
<1>15. ASSUME NEW t \in Targets, GiveUp(t) PROVE SlotsInv'
  <2>1. NoneTaken
    BY <1>15 DEF GiveUp, InProvider, InSlot, TypeOK
  <2>2. QED
    BY <1>15, <1>a, <1>b, <2>1 DEF GiveUp
<1>16. ASSUME NEW t \in Targets, BeforeRequest(t) PROVE SlotsInv'
  <2>1. NoneTaken
    BY <1>16 DEF BeforeRequest, InProvider, InSlot, TypeOK
  <2>2. QED
    BY <1>16, <1>a, <1>b, <2>1 DEF BeforeRequest
<1>17. ASSUME NEW t \in Targets, Guard(t) PROVE SlotsInv'
  <2>1. NoneTaken
    BY <1>17 DEF Guard, InProvider, InSlot, TypeOK
  <2>2. QED
    BY <1>17, <1>a, <1>d, <2>1 DEF Guard
<1>18. ASSUME NEW t \in Targets, GuardFails(t) PROVE SlotsInv'
  <2>1. NoneTaken
    BY <1>18 DEF GuardFails, InProvider, InSlot, TypeOK
  <2>2. QED
    BY <1>18, <1>a, <1>b, <2>1 DEF GuardFails
<1>19. ASSUME NEW t \in Targets, Fail(t) PROVE SlotsInv'
  <2>1. NoneTaken
    BY <1>19 DEF Fail, InProvider, InSlot, TypeOK
  <2>2. QED
    BY <1>19, <1>a, <1>b, <2>1 DEF Fail
<1>20. ASSUME NEW t \in Targets, Answer(t) PROVE SlotsInv'
  <2>1. NoneTaken
    BY <1>20 DEF Answer, InProvider, InSlot, TypeOK
  <2>2. QED
    BY <1>20, <1>a, <1>b, <2>1 DEF Answer
<1>21. CASE UNCHANGED vars
  BY <1>21, <1>a, <1>b, <1>c DEF vars
<1>22. QED
  BY <1>1, <1>2, <1>3, <1>4, <1>5, <1>6, <1>7, <1>8, <1>9, <1>10, <1>11,
     <1>12, <1>13, <1>14, <1>15, <1>16, <1>17, <1>18, <1>19, <1>20, <1>21
     DEF Next, Discover, Goroutine

LEMMA ResultStep == PoolInv /\ [Next]_vars => ResultInv'
<1> SUFFICES ASSUME TypeOK, PhaseInv, ResultInv, [Next]_vars PROVE ResultInv'
  BY DEF PoolInv
<1> USE DEF TypeOK, PhaseInv, ResultInv, Stopped
<1>1. CASE BeginListing
  BY <1>1 DEF BeginListing
<1>2. CASE RefuseListing
  BY <1>2 DEF RefuseListing
<1>3. CASE NextPage
  BY <1>3 DEF NextPage
<1>4. CASE ListingFails
  BY <1>4 DEF ListingFails
<1>5. CASE CatalogFails
  BY <1>5 DEF CatalogFails
<1>6. CASE Collected
  BY <1>6 DEF Collected, Holders
<1>7. CASE EndRun
  BY <1>7 DEF EndRun, Outcome
<1>8. CASE Cancel
  BY <1>8 DEF Cancel
<1>9. CASE NextRun
  BY <1>9 DEF NextRun
<1>10. CASE OtherRequest
  BY <1>10 DEF OtherRequest
<1>11. CASE NewDay
  BY <1>11 DEF NewDay
<1>12. ASSUME NEW selected \in SUBSET Models, Listed(selected)
      PROVE  ResultInv'
  BY <1>12 DEF Listed
<1>13. ASSUME NEW t \in Targets, TakeProviderSlot(t) PROVE ResultInv'
  BY <1>13 DEF TakeProviderSlot
<1>14. ASSUME NEW t \in Targets, TakeSlot(t) PROVE ResultInv'
  BY <1>14 DEF TakeSlot
<1>15. ASSUME NEW t \in Targets, GiveUp(t) PROVE ResultInv'
  BY <1>15 DEF GiveUp
<1>16. ASSUME NEW t \in Targets, BeforeRequest(t) PROVE ResultInv'
  BY <1>16 DEF BeforeRequest
<1>17. ASSUME NEW t \in Targets, Guard(t) PROVE ResultInv'
  BY <1>17 DEF Guard
<1>18. ASSUME NEW t \in Targets, GuardFails(t) PROVE ResultInv'
  BY <1>18 DEF GuardFails
<1>19. ASSUME NEW t \in Targets, Fail(t) PROVE ResultInv'
  BY <1>19 DEF Fail
<1>20. ASSUME NEW t \in Targets, Answer(t) PROVE ResultInv'
  BY <1>20 DEF Answer, Counts
<1>21. CASE UNCHANGED vars
  BY <1>21 DEF vars
<1>22. QED
  BY <1>1, <1>2, <1>3, <1>4, <1>5, <1>6, <1>7, <1>8, <1>9, <1>10, <1>11,
     <1>12, <1>13, <1>14, <1>15, <1>16, <1>17, <1>18, <1>19, <1>20, <1>21
     DEF Next, Discover, Goroutine

\* The count of late requests keeps its bound in a step that sends none and
\* lets no goroutine pass the test of runErr.
LEMMA NoneMorePasses ==
  ASSUME LateInv, runErr' = runErr, late' = late, late \in Nat,
         runErr => Holders({"checked"})' \subseteq Holders({"checked"})
  PROVE  LateInv'
<1>1. CASE ~runErr
  BY <1>1 DEF LateInv
<1>2. CASE runErr
  <2> DEFINE C == Cardinality(Holders({"checked"}))
             D == Cardinality(Holders({"checked"})')
  <2>1. /\ IsFiniteSet(Holders({"checked"}))
        /\ C \in Nat
    BY HoldersFinite
  <2>2. IsFiniteSet(Holders({"checked"})') /\ D <= C
    BY <1>2, <2>1, PartBounded
  <2>3. D \in Nat
    BY <2>2, FS_CardinalityType
  <2>4. late + C < Concurrency
    BY <1>2 DEF LateInv
  <2> HIDE DEF C, D
  <2>5. late + D < Concurrency
    BY <2>1, <2>2, <2>3, <2>4, PoolAssumption
  <2>6. QED
    BY <1>2, <2>5 DEF LateInv, D
<1>3. QED
  BY <1>1, <1>2

\* A refusal that is kept while nothing has been asked.
LEMMA RefusedBeforeProbing ==
  ASSUME TypeOK, LateInv, PhaseInv, phase \in {"discovering", "listing"},
         pc' = pc, late' = late, runErr' \in BOOLEAN, runErr => runErr'
  PROVE  LateInv'
<1>1. CASE runErr' = runErr
  BY <1>1, NoneMorePasses DEF TypeOK, Holders
<1>2. CASE ~runErr /\ runErr'
  <2>1. Holders({"checked"})' = {}
    BY DEF PhaseInv, Holders
  <2>2. Cardinality(Holders({"checked"})') = 0
    BY <2>1, FS_EmptySet
  <2>3. late' = 0
    BY <1>2 DEF LateInv
  <2>4. late' + Cardinality(Holders({"checked"})') < Concurrency
    BY <2>2, <2>3, PoolAssumption
  <2>5. QED
    BY <1>2, <2>4 DEF LateInv
<1>3. QED
  BY <1>1, <1>2 DEF TypeOK

LEMMA LateStep == PoolInv /\ [Next]_vars => LateInv'
<1> SUFFICES ASSUME TypeOK, PhaseInv, SlotsInv, LateInv, [Next]_vars
             PROVE  LateInv'
  BY DEF PoolInv
<1>0. late \in Nat
  BY DEF TypeOK
<1>1. CASE RefuseListing
  BY <1>1, RefusedBeforeProbing DEF RefuseListing, TypeOK
<1>2. CASE ListingFails
  <2>1. runErr \in BOOLEAN /\ runErr' \in BOOLEAN
    BY <1>2, Zenon DEF ListingFails, TypeOK
  <2>2. runErr => runErr'
    BY <1>2, Zenon DEF ListingFails
  <2>3. QED
    BY <1>2, <2>1, <2>2, RefusedBeforeProbing DEF ListingFails
<1>3. CASE CatalogFails
  BY <1>3, RefusedBeforeProbing DEF CatalogFails, TypeOK
<1>4. CASE NextRun
  BY <1>4 DEF NextRun, LateInv
<1>5. CASE BeginListing
  BY <1>0, <1>5, NoneMorePasses DEF BeginListing, Holders
<1>6. CASE NextPage
  BY <1>0, <1>6, NoneMorePasses DEF NextPage, Holders
<1>7. CASE Collected
  BY <1>0, <1>7, NoneMorePasses DEF Collected, Holders
<1>8. CASE EndRun
  BY <1>0, <1>8, NoneMorePasses DEF EndRun, Holders
<1>9. CASE Cancel
  BY <1>0, <1>9, NoneMorePasses DEF Cancel, Holders
<1>10. CASE OtherRequest
  BY <1>0, <1>10, NoneMorePasses DEF OtherRequest, Holders
<1>11. CASE NewDay
  BY <1>0, <1>11, NoneMorePasses DEF NewDay, Holders
<1>12. ASSUME NEW selected \in SUBSET Models, Listed(selected)
      PROVE  LateInv'
  BY <1>0, <1>12, NoneMorePasses DEF Listed, Holders, TypeOK
<1>13. ASSUME NEW t \in Targets, TakeProviderSlot(t) PROVE LateInv'
  BY <1>0, <1>13, NoneMorePasses DEF TakeProviderSlot, Holders, TypeOK
<1>14. ASSUME NEW t \in Targets, TakeSlot(t) PROVE LateInv'
  BY <1>0, <1>14, NoneMorePasses DEF TakeSlot, Holders, TypeOK
<1>15. ASSUME NEW t \in Targets, GiveUp(t) PROVE LateInv'
  BY <1>0, <1>15, NoneMorePasses DEF GiveUp, Holders, TypeOK
<1>16. ASSUME NEW t \in Targets, BeforeRequest(t) PROVE LateInv'
  BY <1>0, <1>16, NoneMorePasses DEF BeforeRequest, Holders, TypeOK, Refused,
     Stopped
<1>17. ASSUME NEW t \in Targets, GuardFails(t) PROVE LateInv'
  BY <1>0, <1>17, NoneMorePasses DEF GuardFails, Holders, TypeOK
<1>18. ASSUME NEW t \in Targets, Answer(t) PROVE LateInv'
  BY <1>0, <1>18, NoneMorePasses DEF Answer, Holders, TypeOK
<1>19. ASSUME NEW t \in Targets, Guard(t) PROVE LateInv'
  <2>1. CASE ~runErr
    BY <1>19, <2>1 DEF Guard, LateInv
  <2>2. CASE runErr
    <3> DEFINE C == Cardinality(Holders({"checked"}))
               D == Cardinality(Holders({"checked"})')
    <3>1. IsFiniteSet(Holders({"checked"})) /\ C \in Nat
      BY HoldersFinite
    <3>2. /\ t \in Holders({"checked"})
          /\ Holders({"checked"})' = Holders({"checked"}) \ {t}
      BY <1>19 DEF Guard, Holders, TypeOK
    <3>3. D = C - 1
      BY <3>1, <3>2, FS_RemoveElement
    <3>4. late + C < Concurrency
      BY <2>2 DEF LateInv
    <3>5. late' = late + 1 /\ runErr'
      BY <1>19, <2>2 DEF Guard
    <3> HIDE DEF C, D
    <3>6. late' + D < Concurrency
      BY <1>0, <3>1, <3>3, <3>4, <3>5, PoolAssumption
    <3>7. QED
      BY <3>5, <3>6 DEF LateInv, D
  <2>3. QED
    BY <2>1, <2>2
<1>20. ASSUME NEW t \in Targets, Fail(t) PROVE LateInv'
  <2>1. Holders({"checked"})' = Holders({"checked"})
    BY <1>20 DEF Fail, Holders, TypeOK
  <2>2. CASE runErr
    BY <1>0, <1>20, <2>1, <2>2, NoneMorePasses DEF Fail
  <2>3. CASE ~runErr
    <3>1. /\ t \in Holders(InSlot)
          /\ Holders({"checked"}) \subseteq Holders(InSlot) \ {t}
      BY <1>20 DEF Fail, Holders, InSlot
    <3>2. Cardinality(Holders({"checked"})) < Concurrency
      BY <3>1, HoldersFinite, OneLessBounded, PoolAssumption DEF SlotsInv
    <3>3. late' = 0 /\ runErr'
      BY <1>20, <2>3 DEF Fail, LateInv
    <3>4. Cardinality(Holders({"checked"})') \in Nat
      BY <2>1, HoldersFinite
    <3>5. late' + Cardinality(Holders({"checked"})') < Concurrency
      BY <2>1, <3>2, <3>3, <3>4
    <3>6. QED
      BY <3>3, <3>5 DEF LateInv
  <2>4. QED
    BY <2>2, <2>3
<1>21. CASE UNCHANGED vars
  BY <1>0, <1>21, NoneMorePasses DEF vars, Holders
<1>22. QED
  BY <1>1, <1>2, <1>3, <1>4, <1>5, <1>6, <1>7, <1>8, <1>9, <1>10, <1>11,
     <1>12, <1>13, <1>14, <1>15, <1>16, <1>17, <1>18, <1>19, <1>20, <1>21
     DEF Next, Discover, Goroutine

-----------------------------------------------------------------------------
(***************************************************************************)
(* Theorems                                                                *)
(***************************************************************************)
\* The invariant of the pool holds in every state of every run: the phases,
\* the slots, the results and the late requests are each as described above.
THEOREM PoolIsConsistent == Spec => []PoolInv
<1>1. PoolInv /\ [Next]_vars => PoolInv'
  BY TypeStep, PhaseStep, SlotsStep, ResultStep, LateStep DEF PoolInv
<1>2. QED
  BY InitPool, <1>1, PTL DEF Spec

\* Every variable of probe.Runner keeps its type: the index stays within the
\* providers, and no goroutine is in a place the code does not have.
THEOREM TypeCorrect == Spec => []TypeOK
<1>1. PoolInv => TypeOK
  BY DEF PoolInv
<1>2. QED
  BY <1>1, PoolIsConsistent, PTL

\* The requests in flight keep the limit of the run and that of each provider,
\* and ReserveRequest keeps the day within its budget.
THEOREM LimitsAlwaysKept == Spec => []LimitsKept
<1>1. PoolInv => LimitsKept
  <2> SUFFICES ASSUME SlotsInv PROVE LimitsKept
    BY DEF PoolInv
  <2>1. Holders({"chat"}) \in SUBSET Holders(InSlot)
    BY DEF Holders, InSlot
  <2>2. Cardinality(Holders({"chat"})) <= Concurrency
    BY <2>1, HoldersFinite, PartBounded, PoolAssumption DEF SlotsInv
  <2>3. ASSUME NEW p \in Providers
        PROVE  Cardinality({t \in Holders({"chat"}) : t[1] = p})
                 <= ProviderConcurrency
    <3>1. {t \in Holders({"chat"}) : t[1] = p}
            \in SUBSET HoldersOf(p, InProvider)
      BY DEF HoldersOf, Holders, InProvider, InSlot
    <3>2. QED
      BY <3>1, HoldersFinite, PartBounded, PoolAssumption DEF SlotsInv
  <2>4. QED
    BY <2>2, <2>3 DEF SlotsInv, LimitsKept
<1>2. QED
  BY <1>1, PoolIsConsistent, PTL

\* A run that returns no error has a completed result for every selected
\* model: a refusal or a cancellation is never taken for a finished run.
THEOREM SuccessIsAlwaysComplete == Spec => []SuccessIsComplete
<1>1. PoolInv => SuccessIsComplete
  BY DEF PoolInv, ResultInv, SuccessIsComplete
<1>2. QED
  BY <1>1, PoolIsConsistent, PTL

\* Every answer that is a success or reports usage is a completed result, so
\* its usage is booked whatever stops the run.
THEOREM ConfirmedAreAlwaysKept == Spec => []ConfirmedAreKept
<1>1. PoolInv => ConfirmedAreKept
  BY DEF PoolInv, ResultInv, ConfirmedAreKept
<1>2. QED
  BY <1>1, PoolIsConsistent, PTL

\* After a refusal is kept in runErr, fewer requests than there are slots are
\* still sent.
THEOREM LateRequestsAreBounded == Spec => []LateRequestsBounded
<1>1. PoolInv => LateRequestsBounded
  <2> SUFFICES ASSUME TypeOK, LateInv PROVE late < Concurrency
    BY DEF PoolInv, LateRequestsBounded
  <2>1. late \in Nat /\ Cardinality(Holders({"checked"})) \in Nat
    BY HoldersFinite DEF TypeOK
  <2>2. QED
    BY <2>1, PoolAssumption DEF LateInv
<1>2. QED
  BY <1>1, PoolIsConsistent, PTL
=============================================================================
