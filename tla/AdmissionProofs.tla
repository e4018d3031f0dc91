-------------------------- MODULE AdmissionProofs --------------------------
(****************************************************************************)
(* Devices are shared by agreement only, and what was promised fits, for    *)
(* every set of jobs and devices: the proof of the inductive invariant      *)
(* AdmissionInv, and of the sums of declared memory it bounds.              *)
(****************************************************************************)
EXTENDS Admission, SumProofs

\* The next step, one action per disjunct.
LEMMA NextCases ==
  ASSUME Next
  PROVE  \/ \E j \in Job : Submit(j)
         \/ \E j \in Job : Start(j)
         \/ \E j \in Job : Grow(j)
         \/ \E j \in Job : Exit(j)
         \/ \E j \in Job : Reap(j)
         \/ Probe \/ Restart \/ Claim \/ ForeignChanges
  BY DEF Next

\* A device of an allocation is empty, or all its occupants and the newcomer
\* asked to share (_allocate_devices).
LEMMA AllocationsShare ==
  ASSUME NEW j \in Job, NEW D \in Allocations(j), NEW d \in D
  PROVE  /\ d \in Device
         /\ \A i \in Occupants(d) : Ask[i].shared /\ Ask[j].shared
<1>1. d \in Device /\ Candidate(j, d)
  BY DEF Allocations
<1>2. \A i \in Occupants(d) : MayJoin(j, d)
  BY <1>1 DEF Candidate
<1> QED BY <1>1, <1>2 DEF MayJoin, WantsShare

\* An allocation is a set of devices.
LEMMA AllocationsAreDevices ==
  ASSUME NEW j \in Job, NEW D \in Allocations(j)
  PROVE  D \subseteq Device /\ Visible(j, D) \subseteq Device
  BY DEF Allocations, Visible

LEMMA InitInv == Init => AdmissionInv
<1> SUFFICES ASSUME Init PROVE AdmissionInv
  OBVIOUS
<1>1. restarts \in 0..MaxRestarts
  BY AdmissionAssumption DEF Init
<1>2. TypeOK
  BY <1>1, AdmissionAssumption DEF Init, TypeOK, Holder
<1> QED BY <1>2 DEF Init, AdmissionInv, Held, Live

\* Steps that neither place nor end a job.
LEMMA IdleSteps ==
  ASSUME AdmissionInv,
         \/ Probe \/ Claim \/ ForeignChanges
         \/ \E j \in Job : Grow(j)
         \/ \E j \in Job : Exit(j)
         \/ UNCHANGED vars
  PROVE  AdmissionInv'
<1>1. UNCHANGED <<holder, dev, visible, owned, restarts>> /\ alive' \subseteq alive
  BY DEF Probe, Claim, ForeignChanges, Grow, Exit, vars
<1>2. grown' \subseteq alive'
  <2>1. ASSUME NEW j \in Job, Exit(j) PROVE grown' \subseteq alive'
    BY <2>1 DEF Exit, AdmissionInv, TypeOK
  <2>2. ASSUME NEW j \in Job, Grow(j) PROVE grown' \subseteq alive'
    BY <2>2 DEF Grow, AdmissionInv, TypeOK
  <2> QED BY <2>1, <2>2 DEF Probe, Claim, ForeignChanges, vars, AdmissionInv, TypeOK
<1>3. foreign' \in Foreign /\ reserve' \in Claims \cup {Base}
  BY DEF Probe, Claim, ForeignChanges, Grow, Exit, vars, AdmissionInv, TypeOK
<1>4. seen' = NoGpu \/ DOMAIN seen' = Device
  BY DEF Probe, Readings, Claim, ForeignChanges, Grow, Exit, vars, AdmissionInv, TypeOK
<1>5. TypeOK'
  BY <1>1, <1>2, <1>3, <1>4 DEF AdmissionInv, TypeOK
<1> QED BY <1>1, <1>5 DEF AdmissionInv, Held, Live

LEMMA SubmitStep ==
  ASSUME AdmissionInv, NEW j \in Job, Submit(j)
  PROVE  AdmissionInv'
<1>1. TypeOK'
  BY DEF Submit, AdmissionInv, TypeOK, Holder
<1>2. \A i \in Job : i \in Held' <=> i \in Held
  BY DEF Submit, AdmissionInv, TypeOK, Held
<1>3. Live' = Live
  BY DEF Submit, AdmissionInv, TypeOK, Live
<1> QED BY <1>1, <1>2, <1>3 DEF Submit, AdmissionInv

LEMMA StartStep ==
  ASSUME AdmissionInv, NEW j \in Job, Start(j)
  PROVE  AdmissionInv'
<1> PICK D \in Allocations(j) :
      /\ dev' = [dev EXCEPT ![j] = D]
      /\ visible' = [visible EXCEPT ![j] = Visible(j, D)]
      /\ owned' = IF Owns(j, D) THEN owned \cup {j} ELSE owned
  BY DEF Start
<1>1. TypeOK'
  BY AllocationsAreDevices DEF Start, AdmissionInv, TypeOK, Holder
<1>2. j \in Held' /\ j \in Live' /\ Held \subseteq Held' /\ Live \subseteq Live'
  BY DEF Start, AdmissionInv, TypeOK, Held, Live
<1>3. \A i \in Job : dev'[i] # {} => i \in Held'
  BY <1>2 DEF AdmissionInv, TypeOK
<1>4. alive' \subseteq Live' /\ owned' \subseteq Live'
  BY <1>2 DEF Start, AdmissionInv
<1>5. \A i \in owned' : ~Ask[i].shared
  BY DEF AdmissionInv, Owns
<1>6. ASSUME NEW i \in Job, i # j, dev[i] \cap D # {}
      PROVE  Ask[i].shared /\ Ask[j].shared
  <2>1. PICK d : d \in dev[i] /\ d \in D
    BY <1>6
  <2>2. i \in Occupants(d)
    BY <2>1 DEF Occupants, AdmissionInv
  <2> QED BY <2>1, <2>2, AllocationsShare
<1>7. \A i, k \in Job : i # k /\ dev'[i] \cap dev'[k] # {} => Ask[i].shared /\ Ask[k].shared
  BY <1>6 DEF AdmissionInv, TypeOK
<1> QED BY <1>1, <1>3, <1>4, <1>5, <1>7 DEF AdmissionInv

\* Once S is forgotten, its members hold no device and no baseline.
LEMMA ForgetEffect ==
  ASSUME AdmissionInv, NEW S, Forget(S)
  PROVE  /\ dev' \in [Job -> SUBSET Device] /\ visible' \in [Job -> SUBSET Device]
         /\ owned' = owned \ S
         /\ \A i \in Job : dev'[i] \subseteq dev[i] /\ (i \in S => dev'[i] = {})
  BY DEF Forget, AdmissionInv, TypeOK

LEMMA ReapStep ==
  ASSUME AdmissionInv, NEW j \in Job, Reap(j)
  PROVE  AdmissionInv'
<1>1. Forget({j})
  BY DEF Reap
<1>2. TypeOK'
  BY <1>1, ForgetEffect DEF Reap, AdmissionInv, TypeOK, Holder
<1>3. \A i \in Job : i # j => (i \in Held' <=> i \in Held) /\ (i \in Live' <=> i \in Live)
  BY DEF Reap, AdmissionInv, TypeOK, Held, Live
<1>4. \A i \in Job : dev'[i] # {} => i \in Held'
  BY <1>1, <1>3, ForgetEffect DEF AdmissionInv
<1>5. alive' \subseteq Live' /\ owned' \subseteq Live'
  BY <1>1, <1>3, ForgetEffect DEF Reap, AdmissionInv, TypeOK
<1>6. \A i, k \in Job : i # k /\ dev'[i] \cap dev'[k] # {} => Ask[i].shared /\ Ask[k].shared
  BY <1>1, ForgetEffect DEF AdmissionInv
<1> QED BY <1>1, <1>2, <1>4, <1>5, <1>6, ForgetEffect DEF AdmissionInv

LEMMA RestartStep ==
  ASSUME AdmissionInv, Restart
  PROVE  AdmissionInv'
<1>1. restarts' \in 0..MaxRestarts
  BY AdmissionAssumption DEF Restart, AdmissionInv, TypeOK
<1>2. DOMAIN seen' = Device
  BY DEF Restart
<1>3. TypeOK'
  BY <1>1, <1>2 DEF Restart, AdmissionInv, TypeOK, Holder, Live
<1>4. alive' \subseteq Live'
  BY DEF Restart, AdmissionInv, TypeOK, Live
<1>5. owned' \subseteq owned /\ owned' \subseteq Live'
  BY <1>4 DEF Restart
<1> QED BY <1>3, <1>4, <1>5 DEF Restart, AdmissionInv

----------------------------------------------------------------------------

\* Devices, baselines and agreements stay consistent over every start, end and
\* restart (Dispatcher._allocate_devices, _vram_baseline, _recover_orphans).
THEOREM DevicesAccounted == Spec => []AdmissionInv
<1>1. AdmissionInv /\ [Next]_vars => AdmissionInv'
  <2> SUFFICES ASSUME AdmissionInv, [Next]_vars PROVE AdmissionInv'
    OBVIOUS
  <2>1. CASE UNCHANGED vars
    BY <2>1, IdleSteps
  <2>2. CASE Next
    BY <2>2, NextCases, IdleSteps, SubmitStep, StartStep, ReapStep, RestartStep
  <2> QED BY <2>1, <2>2
<1> QED BY <1>1, InitInv, PTL DEF Spec

\* "A device already running a job is off limits unless both that job and this
\* one asked to share it" (_allocate_devices), for every number of devices.
THEOREM OffLimitsUnlessShared == Spec => []ExclusiveAlone
<1>1. AdmissionInv => ExclusiveAlone
  BY DEF AdmissionInv, ExclusiveAlone, Held
<1> QED BY <1>1, DevicesAccounted, PTL

\* While a job that this dispatcher holds is measured as the rise of its card
\* since a baseline, no other job that it holds is on that card
\* (Dispatcher._vram_baseline).  Jobs it has adopted and other programs may be
\* there: the code does not see them, and nothing is said of them.
THEOREM BaselineIsForOneJob == Spec => []OwnedAlone
<1>1. AdmissionInv => OwnedAlone
  BY DEF AdmissionInv, OwnedAlone, Held
<1> QED BY <1>1, DevicesAccounted, PTL

----------------------------------------------------------------------------
(* What jobs declared, added up.                                            *)

LEMMA AskIsNat ==
  /\ \A j \in Job : Ask[j].vram \in Nat /\ Ask[j].ram \in Nat
  /\ IsFiniteSet(Job) /\ Card \in Nat /\ Ram \in Nat
  /\ Card * Cardinality(Device) \in Nat
<1>1. Cardinality(Device) \in Nat /\ Card \in Nat
  BY AdmissionAssumption, FS_CardinalityType
<1>2. Card * Cardinality(Device) \in Nat
  BY <1>1
<1> QED BY <1>1, <1>2, AdmissionAssumption DEF Request

LEMMA VramFacts ==
  ASSUME NEW S \in SUBSET Job
  PROVE  /\ VramOf(S) \in Nat /\ \A T \in SUBSET S : VramOf(T) <= VramOf(S)
         /\ \A j \in Job \ S : VramOf(S \cup {j}) = VramOf(S) + Ask[j].vram
<1> DEFINE F == [j \in Job |-> Ask[j].vram]
<1>1. IsFiniteSet(S) /\ \A j \in Job : F[j] = Ask[j].vram /\ F[j] \in Nat
  BY AskIsNat, FS_Subset
<1>2. \A T : VramOf(T) = SumFunctionOnSet(F, T)
  BY DEF VramOf
<1> HIDE DEF F
<1>3. SumFunctionOnSet(F, S) \in Nat
  BY <1>1, SumIsNat
<1>4. \A T \in SUBSET S : SumFunctionOnSet(F, T) <= SumFunctionOnSet(F, S)
  BY <1>1, SumGrows
<1>5. ASSUME NEW j \in Job \ S
      PROVE  SumFunctionOnSet(F, S \cup {j}) = SumFunctionOnSet(F, S) + F[j]
  BY <1>1, SumWith
<1> QED BY <1>1, <1>2, <1>3, <1>4, <1>5

LEMMA RamFacts ==
  ASSUME NEW S \in SUBSET Job
  PROVE  /\ RamOf(S) \in Nat /\ \A T \in SUBSET S : RamOf(T) <= RamOf(S)
         /\ \A j \in Job \ S : RamOf(S \cup {j}) = RamOf(S) + Ask[j].ram
<1> DEFINE F == [j \in Job |-> Ask[j].ram]
<1>1. IsFiniteSet(S) /\ \A j \in Job : F[j] = Ask[j].ram /\ F[j] \in Nat
  BY AskIsNat, FS_Subset
<1>2. \A T : RamOf(T) = SumFunctionOnSet(F, T)
  BY DEF RamOf
<1> HIDE DEF F
<1>3. SumFunctionOnSet(F, S) \in Nat
  BY <1>1, SumIsNat
<1>4. \A T \in SUBSET S : SumFunctionOnSet(F, T) <= SumFunctionOnSet(F, S)
  BY <1>1, SumGrows
<1>5. ASSUME NEW j \in Job \ S
      PROVE  SumFunctionOnSet(F, S \cup {j}) = SumFunctionOnSet(F, S) + F[j]
  BY <1>1, SumWith
<1> QED BY <1>1, <1>2, <1>3, <1>4, <1>5

\* Only a start adds to the jobs the ledger counts.
LEMMA LiveStep ==
  ASSUME AdmissionInv, [Next]_vars, ~ \E j \in Job : Start(j)
  PROVE  Live' \subseteq Live
<1>1. ASSUME NEW j \in Job, Submit(j) PROVE Live' \subseteq Live
  BY <1>1 DEF Submit, AdmissionInv, TypeOK, Live
<1>2. ASSUME NEW j \in Job, Reap(j) PROVE Live' \subseteq Live
  BY <1>2 DEF Reap, AdmissionInv, TypeOK, Live
<1>3. ASSUME Restart PROVE Live' \subseteq Live
  BY <1>3 DEF Restart, AdmissionInv, TypeOK, Live
<1>4. ASSUME \/ Probe \/ Claim \/ ForeignChanges \/ UNCHANGED vars
             \/ \E j \in Job : Grow(j) \/ Exit(j)
      PROVE  Live' \subseteq Live
  BY <1>4 DEF Probe, Claim, ForeignChanges, Grow, Exit, vars, Live
<1> QED BY <1>1, <1>2, <1>3, <1>4, NextCases

LEMMA LedgerStep ==
  ASSUME AdmissionInv, LedgerHolds, [Next]_vars
  PROVE  LedgerHolds'
<1> DEFINE L == Live'
<1>0. Live \in SUBSET Job /\ L \in SUBSET Job
  BY DEF Live
<1> SUFFICES RamOf(L) <= Ram /\ VramOf(L) <= Card * Cardinality(Device)
  BY DEF LedgerHolds, RamOf, VramOf
<1>1. CASE ~ \E j \in Job : Start(j)
  <2>1. L \in SUBSET Live
    BY <1>1, LiveStep
  <2> HIDE DEF L
  <2>2. RamOf(L) <= RamOf(Live) /\ VramOf(L) <= VramOf(Live)
    BY <1>0, <2>1, RamFacts, VramFacts
  <2> QED BY <1>0, <2>2, RamFacts, VramFacts, AskIsNat DEF LedgerHolds
<1>2. ASSUME NEW j \in Job, Start(j)
      PROVE  RamOf(L) <= Ram /\ VramOf(L) <= Card * Cardinality(Device)
  <2>1. L = Live \cup {j} /\ j \in Job \ Live
    BY <1>2 DEF Start, AdmissionInv, TypeOK, Live
  <2> HIDE DEF L
  <2>2. RamOf(L) = RamOf(Live) + Ask[j].ram /\ VramOf(L) = VramOf(Live) + Ask[j].vram
    BY <1>0, <2>1, RamFacts, VramFacts
  <2>3. RamFits(j) /\ VramFits(j)
    BY <1>2 DEF Start, Admits
  <2>4. reserve \in Amount
    BY AdmissionAssumption DEF AdmissionInv, TypeOK
  <2>5. UsableRam(reserve) <= Ram /\ UsableVram(reserve) <= Card * Cardinality(Device)
    BY <2>4, AskIsNat DEF UsableRam, UsableVram, Minus, Amount
  <2>6. Ask[j].ram > 0 => RamOf(Live) + Ask[j].ram <= UsableRam(reserve)
    BY <2>3 DEF RamFits, Reserved
  <2>7. Ask[j].vram > 0 => VramOf(Live) + Ask[j].vram <= UsableVram(reserve)
    BY <2>3 DEF VramFits, Reserved
  <2>8. UsableRam(reserve) \in Nat /\ UsableVram(reserve) \in Nat
    BY <2>4, AskIsNat DEF UsableRam, UsableVram, Minus, Amount
  <2>9. RamOf(L) <= Ram
    BY <1>0, <2>2, <2>5, <2>6, <2>8, RamFacts, AskIsNat DEF LedgerHolds
  <2>10. VramOf(L) <= Card * Cardinality(Device)
    BY <1>0, <2>2, <2>5, <2>7, <2>8, VramFacts, AskIsNat DEF LedgerHolds
  <2> QED BY <2>9, <2>10
<1> QED BY <1>1, <1>2

\* A device loses occupants, or gains the one that joins.
LEMMA OccupantsStep ==
  ASSUME AdmissionInv, [Next]_vars, NEW d \in Device
  PROVE  \/ Occupants(d)' \subseteq Occupants(d)
         \/ \E j \in Job \ Occupants(d) :
              /\ Occupants(d)' = Occupants(d) \cup {j}
              /\ Occupants(d) = {} \/ MayJoin(j, d)
<1>1. CASE UNCHANGED <<holder, dev>>
  BY <1>1 DEF Occupants, Held
<1>2. ASSUME NEW j \in Job, Submit(j) PROVE Occupants(d)' \subseteq Occupants(d)
  BY <1>2 DEF Submit, AdmissionInv, TypeOK, Held, Occupants
<1>3. ASSUME NEW j \in Job, Reap(j) PROVE Occupants(d)' \subseteq Occupants(d)
  <2>1. \A i \in Job : dev'[i] \subseteq dev[i] /\ (i = j => dev'[i] = {})
    BY <1>3, ForgetEffect DEF Reap
  <2>2. \A i \in Job : i # j /\ i \in Held' => i \in Held
    BY <1>3 DEF Reap, AdmissionInv, TypeOK, Held
  <2> QED BY <2>1, <2>2 DEF Occupants, Held
<1>4. CASE Restart
  BY <1>4 DEF Restart, Occupants, Held
<1>5. ASSUME NEW j \in Job, Start(j)
      PROVE  \/ Occupants(d)' = Occupants(d)
             \/ /\ Occupants(d)' = Occupants(d) \cup {j} /\ j \notin Occupants(d)
                /\ Occupants(d) = {} \/ MayJoin(j, d)
  <2> PICK D \in Allocations(j) : dev' = [dev EXCEPT ![j] = D]
    BY <1>5 DEF Start
  <2>1. Held' = Held \cup {j} /\ j \notin Held
    BY <1>5 DEF Start, AdmissionInv, TypeOK, Held
  <2>2. d \in D => Candidate(j, d)
    BY DEF Allocations
  <2>3. dev'[j] = D /\ \A i \in Job \ {j} : dev'[i] = dev[i]
    BY DEF AdmissionInv, TypeOK
  <2>4. Occupants(d)' = IF d \in D THEN Occupants(d) \cup {j} ELSE Occupants(d)
    BY <2>1, <2>3 DEF Occupants, Held
  <2> QED BY <2>1, <2>2, <2>4 DEF Candidate, Occupants
<1>6. ASSUME \/ Probe \/ Claim \/ ForeignChanges \/ UNCHANGED vars
             \/ \E j \in Job : Grow(j) \/ Exit(j)
      PROVE  UNCHANGED <<holder, dev>>
  BY <1>6 DEF Probe, Claim, ForeignChanges, Grow, Exit, vars
<1> QED BY <1>1, <1>2, <1>3, <1>4, <1>5, <1>6, NextCases

LEMMA SharedStep ==
  ASSUME AdmissionInv, SharedFits, [Next]_vars
  PROVE  SharedFits'
<1> SUFFICES ASSUME NEW d \in Device, Cardinality(Occupants(d)') > 1
             PROVE  VramOf(Occupants(d)') <= Card
  BY DEF SharedFits, VramOf
<1> DEFINE O == Occupants(d)'
<1>0. Occupants(d) \in SUBSET Job /\ IsFiniteSet(Occupants(d))
  BY AskIsNat, FS_Subset DEF Occupants, Held
<1>1. CASE O \subseteq Occupants(d)
  <2> HIDE DEF O
  <2>1. Cardinality(O) <= Cardinality(Occupants(d)) /\ IsFiniteSet(O)
    BY <1>0, <1>1, FS_Subset
  <2>2. Cardinality(O) \in Nat /\ Cardinality(Occupants(d)) \in Nat
    BY <1>0, <2>1, FS_CardinalityType
  <2>3. VramOf(Occupants(d)) <= Card
    BY <2>1, <2>2 DEF SharedFits, O
  <2>4. VramOf(O) <= VramOf(Occupants(d)) /\ VramOf(O) \in Nat
    BY <1>0, <1>1, VramFacts
  <2> QED BY <1>0, <2>3, <2>4, VramFacts, AskIsNat DEF O
<1>2. ASSUME NEW j \in Job \ Occupants(d), O = Occupants(d) \cup {j},
             Occupants(d) = {} \/ MayJoin(j, d)
      PROVE  VramOf(O) <= Card
  <2>1. Occupants(d) # {}
    <3> SUFFICES ASSUME Occupants(d) = {} PROVE FALSE
      OBVIOUS
    <3>1. O = {j}
      BY <1>2
    <3>2. Cardinality(O) = 1
      BY <3>1, FS_Singleton
    <3> QED BY <3>2
  <2>2. VramOf(Occupants(d)) + Ask[j].vram <= Minus(Card, reserve.vram)
    BY <1>2, <2>1 DEF MayJoin
  <2>3. reserve.vram \in Nat
    BY AdmissionAssumption DEF AdmissionInv, TypeOK, Amount
  <2>4. Minus(Card, reserve.vram) <= Card /\ Minus(Card, reserve.vram) \in Nat
    BY <2>3, AskIsNat DEF Minus
  <2> HIDE DEF O
  <2>5. VramOf(O) = VramOf(Occupants(d)) + Ask[j].vram
    BY <1>0, <1>2, VramFacts
  <2> QED BY <1>0, <2>2, <2>4, <2>5, VramFacts, AskIsNat
<1> QED BY <1>1, <1>2, OccupantsStep

LEMMA InitSums == Init => LedgerHolds /\ SharedFits
<1> SUFFICES ASSUME Init PROVE LedgerHolds /\ SharedFits
  OBVIOUS
<1>1. Live = {} /\ \A d \in Device : Occupants(d) = {}
  BY DEF Init, Live, Held, Occupants
<1>2. RamOf({}) = 0 /\ VramOf({}) = 0
  BY SumOfNone DEF RamOf, VramOf
<1> QED BY <1>1, <1>2, AskIsNat DEF LedgerHolds, SharedFits

\* What all running jobs declared fits the RAM of the machine and the memory of
\* its cards, over restarts, claims on the reserve and readings that fail
\* (resources.admit and the ledger of _running_requests).
THEOREM LedgerIsNeverExceeded == Spec => []LedgerHolds
<1>1. AdmissionInv /\ LedgerHolds /\ [Next]_vars => LedgerHolds'
  BY LedgerStep
<1> QED BY <1>1, InitSums, DevicesAccounted, PTL DEF Spec

\* What the jobs that share a card declared fits that card, whatever the order
\* in which they joined and left (_allocate_devices).
THEOREM SharersFitTheirCard == Spec => []SharedFits
<1>1. AdmissionInv /\ SharedFits /\ [Next]_vars => SharedFits'
  BY SharedStep
<1> QED BY <1>1, InitSums, DevicesAccounted, PTL DEF Spec
=============================================================================
