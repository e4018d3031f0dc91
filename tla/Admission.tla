------------------------------ MODULE Admission ------------------------------
(****************************************************************************)
(* What a job must get before it may start on this machine: RAM, VRAM and   *)
(* commit from resources.admit, and devices from _allocate_devices.  A job  *)
(* that runs takes less than it declared until it has grown, so measured    *)
(* memory, which sees other programs, and the ledger of declared requests,  *)
(* which sees the future, must both have room.  The reading of the GPUs is  *)
(* cached, and may fail; a dispatcher that restarts knows the jobs it finds *)
(* by their process only.                                                   *)
(*                                                                          *)
(* The order of the queue, slots and CPUs are in Scheduler, the claim and   *)
(* the restart step by step in Lifecycle, the keys of the reserve in        *)
(* Daemon.  Cards are alike.                                                *)
(****************************************************************************)
EXTENDS Naturals, FiniteSets, FiniteSetsExt

CONSTANTS Job,
          Ask,         \* of each job: [gpus, shared, vram, ram] as declared
          Device,
          Card,        \* memory_total_mib of a card
          Ram,         \* total_mib of the host
          Floor,       \* min_host_free_percent, of Ram
          Ceiling,     \* commit_ceiling_mib: RAM and the full-grown pagefile
          Stop,        \* max_commit_percent, of Ceiling
          Margin,      \* commit_headroom_percent, of Ram
          FreeNeeded,  \* free_memory_threshold_percent, of Card
          Base,        \* the configured reserve, [ram, vram]
          Claims,      \* reserves the owner of the machine may claim
          Foreign,     \* what other programs may take, [ram, vram]
          MaxRestarts  \* bound: restarts of the dispatcher

Request == [gpus : Nat, shared : BOOLEAN, vram : Nat, ram : Nat]
Amount  == [ram : Nat, vram : Nat]
Nothing == [ram |-> 0, vram |-> 0]

ASSUME AdmissionAssumption ==
  /\ Ask \in [Job -> Request] /\ IsFiniteSet(Job) /\ IsFiniteSet(Device)
  /\ {Card, Ram, Floor, Ceiling, Stop, Margin, FreeNeeded, MaxRestarts} \subseteq Nat
  /\ Base \in Amount /\ Claims \subseteq Amount
  /\ Foreign \subseteq Amount /\ Nothing \in Foreign

VARIABLES
  holder,   \* queued, or RUNNING: held (Dispatcher.running) or adopted
  dev,      \* _RunningJob.devices
  visible,  \* the devices in CUDA_VISIBLE_DEVICES of the process
  owned,    \* jobs that were given a VRAM baseline
  alive,    \* jobs with a process
  grown,    \* those of them that have taken what they declared
  foreign,
  seen,     \* _gpu_cache: free memory by device, or that there is no GPU
  reserve,  \* the reserve in force
  restarts

vars == <<holder, dev, visible, owned, alive, grown, foreign, seen, reserve, restarts>>

Holder == {"out", "queued", "held", "adopted"}
NoGpu  == [d \in {} |-> 0]

Held == {j \in Job : holder[j] = "held"}
Live == {j \in Job : holder[j] \in {"held", "adopted"}}

Init ==
  /\ holder = [j \in Job |-> "out"] /\ dev = [j \in Job |-> {}] /\ visible = dev
  /\ owned = {} /\ alive = {} /\ grown = {}
  /\ foreign = Nothing /\ seen = [d \in Device |-> Card]
  /\ reserve = Base /\ restarts = 0

----------------------------------------------------------------------------
(* Readings.                                                                *)

VramOf(S) == SumFunctionOnSet([j \in Job |-> Ask[j].vram], S)
RamOf(S)  == SumFunctionOnSet([j \in Job |-> Ask[j].ram], S)
Minus(a, b) == IF a > b THEN a - b ELSE 0

OnCard(d)   == {j \in alive : d \in visible[j]}
FreeOn(d)   == Minus(Card, VramOf(OnCard(d) \cap grown) + foreign.vram)
FreeRam     == Minus(Ram, RamOf(grown) + foreign.ram)
\* Under WDDM video memory is backed by commit.
Committed   == RamOf(grown) + VramOf(grown) + foreign.ram + foreign.vram

GpuSeen   == DOMAIN seen # {}
BestFree  == Max({0} \cup {seen[d] : d \in DOMAIN seen})

\* query_gpus: nvidia-smi may be missing, fail or time out.
Readings == {NoGpu, [d \in Device |-> FreeOn(d)]}
\* _gpu_info, once the answer kept for three seconds is old.
Probe ==
  /\ seen' \in Readings
  /\ seen' # seen
  /\ UNCHANGED <<holder, dev, visible, owned, alive, grown, foreign, reserve, restarts>>

----------------------------------------------------------------------------
(* resources.capacity and resources.admit.                                  *)

UsableRam(r)  == Minus(Ram, r.ram)
UsableVram(r) == Minus(Card * Cardinality(Device), r.vram)

\* Mutant: only the jobs this dispatcher started are counted.
Reserved_held == Held
\* _running_requests.
Reserved == Live

RamFits(j) ==
  Ask[j].ram > 0 => /\ Ask[j].ram + Floor <= FreeRam
                    /\ RamOf(Reserved) + Ask[j].ram <= UsableRam(reserve)
VramFits(j) ==
  Ask[j].vram > 0 => /\ GpuSeen /\ Ask[j].vram <= BestFree
                     /\ VramOf(Reserved) + Ask[j].vram <= UsableVram(reserve)
CommitFits(j) ==
  LET wants == Ask[j].ram + Ask[j].vram IN
    wants > 0 => wants + Margin + Committed <= Ceiling

Admits(j) == /\ Committed < Stop /\ FreeRam >= Floor
             /\ RamFits(j) /\ VramFits(j) /\ CommitFits(j)

----------------------------------------------------------------------------
(* _device_occupancy and _allocate_devices.                                 *)

Occupants(d) == {j \in Held : d \in dev[j]}
WantsShare(j) == Ask[j].shared /\ Ask[j].vram > 0

\* Mutant: what the occupants declared is not added up.
MayJoin_each(j, d) ==
  /\ WantsShare(j) /\ \A i \in Occupants(d) : Ask[i].shared
  /\ Ask[j].vram <= Minus(Card, reserve.vram)
MayJoin(j, d) ==
  /\ WantsShare(j) /\ \A i \in Occupants(d) : Ask[i].shared
  /\ VramOf(Occupants(d)) + Ask[j].vram <= Minus(Card, reserve.vram)

\* Mutant: only the newcomer is asked whether it shares.
Candidate_willing(j, d) ==
  IF Occupants(d) # {} THEN WantsShare(j) ELSE seen[d] >= FreeNeeded
Candidate(j, d) ==
  IF Occupants(d) # {} THEN MayJoin(j, d) ELSE seen[d] >= FreeNeeded

\* An empty device before an occupied one, the freest first.
Better(d, e) == \/ Occupants(d) = {} /\ Occupants(e) # {}
                \/ Occupants(d) = {} /\ Occupants(e) = {} /\ seen[d] > seen[e]

\* The sets of devices the job may get: none when no GPU was seen.
Allocations(j) ==
  IF Ask[j].gpus = 0 \/ ~GpuSeen THEN {{}}
  ELSE {D \in SUBSET {d \in Device : Candidate(j, d)} :
          /\ Cardinality(D) = Ask[j].gpus
          /\ \A d \in D, e \in {e \in Device : Candidate(j, e)} \ D : ~Better(e, d)}

\* CUDA_VISIBLE_DEVICES is left out when there are no devices to name.
Visible(j, D) == IF D = {} /\ Ask[j].gpus > 0 THEN Device ELSE D
\* Mutant: any job with a single device gets a baseline.
Owns_any(j, D) == Cardinality(D) = 1
\* _vram_baseline: the rise of the card can be put down to this job alone.
Owns(j, D) == Cardinality(D) = 1 /\ ~Ask[j].shared /\ \A d \in D : Occupants(d) = {}

----------------------------------------------------------------------------
(* Jobs, other programs, the reserve, the dispatcher.                       *)

\* _reject_impossible, with a reading of its own and the configured reserve.  The
\* number of devices, the size of one card and the floor are not looked at.
Possible(j) == /\ Ask[j].ram <= UsableRam(Base)
               /\ Ask[j].vram <= UsableVram(Base)

Submit(j) ==
  /\ holder[j] = "out" /\ j \notin alive /\ Possible(j)
  /\ holder' = [holder EXCEPT ![j] = "queued"]
  /\ UNCHANGED <<dev, visible, owned, alive, grown, foreign, seen, reserve, restarts>>

Start(j) ==
  /\ holder[j] = "queued" /\ Admits(j)
  /\ \E D \in Allocations(j) :
       /\ dev' = [dev EXCEPT ![j] = D]
       /\ visible' = [visible EXCEPT ![j] = Visible(j, D)]
       /\ owned' = IF Owns(j, D) THEN owned \cup {j} ELSE owned
  /\ holder' = [holder EXCEPT ![j] = "held"] /\ alive' = alive \cup {j}
  /\ UNCHANGED <<grown, foreign, seen, reserve, restarts>>

\* A process takes what it declared, and lets go of it between two phases.
Grow(j) ==
  /\ j \in alive
  /\ grown' = IF j \in grown THEN grown \ {j} ELSE grown \cup {j}
  /\ UNCHANGED <<holder, dev, visible, owned, alive, foreign, seen, reserve, restarts>>

Exit(j) ==
  /\ j \in alive /\ alive' = alive \ {j} /\ grown' = grown \ {j}
  /\ UNCHANGED <<holder, dev, visible, owned, foreign, seen, reserve, restarts>>

Forget(S) ==
  /\ dev' = [j \in Job |-> IF j \in S THEN {} ELSE dev[j]]
  /\ visible' = [j \in Job |-> IF j \in S THEN {} ELSE visible[j]]
  /\ owned' = owned \ S

\* _reap and _reap_adopted.
Reap(j) ==
  /\ j \in Live \ alive
  /\ holder' = [holder EXCEPT ![j] = "out"] /\ Forget({j})
  /\ UNCHANGED <<alive, grown, foreign, seen, reserve, restarts>>

\* _recover_orphans: processes are adopted, without their devices.
Restart ==
  /\ restarts < MaxRestarts /\ restarts' = restarts + 1
  /\ holder' = [j \in Job |-> IF j \notin Live THEN holder[j]
                              ELSE IF j \in alive THEN "adopted" ELSE "out"]
  /\ dev' = [j \in Job |-> {}]
  /\ visible' = [j \in Job |-> IF j \in alive THEN visible[j] ELSE {}]
  /\ owned' = owned \cap alive
  /\ seen' = [d \in Device |-> FreeOn(d)]
  /\ UNCHANGED <<alive, grown, foreign, reserve>>

\* `workerq reserve', its clear and its expiry.
Claim == /\ reserve' \in (Claims \cup {Base}) \ {reserve}
         /\ UNCHANGED <<holder, dev, visible, owned, alive, grown, foreign, seen, restarts>>
ForeignChanges ==
  /\ foreign' \in Foreign \ {foreign}
  /\ UNCHANGED <<holder, dev, visible, owned, alive, grown, seen, reserve, restarts>>

Next == \/ \E j \in Job : Submit(j) \/ Start(j) \/ Grow(j) \/ Exit(j) \/ Reap(j)
        \/ Probe \/ Restart \/ Claim \/ ForeignChanges

Spec == Init /\ [][Next]_vars

----------------------------------------------------------------------------
(* Properties.                                                              *)

TypeOK ==
  /\ holder \in [Job -> Holder]
  /\ dev \in [Job -> SUBSET Device] /\ visible \in [Job -> SUBSET Device]
  /\ owned \subseteq Job /\ alive \subseteq Job /\ grown \subseteq alive
  /\ foreign \in Foreign /\ reserve \in Claims \cup {Base}
  /\ seen = NoGpu \/ DOMAIN seen = Device
  /\ restarts \in 0..MaxRestarts

\* Devices, baselines and visibility are kept exactly for the jobs they belong
\* to, so that none is lost or left behind by a reap or a restart; with them, no
\* two jobs of this dispatcher share a device unless both asked, and a baseline
\* stands for a job alone.
AdmissionInv ==
  /\ TypeOK
  /\ \A j \in Job : dev[j] # {} => j \in Held
  /\ alive \subseteq Live /\ owned \subseteq Live
  /\ \A j \in owned : ~Ask[j].shared
  /\ \A i, j \in Job : i # j /\ dev[i] \cap dev[j] # {} => Ask[i].shared /\ Ask[j].shared

\* "A device already running a job is off limits unless both that job and this
\* one asked to share it" (_allocate_devices), among the jobs this dispatcher
\* started and placed.
ExclusiveAlone ==
  \A i, j \in Held : i # j /\ dev[i] \cap dev[j] # {} => Ask[i].shared /\ Ask[j].shared

\* Once the jobs that share a card have all grown, the card holds them, although
\* each joined by what the others had declared at its turn.
SharedFits ==
  \A d \in Device : Cardinality(Occupants(d)) > 1 => VramOf(Occupants(d)) <= Card

\* When every job has grown to what it declared, the RAM of the machine and the
\* memory of its cards hold them all, those adopted after a restart included,
\* whatever the measured readings said when each of them started; only a probe
\* that fails leaves the cards out.
LedgerHolds ==
  /\ RamOf(Live) <= Ram
  /\ VramOf(Live) <= Card * Cardinality(Device)

\* A job whose VRAM is measured as the rise of its card has that card to itself,
\* as far as the dispatcher that started it is concerned, for as long as it runs.
OwnedAlone ==
  \A j \in owned \cap Held : \A i \in Held \ {j} : dev[i] \cap dev[j] = {}
=============================================================================
