------------------------------- MODULE Daemon -------------------------------
(****************************************************************************)
(* One dispatcher per profile: how it comes up, is found, is asked to stop, *)
(* hangs and is replaced, and the keys of the queue's meta table through    *)
(* which command lines and dispatchers talk.  Nobody knows a dispatcher but *)
(* by a file lock, a heartbeat, a pid and a flag, each written on its own.  *)
(*                                                                          *)
(* The claim on memory (`workerq reserve`) lives in keys of the same table: *)
(* its amount and its deadline are written and blanked one after the other, *)
(* by command lines and by the dispatcher that finds it expired.            *)
(*                                                                          *)
(* What a dispatcher does in its tick is the matter of Lifecycle, Scheduler *)
(* and NodeReports.  Time is not measured: a timeout may run out, and a     *)
(* heartbeat grow stale, at any moment.                                     *)
(****************************************************************************)
EXTENDS Naturals, FiniteSets

CONSTANTS
  Process,    \* places for dispatcher processes; one that is gone is free again
  Client,     \* command lines
  Calls,      \* of each client, the operations it calls
  Claim,      \* amounts that may be reserved
  Timed,      \* those that are given a deadline
  Nobody,     \* no process, no client, no claim
  MaxCalls,   \* bound: operations called, but for `ensure`, which never ends
  MaxFaults   \* bound: crashes, hangs, slow ticks and failed ticks

ASSUME DaemonAssumption ==
  /\ Process \cap Client = {} /\ Nobody \notin Process \cup Client \cup Claim
  /\ IsFiniteSet(Process) /\ Timed \subseteq Claim /\ MaxCalls \in Nat /\ MaxFaults \in Nat
  /\ Calls \in [Client -> SUBSET {"ensure", "initialize", "restart", "stop",
                                  "claim", "release"}]

VARIABLES
  pc,        \* of each dispatcher process, where it is
  holder,    \* who holds dispatcher.lock
  pidKey,    \* META_DAEMON_PID
  flag,      \* META_SHUTDOWN
  beat,      \* META_HEARTBEAT is younger than daemon_heartbeat_stale_seconds
  amount,    \* META_RESERVE_RAM and the like
  deadline,  \* META_RESERVE_EXPIRES: of which claim
  past,      \* claims whose deadline has passed
  call,      \* of each client, the operation it is in and where
  asked,     \* history: dispatchers that were there when the flag was set
  torn,      \* history: writers of the claim overlapped, or one died half-way
  calls,
  faults

daemonVars == <<pc, holder, pidKey, beat>>
claimVars == <<amount, deadline, past, torn>>
vars == <<daemonVars, flag, claimVars, call, calls, asked, faults>>

InTick == {"expired", "blanked", "checked"}
Up == {"loop", "hung"} \cup InTick
Closing == {"closing", "silent"}
Holding == {"locked"} \cup Up \cup Closing

Idle == [op |-> Nobody, at |-> "idle", tried |-> FALSE, mine |-> Nobody]

Init ==
  /\ pc = [d \in Process |-> "gone"] /\ holder = Nobody /\ pidKey = Nobody
  /\ flag = FALSE /\ beat = FALSE
  /\ amount = Nobody /\ deadline = Nobody /\ past = {}
  /\ call = [c \in Client |-> Idle] /\ asked = {} /\ torn = FALSE
  /\ calls = 0 /\ faults = 0

To(d, place) == pc' = [pc EXCEPT ![d] = place]
Fault == faults < MaxFaults /\ faults' = faults + 1

----------------------------------------------------------------------------
(* run_daemon and Dispatcher.run.                                           *)

\* The lock is tried once: "exits quietly if one already runs".
Acquire(d) ==
  /\ pc[d] = "spawned"
  /\ IF holder = Nobody THEN holder' = d /\ To(d, "locked")
     ELSE To(d, "gone") /\ UNCHANGED holder
  /\ UNCHANGED <<pidKey, beat, flag, claimVars, call, calls, asked, faults>>

\* Mutant: the flag is left as it was found.
Begin_keeps(d) ==
  /\ pc[d] = "locked" /\ pidKey' = d /\ beat' = TRUE /\ To(d, "loop")
  /\ UNCHANGED <<holder, flag, claimVars, call, calls, asked, faults>>

\* A request that was there before, or came in while it started, is dropped.
Begin(d) ==
  /\ pc[d] = "locked" /\ pidKey' = d /\ flag' = FALSE /\ beat' = TRUE /\ To(d, "loop")
  /\ UNCHANGED <<holder, claimVars, call, calls, asked, faults>>

\* _heartbeat, and later _reserve, which clears an expired claim where it finds it.
TickBegins(d) ==
  /\ pc[d] = "loop" /\ beat' = TRUE
  /\ To(d, IF deadline \in past THEN "expired" ELSE "checked")
  /\ UNCHANGED <<holder, pidKey, flag, claimVars, call, calls, asked, faults>>

\* Who is half-way through writing the keys of the claim.
Writers == {d \in Process : pc[d] \in {"expired", "blanked"}}
             \cup {c \in Client : call[c].at \in {"timed", "deadline"}}
Overlaps(w) == torn' = (torn \/ Writers \ {w} # {})

\* Mutant: the deadline first.
Blanks_deadline_first(d) ==
  \/ /\ pc[d] = "expired" /\ deadline' = Nobody /\ To(d, "blanked")
     /\ UNCHANGED amount
  \/ /\ pc[d] = "blanked" /\ amount' = Nobody /\ To(d, "checked")
     /\ UNCHANGED deadline

\* clear_reserve, the amounts and then the deadline.
Blanks(d) ==
  \/ /\ pc[d] = "expired" /\ amount' = Nobody /\ To(d, "blanked")
     /\ UNCHANGED deadline
  \/ /\ pc[d] = "blanked" /\ deadline' = Nobody /\ To(d, "checked")
     /\ UNCHANGED amount

ClearReserve(d) ==
  /\ Blanks(d) /\ Overlaps(d)
  /\ UNCHANGED <<holder, pidKey, beat, flag, past, call, calls, asked, faults>>

Reads(d) == pc[d] = "checked" /\ To(d, IF flag THEN "closing" ELSE "loop")

TickEnds(d) ==
  /\ Reads(d)
  /\ UNCHANGED <<holder, pidKey, beat, flag, claimVars, call, calls, asked, faults>>

\* An exception is logged, and skips what is left of the tick, the flag too.
TickFails(d) ==
  /\ pc[d] \in InTick /\ To(d, "loop") /\ Fault
  /\ UNCHANGED <<holder, pidKey, beat, flag, claimVars, call, calls, asked>>

Hangs(d) ==
  /\ pc[d] \in InTick /\ To(d, "hung") /\ Fault
  /\ UNCHANGED <<holder, pidKey, beat, flag, claimVars, call, calls, asked>>

Gone(d) == To(d, "gone") /\ holder' = IF holder = d THEN Nobody ELSE holder

\* Mutant: the poller's thread counts as progress, and a wedged loop does not stop it.
Watchdog_of_threads(d) ==
  /\ pc[d] \in InTick /\ Fault /\ Gone(d)
  /\ UNCHANGED <<pidKey, beat, flag, claimVars, call, calls, asked>>

\* os._exit once the loop has not come round for _WATCHDOG_GRACE_SECONDS: it is
\* wedged, or ships the source of a job, whose transfers may take longer.
Watchdog(d) ==
  /\ \/ pc[d] = "hung" /\ UNCHANGED faults
     \/ pc[d] \in InTick /\ Fault
  /\ Gone(d)
  /\ UNCHANGED <<pidKey, beat, flag, claimVars, call, calls, asked>>

Crash(d) ==
  /\ pc[d] # "gone" /\ Gone(d) /\ Fault
  /\ UNCHANGED <<pidKey, beat, flag, claimVars, call, calls, asked>>

\* Mutant: the lock is let go before the keys are reset.
Close_early(d) ==
  \/ /\ pc[d] = "closing" /\ holder' = Nobody /\ To(d, "silent") /\ UNCHANGED <<pidKey, flag>>
  \/ /\ pc[d] = "silent" /\ pidKey' = Nobody /\ flag' = FALSE /\ To(d, "gone")
     /\ UNCHANGED holder

\* The finally clauses of run and of run_daemon.
Close(d) ==
  \/ /\ pc[d] = "closing" /\ pidKey' = Nobody /\ flag' = FALSE /\ To(d, "silent")
     /\ UNCHANGED holder
  \/ /\ pc[d] = "silent" /\ Gone(d) /\ UNCHANGED <<pidKey, flag>>

Closes(d) ==
  /\ Close(d)
  /\ UNCHANGED <<beat, claimVars, call, calls, asked, faults>>

----------------------------------------------------------------------------
(* Command lines: LocalDispatcherBackend.                                   *)

At(c, op, at) == call[c].op = op /\ call[c].at = at
Move(c, at) == call' = [call EXCEPT ![c].at = at]
Return(c) == call' = [call EXCEPT ![c] = Idle]

Start(c, op) ==
  /\ call[c] = Idle /\ op \in Calls[c]
  /\ IF op = "ensure" THEN UNCHANGED calls ELSE calls < MaxCalls /\ calls' = calls + 1
  /\ call' = [call EXCEPT ![c] = [Idle EXCEPT !.op = op,
       !.at = CASE op = "ensure" -> "look" [] op = "initialize" -> "unflag"
                [] op \in {"stop", "restart"} -> "flag" [] OTHER -> "amount"]]
  /\ UNCHANGED <<daemonVars, flag, claimVars, asked, faults>>

\* initialize withdraws a request to stop; shutdown makes one.
SetFlag(c) ==
  \/ /\ At(c, "initialize", "unflag") /\ flag' = FALSE /\ Move(c, "look")
     /\ UNCHANGED <<daemonVars, claimVars, asked, calls, faults>>
  \/ /\ call[c].at = "flag" /\ flag' = TRUE
     /\ asked' = asked \cup {d \in Process : pc[d] \in Holding}
     /\ IF call[c].op = "stop" THEN Return(c) ELSE Move(c, "drain")
     /\ UNCHANGED <<daemonVars, claimVars, calls, faults>>

\* is_locked takes the lock to see whether it is free, and lets go of it again.
Probe(c) ==
  /\ call[c].at \in {"look", "drain"}
  /\ IF holder # Nobody
     THEN /\ UNCHANGED holder
          /\ IF call[c].at = "look" THEN Move(c, "age") ELSE UNCHANGED call
     ELSE holder' = c /\ Move(c, IF call[c].at = "look" THEN "free" ELSE "drained")
  /\ UNCHANGED <<pc, pidKey, beat, flag, claimVars, asked, calls, faults>>

\* A dispatcher is there when the lock is taken and the heartbeat is young.
\* One is spawned once, and looked for again and again until the timeout; beyond
\* the places there are, it is one that finds the lock taken.
Absent(c) ==
  \/ /\ ~call[c].tried
     /\ LET free == {d \in Process : pc[d] = "gone"} IN
          \/ \E d \in free : /\ pc' = [pc EXCEPT ![d] = "spawned"]
                            /\ asked' = asked \ {d}
          \/ free = {} /\ UNCHANGED <<pc, asked>>
     /\ call' = [call EXCEPT ![c].at = "look", ![c].tried = TRUE]
  \/ /\ call[c].tried /\ UNCHANGED <<pc, asked>>
     /\ Move(c, "look") \/ Return(c)

ProbeEnds(c) ==
  /\ holder = c /\ holder' = Nobody
  /\ \/ call[c].at = "free" /\ Absent(c)
     \/ call[c].at = "drained" /\ Move(c, "look") /\ UNCHANGED <<pc, asked>>
  /\ UNCHANGED <<pidKey, beat, flag, claimVars, calls, faults>>

ReadBeat(c) ==
  /\ call[c].at = "age"
  /\ IF beat THEN Return(c) /\ UNCHANGED <<pc, asked>> ELSE Absent(c)
  /\ UNCHANGED <<holder, pidKey, beat, flag, claimVars, calls, faults>>

\* shutdown gives up waiting for the lock; restart does not look at that.
DrainTimesOut(c) ==
  /\ call[c].at = "drain" /\ Move(c, "look")
  /\ UNCHANGED <<daemonVars, flag, claimVars, asked, calls, faults>>

\* set_reserve, the amounts and then the deadline, which is none for a claim
\* without one; clear_reserve blanks in the same order.
WriteAmount(c) ==
  /\ call[c].at = "amount"
  /\ IF call[c].op = "release" THEN amount' = Nobody /\ Move(c, "deadline")
     ELSE \E m \in Claim :
            /\ amount' = m
            /\ call' = [call EXCEPT ![c].mine = m,
                          ![c].at = IF m \in Timed THEN "timed" ELSE "deadline"]
  /\ Overlaps(c)
  /\ UNCHANGED <<daemonVars, flag, deadline, past, asked, calls, faults>>

WriteDeadline(c) ==
  /\ \/ call[c].at = "timed" /\ deadline' = call[c].mine
     \/ call[c].at = "deadline" /\ deadline' = Nobody
  /\ past' = past \ {deadline'} /\ Return(c)
  /\ Overlaps(c)
  /\ UNCHANGED <<daemonVars, flag, amount, asked, calls, faults>>

ClientDies(c) ==
  /\ call[c] # Idle /\ Return(c) /\ Fault
  /\ holder' = IF holder = c THEN Nobody ELSE holder
  /\ torn' = (torn \/ call[c].at = "timed")
  /\ UNCHANGED <<pc, pidKey, beat, flag, amount, deadline, past, calls, asked>>

----------------------------------------------------------------------------
(* Time.                                                                    *)

BeatAges ==
  /\ beat /\ beat' = FALSE
  /\ UNCHANGED <<pc, holder, pidKey, flag, claimVars, call, calls, asked, faults>>
Expires ==
  /\ deadline \in Timed \ past /\ past' = past \cup {deadline}
  /\ UNCHANGED <<daemonVars, flag, amount, deadline, torn, call, calls, asked, faults>>

----------------------------------------------------------------------------
Dispatcher(d) ==
  \/ Acquire(d) \/ Begin(d) \/ TickBegins(d) \/ ClearReserve(d) \/ TickEnds(d) \/ Closes(d)
CommandLine(c) ==
  \/ SetFlag(c) \/ Probe(c) \/ ProbeEnds(c) \/ ReadBeat(c) \/ DrainTimesOut(c)
  \/ WriteAmount(c) \/ WriteDeadline(c)

Next ==
  \/ \E d \in Process :
       Dispatcher(d) \/ TickFails(d) \/ Hangs(d) \/ Watchdog(d) \/ Crash(d)
  \/ \E c \in Client :
       CommandLine(c) \/ ClientDies(c) \/ \E op \in Calls[c] : Start(c, op)
  \/ BeatAges \/ Expires

Spec == Init /\ [][Next]_vars

\* The loop goes round unless it is wedged, then the watchdog's thread ends it;
\* command lines end, time passes, and somebody keeps looking for a dispatcher.
\* A probe holds the lock for an instant of every tenth of a second: a dispatcher
\* that is started again and again gets it in the end.
FairSpec ==
  /\ Spec /\ WF_vars(Expires)
  /\ \A d \in Process :
       /\ WF_vars(Dispatcher(d) \/ (pc[d] = "hung" /\ Watchdog(d)))
       /\ SF_vars(Acquire(d) /\ holder' = d)
  /\ \A c \in Client : /\ WF_vars(CommandLine(c))
                       /\ SF_vars((ProbeEnds(c) \/ ReadBeat(c)) /\ call'[c] = Idle)
                       /\ \A op \in Calls[c] \cap {"ensure"} : SF_vars(Start(c, op))

----------------------------------------------------------------------------
(* Properties.                                                              *)

\* Every variable keeps its type.
Place == {"gone", "spawned"} \cup Holding
Where == {"idle", "look", "unflag", "flag", "amount", "age", "free", "drain", "drained",
          "timed", "deadline"}
Call == [op : {"ensure", "initialize", "restart", "stop", "claim", "release", Nobody},
         at : Where, tried : BOOLEAN, mine : Claim \cup {Nobody}]
TypeOK ==
  /\ pc \in [Process -> Place]
  /\ holder \in Process \cup Client \cup {Nobody} /\ pidKey \in Process \cup {Nobody}
  /\ flag \in BOOLEAN /\ beat \in BOOLEAN /\ torn \in BOOLEAN
  /\ {amount, deadline} \subseteq Claim \cup {Nobody} /\ past \subseteq Claim
  /\ call \in [Client -> Call] /\ asked \subseteq Process
  /\ calls \in 0..MaxCalls /\ faults \in 0..MaxFaults

\* What PidNamesHolder and StopsWhoWasAsked rest on: the lock is held exactly by
\* the dispatcher that went past it, however it ends; nobody writes the pid, or
\* drops the flag, of another one's time; and a request that is there was made
\* while whoever is up was there, since the start withdraws every older one.
DaemonInv ==
  /\ TypeOK
  /\ \A d \in Process : holder = d <=> pc[d] \in Holding
  /\ \A d \in Process : pc[d] \in Up \cup {"closing"} => pidKey = d
  /\ \A d \in Process : flag /\ pc[d] \in Up => d \in asked

\* The pid in the meta table is that of the dispatcher that serves the profile:
\* what `workerq doctor` and the fallback of `shutdown` take it for.  One that
\* stops resets the key of nobody else, although it is a plain overwrite.
PidNamesHolder ==
  \A d \in Process : pc[d] \in Up => holder = d /\ pidKey = d

\* A dispatcher stops only by a request made while it was there: one that stopped
\* or outlived its predecessor does not take the successor with it.
StopsWhoWasAsked ==
  [][\A d \in Process : pc[d] # "closing" /\ pc'[d] = "closing" => d \in asked]_vars

\* A request to stop ends the dispatcher that serves the profile, even one that is
\* wedged or whose ticks fail, unless somebody withdraws it.
StopEnds ==
  \A d \in Process : flag /\ pc[d] \in Up ~> ~flag \/ pc[d] \notin Up

\* "A temporary claim can never become a permanent one nobody remembers making"
\* (_reserve), whenever dispatchers die, if no two writers overlapped and no
\* command line died between the amount and the deadline.
Claiming == \E c \in Client : call[c].op = "claim"
ClaimEnds ==
  \A m \in Timed : (amount = m /\ []~Claiming) ~> amount # m \/ torn
=============================================================================
