----------------------------- MODULE DaemonProofs -----------------------------
(****************************************************************************)
(* Dispatchers for any number of processes, command lines, claims and       *)
(* faults: the pid key names the one that serves, and a dispatcher stops    *)
(* only by a request made while it was there.                               *)
(****************************************************************************)
EXTENDS Daemon, TLAPS

\* Steps of dispatchers, of command lines, and of time.
DaemonStep(d) ==
  \/ Acquire(d) \/ Begin(d) \/ TickBegins(d) \/ ClearReserve(d) \/ TickEnds(d) \/ Closes(d)
  \/ TickFails(d) \/ Hangs(d) \/ Watchdog(d) \/ Crash(d)
ClientStep(c) ==
  \/ SetFlag(c) \/ Probe(c) \/ ProbeEnds(c) \/ ReadBeat(c) \/ DrainTimesOut(c)
  \/ WriteAmount(c) \/ WriteDeadline(c) \/ ClientDies(c)
  \/ \E op \in Calls[c] : Start(c, op)

LEMMA NextCases ==
  ASSUME Next
  PROVE  \/ \E d \in Process : DaemonStep(d)
         \/ \E c \in Client : ClientStep(c)
         \/ BeatAges \/ Expires
BY DEF Next, DaemonStep, ClientStep, Dispatcher, CommandLine

LEMMA Distinct ==
  /\ Process \cap Client = {} /\ Nobody \notin Process /\ Nobody \notin Client
BY DaemonAssumption

----------------------------------------------------------------------------
(* Types.                                                                   *)

LEMMA Counts ==
  ASSUME TypeOK
  PROVE  /\ Fault => faults' \in 0..MaxFaults
         /\ calls < MaxCalls /\ calls' = calls + 1 => calls' \in 0..MaxCalls
BY DaemonAssumption DEF TypeOK, Fault

LEMMA PlaceMoves ==
  ASSUME TypeOK, NEW d \in Process, NEW p \in Place, To(d, p)
  PROVE  pc' \in [Process -> Place]
BY DEF TypeOK, To

LEMMA Places ==
  /\ {"gone", "spawned", "locked", "loop", "hung", "expired", "blanked", "checked",
      "closing", "silent"} = Place
BY DEF Place, Holding, Up, InTick, Closing

LEMMA DaemonTypes ==
  ASSUME TypeOK, NEW d \in Process, DaemonStep(d)
  PROVE  TypeOK'
<1>1. pc' \in [Process -> Place]
  <2>1. \E p \in Place : To(d, p)
    BY Places DEF DaemonStep, Acquire, Begin, TickBegins, ClearReserve, Blanks, TickEnds, Reads,
                  Closes, Close, TickFails, Hangs, Watchdog, Crash, Gone
  <2> QED BY <2>1, PlaceMoves
<1>2. holder' \in Process \cup Client \cup {Nobody}
  BY DEF TypeOK, DaemonStep, Acquire, Begin, TickBegins, ClearReserve, TickEnds, Closes, Close,
         TickFails, Hangs, Watchdog, Crash, Gone
<1>3. /\ pidKey' \in Process \cup {Nobody} /\ flag' \in BOOLEAN /\ beat' \in BOOLEAN
      /\ past' = past /\ call' = call /\ asked' = asked /\ calls' = calls
  BY DEF TypeOK, DaemonStep, Acquire, Begin, TickBegins, ClearReserve, TickEnds, Closes, Close,
         TickFails, Hangs, Watchdog, Crash, claimVars
<1>4. {amount', deadline'} \subseteq Claim \cup {Nobody} /\ torn' \in BOOLEAN
  BY DEF TypeOK, DaemonStep, Acquire, Begin, TickBegins, ClearReserve, Blanks, Overlaps,
     TickEnds, Closes, TickFails, Hangs, Watchdog, Crash, claimVars
<1>5. faults' \in 0..MaxFaults
  BY Counts DEF TypeOK, DaemonStep, Acquire, Begin, TickBegins, ClearReserve, TickEnds, Closes,
                TickFails, Hangs, Watchdog, Crash
<1> QED BY <1>1, <1>2, <1>3, <1>4, <1>5 DEF TypeOK

LEMMA CallMoves ==
  ASSUME TypeOK, NEW c \in Client
  PROVE  /\ Return(c) => call' \in [Client -> Call]
         /\ \A at \in Where : Move(c, at) => call' \in [Client -> Call]
<1>1. Idle \in Call
  BY DEF Idle, Call, Where
<1>2. Return(c) => call' \in [Client -> Call]
  BY <1>1 DEF Return, TypeOK
<1>3. ASSUME NEW at \in Where, Move(c, at) PROVE call' \in [Client -> Call]
  <2> DEFINE r == [call[c] EXCEPT !.at = at]
  <2>1. call[c] \in Call
    BY DEF TypeOK
  <2>2. r \in Call
    BY <2>1 DEF Call
  <2>3. call' = [call EXCEPT ![c] = r]
    BY <1>3 DEF Move, TypeOK
  <2> QED BY <2>2, <2>3 DEF TypeOK
<1> QED BY <1>2, <1>3

LEMMA StartTypes ==
  ASSUME TypeOK, NEW c \in Client, NEW op \in Calls[c], Start(c, op)
  PROVE  call' \in [Client -> Call] /\ calls' \in 0..MaxCalls
<1>1. op \in {"ensure", "initialize", "restart", "stop", "claim", "release"}
  BY DaemonAssumption
<1>2. call' \in [Client -> Call]
  BY <1>1 DEF Start, TypeOK, Call, Where, Idle
<1>3. calls' \in 0..MaxCalls
  BY Counts DEF Start, TypeOK
<1> QED BY <1>2, <1>3

LEMMA AbsentTypes ==
  ASSUME TypeOK, NEW c \in Client, Absent(c)
  PROVE  /\ call' \in [Client -> Call]
         /\ pc' \in [Process -> Place]
         /\ asked' \subseteq Process
<1>1. call' \in [Client -> Call]
  <2>1. CASE call' = [call EXCEPT ![c].at = "look", ![c].tried = TRUE]
    BY <2>1 DEF TypeOK, Call, Where
  <2>2. CASE Move(c, "look") \/ Return(c)
    BY <2>2, CallMoves DEF Where
  <2> QED BY <2>1, <2>2 DEF Absent
<1>2. pc' \in [Process -> Place] /\ asked' \subseteq Process
  BY Places DEF Absent, TypeOK
<1> QED BY <1>1, <1>2

LEMMA ClientTypes ==
  ASSUME TypeOK, NEW c \in Client, ClientStep(c)
  PROVE  TypeOK'
<1>1. CASE SetFlag(c)
  <2>1. call' \in [Client -> Call]
    BY <1>1, CallMoves DEF SetFlag, Where
  <2> QED BY <1>1, <2>1 DEF SetFlag, TypeOK, daemonVars, claimVars
<1>2. CASE Probe(c)
  <2>1. call' \in [Client -> Call]
    BY <1>2, CallMoves DEF Probe, Where, TypeOK
  <2> QED BY <1>2, <2>1 DEF Probe, TypeOK, claimVars
<1>3. CASE ProbeEnds(c)
  <2>1. /\ call' \in [Client -> Call] /\ pc' \in [Process -> Place] /\ asked' \subseteq Process
    BY <1>3, AbsentTypes, CallMoves DEF ProbeEnds, Where, TypeOK
  <2> QED BY <1>3, <2>1 DEF ProbeEnds, TypeOK, claimVars
<1>4. CASE ReadBeat(c)
  <2>1. /\ call' \in [Client -> Call] /\ pc' \in [Process -> Place] /\ asked' \subseteq Process
    BY <1>4, AbsentTypes, CallMoves DEF ReadBeat, TypeOK
  <2> QED BY <1>4, <2>1 DEF ReadBeat, TypeOK, claimVars
<1>5. CASE DrainTimesOut(c)
  BY <1>5, CallMoves DEF DrainTimesOut, TypeOK, Where, daemonVars, claimVars
<1>6. CASE WriteAmount(c)
  <2>1. call' \in [Client -> Call]
    <3>1. CASE call[c].op = "release"
      BY <1>6, <3>1, CallMoves DEF WriteAmount, Where
    <3>2. CASE call[c].op # "release"
      <4>1. PICK m \in Claim :
              call' = [call EXCEPT ![c].mine = m,
                                   ![c].at = IF m \in Timed THEN "timed" ELSE "deadline"]
        BY <1>6, <3>2 DEF WriteAmount
      <4> DEFINE r == [call[c] EXCEPT !.mine = m,
                                      !.at = IF m \in Timed THEN "timed" ELSE "deadline"]
      <4>2. call[c] \in Call
        BY DEF TypeOK
      <4>3. r \in Call
        BY <4>2 DEF Call, Where
      <4>4. call' = [call EXCEPT ![c] = r]
        BY <4>1 DEF TypeOK
      <4> QED BY <4>3, <4>4 DEF TypeOK
    <3> QED BY <3>1, <3>2
  <2>2. amount' \in Claim \cup {Nobody} /\ torn' \in BOOLEAN
    BY <1>6 DEF WriteAmount, Overlaps, TypeOK
  <2> QED BY <1>6, <2>1, <2>2 DEF WriteAmount, TypeOK, daemonVars
<1>7. CASE WriteDeadline(c)
  <2>1. deadline' \in Claim \cup {Nobody} /\ torn' \in BOOLEAN
    BY <1>7 DEF WriteDeadline, Overlaps, TypeOK, Call
  <2> QED BY <1>7, <2>1, CallMoves DEF WriteDeadline, TypeOK, daemonVars
<1>8. CASE ClientDies(c)
  <2>1. call' \in [Client -> Call] /\ faults' \in 0..MaxFaults
    BY <1>8, CallMoves, Counts DEF ClientDies
  <2>2. torn' \in BOOLEAN /\ holder' \in Process \cup Client \cup {Nobody}
    BY <1>8 DEF ClientDies, TypeOK
  <2> QED BY <1>8, <2>1, <2>2 DEF ClientDies, TypeOK
<1>9. ASSUME NEW op \in Calls[c], Start(c, op) PROVE TypeOK'
  BY <1>9, StartTypes DEF Start, TypeOK, daemonVars, claimVars
<1> QED BY <1>1, <1>2, <1>3, <1>4, <1>5, <1>6, <1>7, <1>8, <1>9 DEF ClientStep

LEMMA InitTypes == Init => TypeOK
<1> SUFFICES ASSUME Init PROVE TypeOK
  OBVIOUS
<1>1. Idle \in Call /\ "gone" \in Place
  BY DEF Idle, Call, Where, Place
<1>2. call \in [Client -> Call] /\ pc \in [Process -> Place]
  BY <1>1 DEF Init
<1>3. calls \in 0..MaxCalls /\ faults \in 0..MaxFaults
  BY DaemonAssumption DEF Init
<1> QED BY <1>2, <1>3 DEF Init, TypeOK

LEMMA TypeStep ==
  ASSUME TypeOK, [Next]_vars
  PROVE  TypeOK'
<1>1. ASSUME NEW d \in Process, DaemonStep(d) PROVE TypeOK'
  BY <1>1, DaemonTypes
<1>2. ASSUME NEW c \in Client, ClientStep(c) PROVE TypeOK'
  BY <1>2, ClientTypes
<1>3. CASE BeatAges
  BY <1>3 DEF BeatAges, TypeOK, claimVars
<1>4. CASE Expires
  BY <1>4, DaemonAssumption DEF Expires, TypeOK, daemonVars
<1>5. CASE UNCHANGED vars
  BY <1>5 DEF vars, daemonVars, claimVars, TypeOK
<1> QED BY <1>1, <1>2, <1>3, <1>4, <1>5, NextCases

----------------------------------------------------------------------------
(* The lock, the pid and the request.                                       *)

\* A command line takes the lock only when nobody has it, and lets go of its own
\* only: the dispatchers see no change but that one of them is spawned.
LEMMA ClientsLeaveTheLock ==
  ASSUME DaemonInv, NEW c \in Client, ClientStep(c)
  PROVE  /\ \A d \in Process : holder' = d <=> holder = d
         /\ pidKey' = pidKey
         /\ \A d \in Process : pc'[d] = pc[d] \/ (pc[d] = "gone" /\ pc'[d] = "spawned")
         /\ \A d \in Process : d \in asked => d \in asked' \/ pc[d] = "gone"
         /\ flag' => flag \/ \A d \in Process : pc[d] \in Holding => d \in asked'
<1> USE DEF DaemonInv
<1>1. ASSUME Absent(c)
      PROVE  /\ \A d \in Process : pc'[d] = pc[d] \/ (pc[d] = "gone" /\ pc'[d] = "spawned")
             /\ \A d \in Process : d \in asked => d \in asked' \/ pc[d] = "gone"
  BY <1>1 DEF Absent, TypeOK
<1>2. CASE SetFlag(c)
  BY <1>2 DEF SetFlag, daemonVars
<1>3. CASE Probe(c)
  BY <1>3, Distinct DEF Probe
<1>4. CASE ProbeEnds(c)
  BY <1>4, <1>1, Distinct DEF ProbeEnds
<1>5. CASE ReadBeat(c)
  BY <1>5, <1>1 DEF ReadBeat
<1>6. CASE DrainTimesOut(c) \/ WriteAmount(c) \/ WriteDeadline(c)
  BY <1>6 DEF DrainTimesOut, WriteAmount, WriteDeadline, daemonVars
<1>7. CASE ClientDies(c)
  BY <1>7, Distinct DEF ClientDies
<1>8. ASSUME NEW op \in Calls[c], Start(c, op) PROVE UNCHANGED <<daemonVars, flag, asked>>
  BY <1>8 DEF Start
<1> QED BY <1>2, <1>3, <1>4, <1>5, <1>6, <1>7, <1>8 DEF ClientStep, daemonVars

LEMMA ClientKeeps ==
  ASSUME DaemonInv, NEW c \in Client, ClientStep(c)
  PROVE  DaemonInv'
<1>1. TypeOK'
  BY ClientTypes DEF DaemonInv
<1>2. ASSUME NEW d \in Process
      PROVE  /\ holder' = d <=> pc'[d] \in Holding
             /\ pc'[d] \in Up \cup {"closing"} => pidKey' = d
             /\ flag' /\ pc'[d] \in Up => d \in asked'
  BY ClientsLeaveTheLock DEF DaemonInv, Holding, Up, InTick, Closing
<1> QED BY <1>1, <1>2 DEF DaemonInv

\* Where the dispatcher that moves may be after its step, and whom else it disturbs.
LEMMA DaemonMoves ==
  ASSUME DaemonInv, NEW d \in Process, DaemonStep(d)
  PROVE  /\ \A e \in Process \ {d} : pc'[e] = pc[e]
         /\ \A e \in Process \ {d} : holder' = e <=> holder = e
         /\ holder' = d <=> pc'[d] \in Holding
         /\ pidKey' # pidKey => holder = d
         /\ pc'[d] \in Up \cup {"closing"} => pidKey' = d
         /\ flag' => flag /\ (pc'[d] \in Up => pc[d] \in Up)
         /\ asked' = asked
<1> USE DEF DaemonInv
<1>1. CASE Acquire(d)
  BY <1>1, Distinct DEF Acquire, To, TypeOK, Place, Holding, Up, InTick, Closing
<1>2. CASE Begin(d)
  BY <1>2 DEF Begin, To, TypeOK, Holding, Up, InTick, Closing
<1>3. CASE TickBegins(d)
  BY <1>3 DEF TickBegins, To, TypeOK, Holding, Up, InTick, Closing
<1>4. CASE ClearReserve(d)
  BY <1>4 DEF ClearReserve, Blanks, To, TypeOK, Holding, Up, InTick, Closing
<1>5. CASE TickEnds(d)
  BY <1>5 DEF TickEnds, Reads, To, TypeOK, Holding, Up, InTick, Closing
<1>6. CASE Closes(d)
  BY <1>6, Distinct DEF Closes, Close, Gone, To, TypeOK, Holding, Up, InTick, Closing
<1>7. CASE TickFails(d) \/ Hangs(d)
  BY <1>7 DEF TickFails, Hangs, To, TypeOK, Holding, Up, InTick, Closing
<1>8. CASE Watchdog(d) \/ Crash(d)
  BY <1>8, Distinct DEF Watchdog, Crash, Gone, To, TypeOK, Holding, Up, InTick, Closing
<1> QED BY <1>1, <1>2, <1>3, <1>4, <1>5, <1>6, <1>7, <1>8 DEF DaemonStep

LEMMA DaemonKeeps ==
  ASSUME DaemonInv, NEW d \in Process, DaemonStep(d)
  PROVE  DaemonInv'
<1>1. TypeOK'
  BY DaemonTypes DEF DaemonInv
<1>2. ASSUME NEW e \in Process
      PROVE  /\ holder' = e <=> pc'[e] \in Holding
             /\ pc'[e] \in Up \cup {"closing"} => pidKey' = e
             /\ flag' /\ pc'[e] \in Up => e \in asked'
  BY DaemonMoves DEF DaemonInv, Holding, Closing
<1> QED BY <1>1, <1>2 DEF DaemonInv

LEMMA DaemonInit == Init => DaemonInv
<1> SUFFICES ASSUME Init PROVE DaemonInv
  OBVIOUS
<1>1. \A d \in Process : holder # d /\ pc[d] \notin Holding /\ pc[d] \notin Up \cup {"closing"}
  BY Distinct DEF Init, Holding, Up, InTick, Closing
<1> QED BY <1>1, InitTypes DEF DaemonInv

LEMMA DaemonInduction == DaemonInv /\ [Next]_vars => DaemonInv'
<1> SUFFICES ASSUME DaemonInv, [Next]_vars PROVE DaemonInv'
  OBVIOUS
<1>1. ASSUME NEW d \in Process, DaemonStep(d) PROVE DaemonInv'
  BY <1>1, DaemonKeeps
<1>2. ASSUME NEW c \in Client, ClientStep(c) PROVE DaemonInv'
  BY <1>2, ClientKeeps
<1>3. CASE BeatAges \/ Expires
  <2>1. UNCHANGED <<pc, holder, pidKey, flag, asked>>
    BY <1>3 DEF BeatAges, Expires, daemonVars
  <2> QED BY <2>1, TypeStep DEF DaemonInv
<1>4. CASE UNCHANGED vars
  <2>1. UNCHANGED <<pc, holder, pidKey, flag, asked>>
    BY <1>4 DEF vars, daemonVars
  <2> QED BY <2>1, TypeStep DEF DaemonInv
<1> QED BY <1>1, <1>2, <1>3, <1>4, NextCases

\* The lock, the pid key and the request agree with the dispatchers, in every
\* order of starts, probes, requests, crashes and watchdogs.
THEOREM DaemonCorrect == Spec => []DaemonInv
BY DaemonInit, DaemonInduction, PTL DEF Spec

\* The pid in the meta table is that of the dispatcher that serves the profile.
THEOREM PidNamesServer == Spec => []PidNamesHolder
<1>1. DaemonInv => PidNamesHolder
  BY DEF DaemonInv, PidNamesHolder, Holding
<1> QED BY <1>1, DaemonCorrect, PTL

\* A dispatcher stops only by a request made while it was there.
THEOREM StopsByRequest == Spec => StopsWhoWasAsked
<1> DEFINE Asked == \A d \in Process : pc[d] # "closing" /\ pc'[d] = "closing" => d \in asked
<1>1. ASSUME DaemonInv, [Next]_vars PROVE [Asked]_vars
  <2> SUFFICES ASSUME NEW d \in Process, pc[d] # "closing", pc'[d] = "closing", Next
               PROVE  d \in asked
    BY <1>1
  <2>1. PICK e \in Process : DaemonStep(e)
    <3>1. ASSUME NEW c \in Client, ClientStep(c) PROVE FALSE
      BY <3>1, <1>1, ClientsLeaveTheLock
    <3>2. ~BeatAges /\ ~Expires
      BY DEF BeatAges, Expires, daemonVars
    <3> QED BY <3>1, <3>2, NextCases
  <2>2. e = d
    BY <2>1, <1>1, DaemonMoves
  <2>3. Reads(d) /\ flag
    BY <2>1, <2>2, <1>1 DEF DaemonInv, TypeOK, DaemonStep, Acquire, Begin, TickBegins,
       ClearReserve, Blanks, TickEnds, Reads, Closes, Close, TickFails, Hangs, Watchdog,
       Crash, Gone, To
  <2> QED BY <2>3, <1>1 DEF Reads, DaemonInv, Up, InTick
<1> QED BY <1>1, DaemonCorrect, PTL DEF Spec, StopsWhoWasAsked
=============================================================================
