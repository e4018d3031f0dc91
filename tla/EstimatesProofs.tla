--------------------------- MODULE EstimatesProofs ---------------------------
(****************************************************************************)
(* What worker-q learns from past runs, for every history: the types and    *)
(* the scale runs are measured on, the bounds of right-sizing, the advice   *)
(* that settles, durations that are never mixed; and the forecast of a      *)
(* queue made of them, which promises no job a start it does not keep.      *)
(****************************************************************************)
EXTENDS Estimates, Forecast, SumProofs, SequenceTheorems

----------------------------------------------------------------------------
(* Extremes of finite sets.                                                 *)

\* R, total and transitive on S, has a first member.
LEMMA FirstExists ==
  ASSUME NEW S, IsFiniteSet(S), S # {}, NEW R,
         \A x, y \in S : <<x, y>> \in R \/ <<y, x>> \in R,
         \A x, y, z \in S : <<x, y>> \in R /\ <<y, z>> \in R => <<x, z>> \in R
  PROVE  \E x \in S : \A y \in S : <<x, y>> \in R
<1> DEFINE B == {T \in SUBSET S : T # {} /\ ~ \E x \in T : \A y \in T : <<x, y>> \in R}
<1> SUFFICES ASSUME B # {} PROVE FALSE
  OBVIOUS
<1>1. PICK m \in B : \A n \in B : n \subseteq m => n = m
  <2>1. B \subseteq SUBSET S
    OBVIOUS
  <2> HIDE DEF B
  <2> QED BY <2>1, Smallest
<1>2. m \subseteq S /\ m # {} /\ ~ \E x \in m : \A y \in m : <<x, y>> \in R
  BY <1>1
<1>3. PICK a \in m : TRUE
  BY <1>2
<1>4. CASE m \ {a} = {}
  BY <1>2, <1>3, <1>4
<1>5. CASE m \ {a} # {}
  <2>1. m \ {a} \notin B
    <3>1. m \ {a} \subseteq m /\ m \ {a} # m
      BY <1>3
    <3> HIDE DEF B
    <3> QED BY <1>1, <3>1
  <2>2. PICK x \in m \ {a} : \A y \in m \ {a} : <<x, y>> \in R
    BY <1>2, <1>5, <2>1
  <2>3. CASE <<x, a>> \in R
    BY <1>2, <2>2, <2>3
  <2>4. CASE <<a, x>> \in R
    <3>1. \A y \in m : <<a, y>> \in R
      BY <1>2, <1>3, <2>2, <2>4
    <3> QED BY <1>2, <1>3, <3>1
  <2> QED BY <1>2, <1>3, <2>2, <2>3, <2>4
<1> QED BY <1>4, <1>5

LEMMA MaxIs ==
  ASSUME NEW S \in SUBSET Nat, IsFiniteSet(S), S # {}
  PROVE  Max(S) \in S /\ \A y \in S : Max(S) >= y
<1> DEFINE R == {p \in S \X S : p[1] >= p[2]}
<1>1. (\A x, y \in S : <<x, y>> \in R <=> x >= y) /\ \A x \in S : x \in Nat
  OBVIOUS
<1> HIDE DEF R
<1>2. \E x \in S : \A y \in S : <<x, y>> \in R
  <2>1. \A x, y \in S : <<x, y>> \in R \/ <<y, x>> \in R
    <3> TAKE x, y \in S
    <3>1. x >= y \/ y >= x
      BY <1>1
    <3> QED BY <1>1, <3>1
  <2>2. \A x, y, z \in S : <<x, y>> \in R /\ <<y, z>> \in R => <<x, z>> \in R
    BY <1>1
  <2> QED BY <2>1, <2>2, FirstExists
<1>3. \E x \in S : \A y \in S : x >= y
  BY <1>1, <1>2
<1> QED BY <1>3 DEF Max

LEMMA MinIs ==
  ASSUME NEW S \in SUBSET Nat, IsFiniteSet(S), S # {}
  PROVE  Min(S) \in S /\ \A y \in S : Min(S) <= y
<1> DEFINE R == {p \in S \X S : p[1] <= p[2]}
<1>1. (\A x, y \in S : <<x, y>> \in R <=> x <= y) /\ \A x \in S : x \in Nat
  OBVIOUS
<1> HIDE DEF R
<1>2. \E x \in S : \A y \in S : <<x, y>> \in R
  <2>1. \A x, y \in S : <<x, y>> \in R \/ <<y, x>> \in R
    <3> TAKE x, y \in S
    <3>1. x <= y \/ y <= x
      BY <1>1
    <3> QED BY <1>1, <3>1
  <2>2. \A x, y, z \in S : <<x, y>> \in R /\ <<y, z>> \in R => <<x, z>> \in R
    BY <1>1
  <2> QED BY <2>1, <2>2, FirstExists
<1>3. \E x \in S : \A y \in S : x <= y
  BY <1>1, <1>2
<1> QED BY <1>3 DEF Min

LEMMA FiniteImage ==
  ASSUME NEW S, IsFiniteSet(S), NEW f, f = [x \in S |-> f[x]]
  PROVE  IsFiniteSet({f[x] : x \in S})
<1> DEFINE T == {f[x] : x \in S}
<1>1. f \in [S -> T]
  OBVIOUS
<1>2. f \in Surjection(S, T)
  BY <1>1 DEF Surjection
<1> QED BY <1>2, FS_Surjection

LEMMA CeilDivBounds ==
  ASSUME NEW a \in Nat, NEW b \in Nat \ {0}
  PROVE  /\ CeilDiv(a, b) \in Nat
         /\ CeilDiv(a, b) * b >= a /\ (CeilDiv(a, b) - 1) * b < a
<1> DEFINE n == a + b - 1
           q == n \div b
<1>1. n \in Nat
  OBVIOUS
<1>2. q \in Nat /\ n % b \in 0 .. b - 1 /\ n = b * q + (n % b)
  BY <1>1
<1> HIDE DEF q
<1>3. q * b >= a /\ (q - 1) * b < a
  BY <1>2
<1> QED BY <1>2, <1>3 DEF CeilDiv, q

----------------------------------------------------------------------------
(* Types.                                                                   *)

LEMMA InitInv == Init => EstimatesInv
  BY DEF Init, EstimatesInv, TypeOK, None

LEMMA HistTyped ==
  ASSUME EstimatesInv
  PROVE  /\ \A i \in DOMAIN hist :
              hist[i] \in Run /\ (~ Torn(hist[i]) => hist[i].declared = hist[i].wrote)
         /\ IsFiniteSet(DOMAIN hist)
<1>1. hist \in Seq(Run)
  BY DEF EstimatesInv, TypeOK
<1>2. DOMAIN hist = 1 .. Len(hist) /\ Len(hist) \in Nat
  BY <1>1
<1>3. IsFiniteSet(1 .. Len(hist))
  BY <1>2, FS_Interval
<1> QED BY <1>1, <1>2, <1>3 DEF EstimatesInv

LEMMA RunTyped ==
  ASSUME EstimatesInv, NEW i \in DOMAIN hist
  PROVE  /\ hist[i].took \in Nat /\ hist[i].peak \in Nat
         /\ hist[i].wrote \in Nat \ {0} /\ hist[i].declared \in Nat \ {0}
         /\ ~ Torn(hist[i]) => hist[i].declared = hist[i].wrote
  BY HistTyped DEF Run

\* What the queries of right-sizing and of the estimates read.
LEMMA ReadSets ==
  /\ Counted \subseteq DOMAIN hist /\ Measured \subseteq DOMAIN hist /\ Basis \subseteq DOMAIN hist
  /\ \A S : Succeeded(S) \subseteq DOMAIN hist
  BY DEF Counted, Measured, Basis, Succeeded, Newest

LEMMA HistSets ==
  ASSUME EstimatesInv, NEW S \in SUBSET DOMAIN hist
  PROVE  IsFiniteSet(S) /\ Cardinality(S) \in Nat
  BY HistTyped, FS_Subset, FS_CardinalityType

LEMMA RatiosChain ==
  ASSUME NEW a \in Nat, NEW b \in Nat \ {0}, NEW c \in Nat, NEW d \in Nat \ {0},
         NEW e \in Nat, NEW f \in Nat \ {0}, a * d >= c * b, c * f >= e * d
  PROVE  a * f >= e * b
<1>1. (a * d) * f >= (c * b) * f
  <2> DEFINE x == a * d
             y == c * b
  <2>1. x \in Nat /\ y \in Nat /\ x >= y
    OBVIOUS
  <2> HIDE DEF x, y
  <2>2. x * f >= y * f
    BY <2>1
  <2> QED BY <2>2 DEF x, y
<1>2. (c * f) * b >= (e * d) * b
  <2> DEFINE x == c * f
             y == e * d
  <2>1. x \in Nat /\ y \in Nat /\ x >= y
    OBVIOUS
  <2> HIDE DEF x, y
  <2>2. x * b >= y * b
    BY <2>1
  <2> QED BY <2>2 DEF x, y
<1>3. (c * b) * f = (c * f) * b
  OBVIOUS
<1>4. (a * f) * d >= (e * b) * d
  <2>1. (a * d) * f = (a * f) * d /\ (e * d) * b = (e * b) * d
    OBVIOUS
  <2>2. (a * d) * f \in Nat /\ (c * b) * f \in Nat /\ (e * d) * b \in Nat
    OBVIOUS
  <2> QED BY <1>1, <1>2, <1>3, <2>1, <2>2
<1> DEFINE x == a * f
           y == e * b
<1>5. x \in Nat /\ y \in Nat /\ x * d >= y * d
  BY <1>4
<1> HIDE DEF x, y
<1>6. x >= y
  BY <1>5
<1> QED BY <1>6 DEF x, y

\* There is a run that used the largest part of what it declared.
LEMMA WorstIs ==
  ASSUME EstimatesInv, Counted # {}
  PROVE  \E w \in Counted :
           /\ Worst = hist[w]
           /\ \A i \in Counted : hist[w].peak * hist[i].declared >= hist[i].peak * hist[w].declared
<1> DEFINE R == {p \in Counted \X Counted :
                   hist[p[1]].peak * hist[p[2]].declared >= hist[p[2]].peak * hist[p[1]].declared}
<1>1. \A x, y \in Counted :
        <<x, y>> \in R <=> hist[x].peak * hist[y].declared >= hist[y].peak * hist[x].declared
  OBVIOUS
<1> HIDE DEF R
<1>2. Counted \in SUBSET DOMAIN hist /\ IsFiniteSet(Counted)
  BY ReadSets, HistSets
<1>3. \A i \in Counted : hist[i].peak \in Nat /\ hist[i].declared \in Nat \ {0}
  BY <1>2, RunTyped
<1>4. \A x, y \in Counted : <<x, y>> \in R \/ <<y, x>> \in R
  <2> TAKE x, y \in Counted
  <2>1. hist[x].peak * hist[y].declared \in Nat /\ hist[y].peak * hist[x].declared \in Nat
    BY <1>3
  <2> QED BY <1>1, <2>1
<1>5. \A x, y, z \in Counted : <<x, y>> \in R /\ <<y, z>> \in R => <<x, z>> \in R
  <2> SUFFICES ASSUME NEW x \in Counted, NEW y \in Counted, NEW z \in Counted,
                      <<x, y>> \in R, <<y, z>> \in R
               PROVE  <<x, z>> \in R
    OBVIOUS
  <2>1. /\ hist[x].peak * hist[y].declared >= hist[y].peak * hist[x].declared
        /\ hist[y].peak * hist[z].declared >= hist[z].peak * hist[y].declared
    BY <1>1
  <2>2. hist[x].peak * hist[z].declared >= hist[z].peak * hist[x].declared
    BY <1>3, <2>1, RatiosChain
  <2> QED BY <1>1, <2>2
<1>6. \E w \in Counted : \A k \in Counted : <<w, k>> \in R
  BY <1>2, <1>4, <1>5, FirstExists
<1>7. \E w \in Counted : \A k \in Counted :
        hist[w].peak * hist[k].declared >= hist[k].peak * hist[w].declared
  BY <1>1, <1>6
<1> DEFINE w == CHOOSE i \in Counted :
                  \A k \in Counted : hist[i].peak * hist[k].declared >= hist[k].peak * hist[i].declared
<1>8. /\ w \in Counted
      /\ \A k \in Counted : hist[w].peak * hist[k].declared >= hist[k].peak * hist[w].declared
  BY <1>7
<1>9. Worst = hist[w]
  BY DEF Worst
<1> HIDE DEF w
<1> QED BY <1>8, <1>9

\* What is reserved: the declaration itself, or less once there is history.
LEMMA TrimmedIs ==
  ASSUME EstimatesInv, NEW asks \in Nat \ {0}
  PROVE  /\ Trimmed(asks) \in Nat \ {0} /\ Trimmed(asks) <= asks
         /\ Trimmed(asks) < asks =>
              /\ Counted # {}
              /\ Trimmed(asks) = Larger(Floor, CeilDiv(3 * asks * Worst.peak, 2 * Worst.declared))
<1> DEFINE t == Larger(Floor, CeilDiv(3 * asks * Worst.peak, 2 * Worst.declared))
<1>1. CASE Cardinality(Counted) < Larger(1, MinRuns)
  BY <1>1 DEF Trimmed
<1>2. CASE ~(Cardinality(Counted) < Larger(1, MinRuns))
  <2>1. Counted # {}
    <3>1. Counted \in SUBSET DOMAIN hist
      BY ReadSets
    <3>2. Cardinality(Counted) \in Nat /\ MinRuns \in Nat
      BY <3>1, HistSets, EstimatesAssumption
    <3>3. Cardinality(Counted) >= 1
      BY <1>2, <3>2 DEF Larger
    <3> QED BY <3>3, FS_EmptySet
  <2>2. PICK w \in Counted : Worst = hist[w]
    BY <2>1, WorstIs
  <2>3. Worst.peak \in Nat /\ Worst.declared \in Nat \ {0}
    BY <2>2, ReadSets, RunTyped
  <2>4. 3 * asks * Worst.peak \in Nat /\ 2 * Worst.declared \in Nat \ {0}
    BY <2>3
  <2>5. t \in Nat \ {0}
    <3> DEFINE q == CeilDiv(3 * asks * Worst.peak, 2 * Worst.declared)
    <3>1. q \in Nat
      BY <2>4, CeilDivBounds
    <3> HIDE DEF q
    <3>2. Larger(Floor, q) \in Nat \ {0}
      BY <3>1 DEF Larger, Floor
    <3> QED BY <3>2 DEF q
  <2>6. Trimmed(asks) = IF 5 * t > 4 * asks THEN asks ELSE t
    BY <1>2 DEF Trimmed
  <2> HIDE DEF t
  <2>7. Trimmed(asks) \in Nat \ {0} /\ Trimmed(asks) <= asks
    BY <2>5, <2>6
  <2>8. Trimmed(asks) < asks => Trimmed(asks) = t
    BY <2>5, <2>6
  <2> QED BY <2>1, <2>7, <2>8 DEF t
<1> QED BY <1>1, <1>2

LEMMA SubmitStep ==
  ASSUME EstimatesInv, NEW j \in Job, NEW asks \in Asks, NEW exact \in BOOLEAN,
         Submit(j, asks, exact)
  PROVE  EstimatesInv'
<1> DEFINE asked == IF exact THEN asks ELSE Trimmed(asks)
           r == [st |-> "queued", node |-> Here, asked |-> asked,
                 declared |-> IF asked < asks THEN asks ELSE Null,
                 wrote |-> asks, unrecorded |-> {}, crossed |-> FALSE,
                 peak |-> Null, well |-> FALSE, used |-> Null, seen |-> FALSE]
<1>1. asks \in Nat \ {0} /\ Here \in Machines
  BY EstimatesAssumption
<1>2. asked \in Nat \ {0} /\ asked <= asks
  BY <1>1, TrimmedIs
<1>3. job' = [job EXCEPT ![j] = r] /\ hist' = hist
  BY DEF Submit
<1> HIDE DEF asked
<1>4. r \in Row /\ Declares(r) /\ Corrects(r)
  BY <1>1, <1>2 DEF Row, Declares, Corrects, Torn, Null
<1> HIDE DEF r
<1> QED BY <1>3, <1>4 DEF EstimatesInv, TypeOK

LEMMA JobTyped ==
  ASSUME EstimatesInv, NEW j \in Job, job[j] # None
  PROVE  job[j] \in Row /\ Declares(job[j]) /\ Corrects(job[j])
  BY DEF EstimatesInv, TypeOK

LEMMA StateIsNotNone == \A r : r.st \in {"queued", "running"} => r # None
  BY DEF None

\* A step that leaves the history alone and keeps what one row declares.
LEMMA RowStep ==
  ASSUME EstimatesInv, NEW j \in Job, NEW r \in Row, Declares(r), Corrects(r),
         job' = [job EXCEPT ![j] = r], hist' = hist
  PROVE  EstimatesInv'
  BY DEF EstimatesInv, TypeOK

LEMMA CorrectStep ==
  ASSUME EstimatesInv, NEW j \in Job, NEW asks \in Asks, Correct(j, asks)
  PROVE  EstimatesInv'
<1> DEFINE u == job[j].unrecorded \cup {asks}
           c == job[j].crossed \/ job[j].unrecorded # {}
           r == [job[j] EXCEPT !.wrote = asks, !.unrecorded = u, !.crossed = c]
<1>1. /\ job[j] \in Row /\ Declares(job[j]) /\ Corrects(job[j])
      /\ asks \in Nat \ {0}
  BY JobTyped, StateIsNotNone, EstimatesAssumption DEF Correct
<1>2. job' = [job EXCEPT ![j] = r] /\ hist' = hist
  BY DEF Correct
<1>3. u \in SUBSET (Nat \ {0}) /\ u # {} /\ c \in BOOLEAN /\ (~ c => u \subseteq {asks})
  BY <1>1 DEF Row
<1> HIDE DEF u, c
<1>4. r \in Row /\ Declares(r) /\ Corrects(r)
  BY <1>1, <1>3 DEF Row, Declares, Corrects, Torn
<1> HIDE DEF r
<1> QED BY <1>2, <1>4, RowStep

LEMMA RecordStep ==
  ASSUME EstimatesInv, NEW j \in Job, NEW asks \in Asks, Record(j, asks)
  PROVE  EstimatesInv'
<1> DEFINE u == job[j].unrecorded \ {asks}
           r == [job[j] EXCEPT !.asked = asks, !.declared = Null, !.unrecorded = u]
<1>1. /\ job[j] \in Row /\ Declares(job[j]) /\ Corrects(job[j])
      /\ asks \in Nat \ {0} /\ asks \in job[j].unrecorded
  BY JobTyped, EstimatesAssumption DEF Record
<1>2. job' = [job EXCEPT ![j] = r] /\ hist' = hist
  BY DEF Record
<1>3. /\ u \in SUBSET (Nat \ {0}) /\ u \subseteq job[j].unrecorded
      /\ ~ job[j].crossed => asks = job[j].wrote
  BY <1>1 DEF Row, Corrects
<1> HIDE DEF u
<1>4. r \in Row /\ Corrects(r)
  BY <1>1, <1>3 DEF Row, Corrects, Null
<1>5. Declares(r)
  BY <1>1, <1>3 DEF Row, Declares, Torn, Null
<1> HIDE DEF r
<1> QED BY <1>2, <1>4, <1>5, RowStep

LEMMA RecordLateStep ==
  ASSUME EstimatesInv, NEW i \in DOMAIN hist, NEW asks \in Asks, RecordLate(i, asks)
  PROVE  EstimatesInv'
<1> DEFINE u == hist[i].unrecorded \ {asks}
           r == [hist[i] EXCEPT !.declared = asks, !.unrecorded = u]
<1>1. /\ hist[i] \in Run /\ Corrects(hist[i]) /\ hist \in Seq(Run)
      /\ asks \in Nat \ {0} /\ asks \in hist[i].unrecorded
  BY HistTyped, EstimatesAssumption DEF RecordLate, EstimatesInv, TypeOK
<1>2. hist' = [hist EXCEPT ![i] = r] /\ job' = job
  BY DEF RecordLate
<1>3. /\ u \in SUBSET (Nat \ {0}) /\ u \subseteq hist[i].unrecorded
      /\ ~ hist[i].crossed => asks = hist[i].wrote
  BY <1>1 DEF Run, Corrects
<1> HIDE DEF u
<1>4. r \in Run /\ Corrects(r) /\ (~ Torn(r) => r.declared = r.wrote)
  BY <1>1, <1>3 DEF Run, Corrects, Torn
<1> HIDE DEF r
<1>5. /\ hist' \in Seq(Run) /\ DOMAIN hist' = DOMAIN hist
      /\ \A k \in DOMAIN hist : hist'[k] = IF k = i THEN r ELSE hist[k]
  BY <1>1, <1>2, <1>4
<1>6. \A k \in DOMAIN hist' :
        Corrects(hist'[k]) /\ (~ Torn(hist'[k]) => hist'[k].declared = hist'[k].wrote)
  BY <1>4, <1>5 DEF EstimatesInv
<1> QED BY <1>2, <1>5, <1>6 DEF EstimatesInv, TypeOK

LEMMA StartStep ==
  ASSUME EstimatesInv, NEW j \in Job, NEW n \in Machines, Start(j, n)
  PROVE  EstimatesInv'
<1> DEFINE r == [job[j] EXCEPT !.st = "running", !.node = n]
<1>1. job[j] \in Row /\ Declares(job[j]) /\ Corrects(job[j])
  BY JobTyped, StateIsNotNone DEF Start
<1>2. job' = [job EXCEPT ![j] = r] /\ hist' = hist
  BY DEF Start
<1>3. r \in Row /\ Declares(r) /\ Corrects(r)
  BY <1>1 DEF Row, Declares, Corrects, Torn
<1> HIDE DEF r
<1> QED BY <1>2, <1>3, RowStep

LEMMA MeasureStep ==
  ASSUME EstimatesInv, NEW j \in Job, NEW mem \in Peaks, NEW well \in BOOLEAN,
         Measure(j, mem, well)
  PROVE  EstimatesInv'
<1> DEFINE p == IF job[j].node = Here THEN mem ELSE job[j].peak
           w == IF job[j].node = Here THEN well ELSE job[j].well
           r == [job[j] EXCEPT !.used = mem, !.seen = well, !.peak = p, !.well = w]
<1>1. job[j] \in Row /\ Declares(job[j]) /\ Corrects(job[j]) /\ mem \in Nat
  BY JobTyped, StateIsNotNone, EstimatesAssumption DEF Measure
<1>2. job' = [job EXCEPT ![j] = r] /\ hist' = hist
  BY DEF Measure
<1>3. p \in Nat /\ w \in BOOLEAN
  BY <1>1 DEF Row
<1> HIDE DEF p, w
<1>4. r \in Row /\ Declares(r) /\ Corrects(r)
  BY <1>1, <1>3 DEF Row, Declares, Corrects, Torn
<1> HIDE DEF r
<1> QED BY <1>2, <1>4, RowStep

LEMMA DisplaceStep ==
  ASSUME EstimatesInv, NEW j \in Job, Displace(j)
  PROVE  EstimatesInv'
<1> DEFINE r == [job[j] EXCEPT !.st = "queued", !.used = Null, !.seen = FALSE]
<1>1. job[j] \in Row /\ Declares(job[j]) /\ Corrects(job[j])
  BY JobTyped, StateIsNotNone DEF Displace
<1>2. job' = [job EXCEPT ![j] = r] /\ hist' = hist
  BY DEF Displace
<1>3. r \in Row /\ Declares(r) /\ Corrects(r)
  BY <1>1 DEF Row, Declares, Corrects, Torn, Null
<1> HIDE DEF r
<1> QED BY <1>2, <1>3, RowStep

LEMMA EndsStep ==
  ASSUME EstimatesInv, NEW j \in Job, NEW ok \in BOOLEAN, NEW took \in Takes, Ends(j, ok, took)
  PROVE  EstimatesInv'
<1> DEFINE d == IF job[j].declared = Null THEN job[j].asked ELSE job[j].declared
           p == IF Adopts(j) THEN job[j].used ELSE job[j].peak
           w == IF Adopts(j) THEN job[j].seen ELSE job[j].well
           r == [node |-> job[j].node, ok |-> ok, took |-> took, declared |-> d,
                 wrote |-> job[j].wrote, unrecorded |-> job[j].unrecorded,
                 crossed |-> job[j].crossed, peak |-> p, well |-> w]
<1>1. job[j] \in Row /\ Declares(job[j]) /\ Corrects(job[j]) /\ took \in Nat
  BY JobTyped, StateIsNotNone, EstimatesAssumption DEF Ends
<1>2. hist' = Append(hist, r) /\ job' = [job EXCEPT ![j] = None]
  BY DEF Ends
<1>3. /\ d \in Nat \ {0} /\ p \in Nat /\ w \in BOOLEAN
      /\ ~ Torn(job[j]) => d = job[j].wrote
  BY <1>1 DEF Row, Declares, Null
<1> HIDE DEF d, p, w
<1>4. r \in Run /\ Corrects(r) /\ (~ Torn(r) => r.declared = r.wrote)
  BY <1>1, <1>3 DEF Run, Row, Corrects, Torn
<1> HIDE DEF r
<1>5. hist \in Seq(Run)
  BY DEF EstimatesInv, TypeOK
<1>6. /\ hist' \in Seq(Run)
      /\ \A i \in DOMAIN hist' :
           Corrects(hist'[i]) /\ (~ Torn(hist'[i]) => hist'[i].declared = hist'[i].wrote)
  BY <1>2, <1>4, <1>5 DEF EstimatesInv
<1> QED BY <1>2, <1>6 DEF EstimatesInv, TypeOK

LEMMA ForgetsStep ==
  ASSUME EstimatesInv, Forgets
  PROVE  EstimatesInv'
<1>1. hist \in Seq(Run) /\ hist # <<>> /\ hist' = Tail(hist) /\ job' = job
  BY DEF EstimatesInv, TypeOK, Forgets
<1>2. /\ hist' \in Seq(Run)
      /\ \A i \in DOMAIN hist' :
           Corrects(hist'[i]) /\ (~ Torn(hist'[i]) => hist'[i].declared = hist'[i].wrote)
  BY <1>1 DEF EstimatesInv
<1> QED BY <1>1, <1>2 DEF EstimatesInv, TypeOK

LEMMA InvStep ==
  ASSUME EstimatesInv, [Next]_vars
  PROVE  EstimatesInv'
<1>1. CASE UNCHANGED vars
  BY <1>1 DEF vars, EstimatesInv, TypeOK
<1>2. CASE Next
  BY <1>2, SubmitStep, CorrectStep, RecordStep, RecordLateStep, StartStep, MeasureStep,
     DisplaceStep, EndsStep, ForgetsStep DEF Next
<1> QED BY <1>1, <1>2

\* Rows and history keep their types, and every run in the history is measured
\* against what its submitter last wrote, however often the job was trimmed,
\* corrected, displaced or sent away, and even if the second write of a correction
\* came after its end; unless that write is missing, or two corrections crossed
\* (submit, set_requests).
THEOREM RunsKeepTheirScale == Spec => []EstimatesInv
<1> QED BY InitInv, InvStep, PTL DEF Spec

----------------------------------------------------------------------------
(* Right-sizing.                                                            *)

\* A reservation that covers half as much again as the worst run used covers
\* every counted run, at its own scale.
LEMMA CoversAll ==
  ASSUME NEW asked \in Nat, NEW asks \in Nat \ {0}, NEW p \in Nat, NEW d \in Nat \ {0},
         NEW pi \in Nat, NEW di \in Nat \ {0},
         asked * (2 * d) >= 3 * asks * p, p * di >= pi * d
  PROVE  asked * di >= pi * asks
<1>1. (2 * asked) * d >= (3 * asks) * p
  BY Z3
<1>2. ((3 * asks) * p) * 1 = (3 * asks) * p /\ 3 * asks \in Nat \ {0} /\ 2 * asked \in Nat
  OBVIOUS
<1>3. (3 * asks) * (p * di) >= (3 * asks) * (pi * d)
  <2> DEFINE x == p * di
             y == pi * d
             k == 3 * asks
  <2>1. x \in Nat /\ y \in Nat /\ x >= y /\ k \in Nat
    OBVIOUS
  <2> HIDE DEF x, y, k
  <2>2. k * x >= k * y
    BY <2>1
  <2> QED BY <2>2 DEF x, y, k
<1>4. ((2 * asked) * d) * di >= ((3 * asks) * p) * di
  <2> DEFINE x == (2 * asked) * d
             y == (3 * asks) * p
  <2>1. x \in Nat /\ y \in Nat /\ x >= y
    BY <1>1
  <2> HIDE DEF x, y
  <2>2. x * di >= y * di
    BY <2>1
  <2> QED BY <2>2 DEF x, y
<1>5. ((2 * asked) * di) * d >= ((3 * asks) * pi) * d
  <2>1. /\ ((2 * asked) * d) * di = ((2 * asked) * di) * d
        /\ ((3 * asks) * p) * di = (3 * asks) * (p * di)
        /\ (3 * asks) * (pi * d) = ((3 * asks) * pi) * d
    OBVIOUS
  <2>2. /\ ((2 * asked) * di) * d \in Nat /\ ((3 * asks) * pi) * d \in Nat
        /\ (3 * asks) * (p * di) \in Nat
    OBVIOUS
  <2> QED BY <1>3, <1>4, <2>1, <2>2
<1>6. (2 * asked) * di >= (3 * asks) * pi
  <2> DEFINE x == (2 * asked) * di
             y == (3 * asks) * pi
  <2>1. x \in Nat /\ y \in Nat /\ x * d >= y * d
    BY <1>5
  <2> HIDE DEF x, y
  <2>2. x >= y
    BY <2>1
  <2> QED BY <2>2 DEF x, y
<1>7. (2 * asked) * di = 2 * (asked * di) /\ (3 * asks) * pi = 3 * (pi * asks)
  OBVIOUS
<1> DEFINE x == asked * di
           y == pi * asks
<1>8. x \in Nat /\ y \in Nat /\ 2 * x >= 3 * y
  BY <1>6, <1>7
<1> HIDE DEF x, y
<1>9. x >= y
  BY <1>8
<1> QED BY <1>9 DEF x, y

LEMMA TrimBounds ==
  ASSUME EstimatesInv, NEW asks \in Nat \ {0}, Trimmed(asks) < asks
  PROVE  /\ \A i \in Counted : Trimmed(asks) * hist[i].declared >= hist[i].peak * asks
         /\ \/ Trimmed(asks) = Floor
            \/ \E i \in Counted :
                 2 * (Trimmed(asks) - 1) * hist[i].declared < 3 * hist[i].peak * asks
<1>1. /\ Counted # {} /\ Trimmed(asks) \in Nat
      /\ Trimmed(asks) = Larger(Floor, CeilDiv(3 * asks * Worst.peak, 2 * Worst.declared))
  BY TrimmedIs
<1>2. PICK w \in Counted :
        /\ Worst = hist[w]
        /\ \A i \in Counted : hist[w].peak * hist[i].declared >= hist[i].peak * hist[w].declared
  BY <1>1, WorstIs
<1> DEFINE t == Trimmed(asks)
           p == hist[w].peak
           d == hist[w].declared
           q == CeilDiv(3 * asks * p, 2 * d)
<1>3. /\ p \in Nat /\ d \in Nat \ {0}
      /\ \A i \in Counted : hist[i].peak \in Nat /\ hist[i].declared \in Nat \ {0}
  BY ReadSets, RunTyped
<1>4. t = Larger(Floor, q)
  BY <1>1, <1>2
<1>5. 3 * asks * p \in Nat /\ 2 * d \in Nat \ {0}
  BY <1>3
<1>6. q \in Nat /\ q * (2 * d) >= 3 * asks * p /\ (q - 1) * (2 * d) < 3 * asks * p
  BY <1>5, CeilDivBounds
<1> HIDE DEF t, q, p, d
<1>7. t \in Nat /\ t >= q /\ (t = Floor \/ t = q)
  BY <1>4, <1>6 DEF Larger, Floor
<1>8. t * (2 * d) >= 3 * asks * p
  <2> DEFINE k == 2 * d
  <2>1. k \in Nat
    BY <1>3
  <2> HIDE DEF k
  <2>2. t * k >= q * k
    BY <1>6, <1>7, <2>1
  <2>3. t * k \in Nat /\ q * k \in Nat
    BY <1>6, <1>7, <2>1
  <2>4. q * k >= 3 * asks * p
    BY <1>6 DEF k
  <2> QED BY <1>5, <2>2, <2>3, <2>4 DEF k
<1>9. \A i \in Counted : t * hist[i].declared >= hist[i].peak * asks
  BY <1>2, <1>3, <1>7, <1>8, CoversAll DEF p, d
<1>10. t = q => 2 * (t - 1) * d < 3 * p * asks
  <2>1. (q - 1) * (2 * d) = 2 * (q - 1) * d /\ 3 * asks * p = 3 * p * asks
    BY <1>3, <1>6
  <2> QED BY <1>6, <2>1
<1> QED BY <1>2, <1>7, <1>9, <1>10 DEF t, p, d

\* A row appears only by a submission.
LEMMA TrimStep ==
  ASSUME EstimatesInv, [Next]_vars, NEW j \in Job,
         job[j] = None, job'[j] # None, job'[j].asked < job'[j].wrote
  PROVE  /\ \A i \in Counted :
              \/ Torn(hist[i])
              \/ job'[j].asked * hist[i].wrote >= hist[i].peak * job'[j].wrote
         /\ \/ job'[j].asked = Floor
            \/ \E i \in Counted :
                 \/ Torn(hist[i])
                 \/ 2 * (job'[j].asked - 1) * hist[i].wrote < 3 * hist[i].peak * job'[j].wrote
<1>1. job \in [Job -> Row \cup {None}]
  BY DEF EstimatesInv, TypeOK
<1>2. \E asks \in Asks, exact \in BOOLEAN : Submit(j, asks, exact)
  <2>1. ASSUME NEW k \in Job, job[k].st \in {"queued", "running"} PROVE k # j
    BY <2>1, StateIsNotNone
  <2>2. ASSUME NEW k \in Job, NEW r, k # j, job' = [job EXCEPT ![k] = r] PROVE FALSE
    BY <1>1, <2>2
  <2>3. CASE UNCHANGED vars \/ Forgets
    BY <2>3 DEF vars, Forgets
  <2>4. ASSUME NEW k \in Job, NEW asks \in Asks, Correct(k, asks) PROVE FALSE
    BY <2>1, <2>2, <2>4 DEF Correct
  <2>5. ASSUME NEW k \in Job, NEW n \in Machines, Start(k, n) PROVE FALSE
    BY <2>1, <2>2, <2>5 DEF Start
  <2>6. ASSUME NEW k \in Job, NEW mem \in Peaks, NEW well \in BOOLEAN, Measure(k, mem, well)
        PROVE  FALSE
    BY <2>1, <2>2, <2>6 DEF Measure
  <2>7. ASSUME NEW k \in Job, Displace(k) PROVE FALSE
    BY <2>1, <2>2, <2>7 DEF Displace
  <2>8. ASSUME NEW k \in Job, NEW ok \in BOOLEAN, NEW took \in Takes, Ends(k, ok, took)
        PROVE  FALSE
    BY <2>1, <2>2, <2>8 DEF Ends
  <2>9. ASSUME NEW k \in Job, NEW asks \in Asks, NEW exact \in BOOLEAN, Submit(k, asks, exact)
        PROVE  k = j
    BY <2>2, <2>9 DEF Submit
  <2>10. ASSUME NEW k \in Job, NEW asks \in Asks, Record(k, asks) PROVE FALSE
    BY <2>2, <2>10 DEF Record
  <2>11. ASSUME NEW i \in DOMAIN hist, NEW asks \in Asks, RecordLate(i, asks) PROVE FALSE
    BY <2>11 DEF RecordLate
  <2> QED BY <2>3, <2>4, <2>5, <2>6, <2>7, <2>8, <2>9, <2>10, <2>11 DEF Next
<1>3. PICK asks \in Asks, exact \in BOOLEAN : Submit(j, asks, exact)
  BY <1>2
<1>4. asks \in Nat \ {0}
  BY EstimatesAssumption
<1>5. /\ job'[j].wrote = asks
      /\ job'[j].asked = IF exact THEN asks ELSE Trimmed(asks)
  BY <1>1, <1>3 DEF Submit
<1>6. job'[j].asked = Trimmed(asks) /\ Trimmed(asks) < asks
  BY <1>4, <1>5
<1>7. \A i \in Counted : Torn(hist[i]) \/ hist[i].declared = hist[i].wrote
  BY ReadSets, RunTyped
<1> QED BY <1>4, <1>5, <1>6, <1>7, TrimBounds

\* What a trimmed submission is reserved covers every run that was read at its
\* scale, and exceeds the worst by half at most (_right_size).
THEOREM TrimIsBounded == Spec => TrimFollowsHistory
<1>1. ASSUME EstimatesInv, [Next]_vars
      PROVE  [\A j \in Job :
                LET new == job'[j] IN
                job[j] = None /\ new # None /\ new.asked < new.wrote =>
                  /\ \A i \in Counted :
                       Torn(hist[i]) \/ new.asked * hist[i].wrote >= hist[i].peak * new.wrote
                  /\ \/ new.asked = Floor
                     \/ \E i \in Counted :
                          \/ Torn(hist[i])
                          \/ 2 * (new.asked - 1) * hist[i].wrote < 3 * hist[i].peak * new.wrote]_vars
  BY <1>1, TrimStep
<1> QED BY <1>1, RunsKeepTheirScale, PTL DEF Spec, TrimFollowsHistory

----------------------------------------------------------------------------
(* Advice.                                                                  *)

\* The newest of some runs is among the newest of them.
LEMMA NewestIs ==
  ASSUME EstimatesInv, NEW S \in SUBSET DOMAIN hist, S # {}, NEW n \in Nat \ {0}
  PROVE  Newest(S, n) # {}
<1>1. S \in SUBSET Nat /\ IsFiniteSet(S)
  <2>1. hist \in Seq(Run)
    BY DEF EstimatesInv, TypeOK
  <2> QED BY <2>1, HistSets
<1> DEFINE m == Max(S)
<1>2. m \in S /\ \A k \in S : m >= k
  BY <1>1, MaxIs
<1> HIDE DEF m
<1>3. {k \in S : k > m} = {}
  BY <1>1, <1>2
<1>4. Cardinality({k \in S : k > m}) < n
  BY <1>3, FS_EmptySet
<1> QED BY <1>2, <1>4 DEF Newest

LEMMA LearnedIs ==
  ASSUME EstimatesInv, Measured # {}
  PROVE  LearnedPeak \in Nat
<1> DEFINE P == {hist[i].peak : i \in Basis}
<1>1. Basis \in SUBSET DOMAIN hist /\ Basis # {}
  <2> DEFINE S == IF Proven THEN {i \in Measured : hist[i].ok} ELSE Measured
  <2>1. S \in SUBSET DOMAIN hist /\ S # {}
    BY DEF Proven, Measured
  <2>2. Basis = Newest(S, Recent)
    BY DEF Basis
  <2> HIDE DEF S
  <2> QED BY <2>1, <2>2, ReadSets, NewestIs, EstimatesAssumption
<1>2. IsFiniteSet(P)
  <2> DEFINE f == [i \in Basis |-> hist[i].peak]
  <2>1. f = [i \in Basis |-> f[i]] /\ P = {f[i] : i \in Basis}
    OBVIOUS
  <2>2. IsFiniteSet(Basis)
    BY <1>1, HistSets
  <2> HIDE DEF f, P
  <2> QED BY <2>1, <2>2, FiniteImage
<1>3. P \in SUBSET Nat /\ P # {}
  BY <1>1, RunTyped
<1> HIDE DEF P
<1>4. Max(P) \in P
  BY <1>2, <1>3, MaxIs
<1> QED BY <1>3, <1>4 DEF LearnedPeak, P

LEMMA MinOfTwo ==
  ASSUME NEW a \in Nat, NEW b \in Nat
  PROVE  Min({a, b}) = IF a <= b THEN a ELSE b
<1>1. IsFiniteSet({a, b})
  <2>1. IsFiniteSet({a}) /\ {a, b} = {a} \cup {b}
    BY FS_Singleton
  <2> QED BY <2>1, FS_AddElement
<1>2. Min({a, b}) \in {a, b} /\ \A y \in {a, b} : Min({a, b}) <= y
  BY <1>1, MinIs
<1> QED BY <1>2

\* What is suggested is a whole number of GiB, accepted, and enough for the worst
\* run if the machine has it.
LEMMA SuggestedIs ==
  ASSUME NEW mem \in Nat
  PROVE  /\ Suggested(mem) \in Nat \ {0} /\ Possible(Suggested(mem))
         /\ mem <= 2 * (Usable \div 2) => Suggested(mem) >= mem
<1> DEFINE h == Usable \div 2
           c == CeilDiv(3 * mem, 4)
           l == Larger(Floor \div 2, c)
<1>1. h \in Nat \ {0} /\ 2 * h <= Usable
  BY EstimatesAssumption
<1>2. c \in Nat /\ c * 4 >= 3 * mem
  BY CeilDivBounds
<1>3. l \in Nat \ {0} /\ l >= c
  BY <1>2 DEF Larger, Floor
<1> HIDE DEF h, c, l
<1>4. Min({l, h}) = IF l <= h THEN l ELSE h
  BY <1>1, <1>3, MinOfTwo
<1>5. Suggested(mem) = 2 * Min({l, h})
  BY DEF Suggested, h, c, l
<1>6. Suggested(mem) = IF l <= h THEN 2 * l ELSE 2 * h
  BY <1>4, <1>5
<1>7. Suggested(mem) \in Nat \ {0} /\ Suggested(mem) <= Usable
  BY <1>1, <1>3, <1>6, EstimatesAssumption
<1>8. mem <= 2 * h => Suggested(mem) >= mem
  BY <1>1, <1>2, <1>3, <1>6
<1> QED BY <1>7, <1>8 DEF Possible, h

\* The number that advice gives is one that submit and set_requests accept; a job
\* whose submitter gave it and that is reserved it is not advised about again, and
\* one that was trimmed is never advised to be lowered (_history_advisories,
\* _with_headroom).
THEOREM AdviceIsFinal == Spec => []AdviceSettles
<1>1. EstimatesInv => AdviceSettles
  <2> DEFINE n == Suggested(LearnedPeak)
  <2> SUFFICES ASSUME EstimatesInv, Measured # {}
               PROVE  /\ Possible(n)
                      /\ \A j \in Job :
                           job[j] # None /\ ~ Torn(job[j]) /\ job[j].wrote = n
                             /\ LearnedPeak <= 2 * (Usable \div 2) =>
                             \/ Advice(job[j].asked) = "none"
                             \/ Advice(job[j].asked) = "raise" /\ job[j].asked < n
    BY DEF AdviceSettles
  <2>1. LearnedPeak \in Nat
    BY LearnedIs
  <2>2. /\ n \in Nat \ {0} /\ Possible(n)
        /\ LearnedPeak <= 2 * (Usable \div 2) => n >= LearnedPeak
    BY <2>1, SuggestedIs
  <2> HIDE DEF n
  <2>3. ASSUME NEW a \in Nat, a <= n, n >= LearnedPeak
        PROVE  Advice(a) = "none" \/ (Advice(a) = "raise" /\ a < n)
    <3>1. ~(2 * a >= 3 * n) /\ (a < LearnedPeak => a < n)
      BY <2>1, <2>2, <2>3
    <3> QED BY <3>1 DEF Advice, n
  <2>4. ASSUME NEW j \in Job, job[j] # None, ~ Torn(job[j]), job[j].wrote = n
        PROVE  job[j].asked \in Nat /\ job[j].asked <= n
    BY <2>4, JobTyped DEF Row, Declares
  <2> QED BY <2>2, <2>3, <2>4
<1> QED BY <1>1, RunsKeepTheirScale, PTL

----------------------------------------------------------------------------
(* Durations.                                                               *)

\* The n-th smallest duration of a set of runs is that of one of them.
LEMMA NthIsOneOf ==
  ASSUME EstimatesInv, NEW S \in SUBSET DOMAIN hist,
         NEW n \in 1 .. Cardinality(S)
  PROVE  \E i \in S : Nth(S, n) = hist[i].took
<1> DEFINE T == {hist[i].took : i \in S}
           Q == {took \in T : Cardinality({i \in S : hist[i].took <= took}) >= n}
<1>1. IsFiniteSet(S) /\ Cardinality(S) \in Nat /\ S # {}
  BY HistSets, FS_EmptySet
<1>2. IsFiniteSet(T)
  <2> DEFINE f == [i \in S |-> hist[i].took]
  <2>1. f = [i \in S |-> f[i]] /\ T = {f[i] : i \in S}
    OBVIOUS
  <2> HIDE DEF f, T
  <2> QED BY <1>1, <2>1, FiniteImage
<1>3. T \in SUBSET Nat /\ T # {}
  BY <1>1, RunTyped
<1>4. Max(T) \in T /\ \A i \in S : hist[i].took <= Max(T)
  <2> DEFINE m == Max(T)
  <2>1. m \in T /\ \A y \in T : m >= y
    BY <1>2, <1>3, MaxIs
  <2> HIDE DEF m
  <2>2. \A i \in S : hist[i].took \in T /\ hist[i].took \in Nat
    BY RunTyped
  <2>3. m \in Nat
    BY <1>3, <2>1
  <2>4. \A i \in S : hist[i].took <= m
    BY <2>1, <2>2, <2>3
  <2> QED BY <2>1, <2>4 DEF m
<1>5. {i \in S : hist[i].took <= Max(T)} = S
  BY <1>4
<1>6. Max(T) \in Q
  <2> DEFINE m == Max(T)
  <2>1. m \in T /\ {i \in S : hist[i].took <= m} = S
    BY <1>4, <1>5
  <2> HIDE DEF m, T
  <2>2. m \in Q
    BY <1>1, <2>1
  <2> QED BY <2>2 DEF m
<1>7. Q \in SUBSET Nat /\ Q # {} /\ IsFiniteSet(Q)
  BY <1>2, <1>3, <1>6, FS_Subset
<1>8. Nth(S, n) = Min(Q)
  BY DEF Nth
<1>9. Min(Q) \in Q
  <2> HIDE DEF Q
  <2> QED BY <1>7, MinIs
<1> QED BY <1>8, <1>9

LEMMA MedianWithin ==
  ASSUME EstimatesInv, NEW S \in SUBSET DOMAIN hist, S # {}
  PROVE  (\E i \in S : hist[i].took <= Median(S)) /\ \E i \in S : hist[i].took >= Median(S)
<1> DEFINE c == Cardinality(S)
           mid == c \div 2
<1>1. c \in Nat \ {0}
  BY HistSets, FS_EmptySet
<1>2. CASE c % 2 = 1
  <2>1. mid + 1 \in 1 .. c
    BY <1>1, <1>2
  <2>2. PICK i \in S : Nth(S, mid + 1) = hist[i].took
    BY <2>1, NthIsOneOf
  <2>3. Median(S) = hist[i].took
    BY <1>2, <2>2 DEF Median
  <2> QED BY <2>3, RunTyped
<1>3. CASE c % 2 # 1
  <2>1. mid \in 1 .. c /\ mid + 1 \in 1 .. c
    BY <1>1, <1>3
  <2>2. PICK i \in S : Nth(S, mid) = hist[i].took
    BY <2>1, NthIsOneOf
  <2>3. PICK k \in S : Nth(S, mid + 1) = hist[k].took
    BY <2>1, NthIsOneOf
  <2>4. Median(S) = (hist[i].took + hist[k].took) \div 2
    BY <1>3, <2>2, <2>3 DEF Median
  <2>5. hist[i].took \in Nat /\ hist[k].took \in Nat
    BY RunTyped
  <2>6. /\ hist[i].took <= Median(S) \/ hist[k].took <= Median(S)
        /\ hist[i].took >= Median(S) \/ hist[k].took >= Median(S)
    <3> DEFINE x == hist[i].took
               y == hist[k].took
    <3> HIDE DEF x, y
    <3>1. x \in Nat /\ y \in Nat
      BY <2>5 DEF x, y
    <3>2. /\ x <= (x + y) \div 2 \/ y <= (x + y) \div 2
          /\ x >= (x + y) \div 2 \/ y >= (x + y) \div 2
      BY <3>1
    <3> QED BY <2>4, <3>2 DEF x, y
  <2> QED BY <2>6
<1> QED BY <1>2, <1>3

\* A duration learned on this machine lies within what its own runs took, and one
\* from elsewhere within those of the others (learned_duration).
THEOREM DurationsKeptApart == Spec => []DurationsNotMixed
<1>1. ASSUME EstimatesInv, NEW n \in Machines, learned_duration(n).from # "unknown"
      PROVE  LET est  == learned_duration(n)
                 runs == IF est.from = "here" THEN Succeeded({n}) ELSE Succeeded(Machines \ {n})
             IN  /\ \E i \in runs : hist[i].took <= est.total
                 /\ \E i \in runs : hist[i].took >= est.total
  <2> DEFINE S == Succeeded({n})
             E == Succeeded(Elsewhere(n))
  <2>1. S \in SUBSET DOMAIN hist /\ E \in SUBSET DOMAIN hist
    BY ReadSets
  <2>2. \A R \in SUBSET DOMAIN hist : Cardinality(R) >= MinSamples => R # {}
    BY EstimatesAssumption, FS_EmptySet
  <2>3. CASE Cardinality(S) >= MinSamples
    <3>1. learned_duration(n) = [total |-> Median(S), from |-> "here"]
      BY <2>3 DEF learned_duration
    <3>2. (\E i \in S : hist[i].took <= Median(S)) /\ \E i \in S : hist[i].took >= Median(S)
      BY <1>1, <2>1, <2>2, <2>3, MedianWithin
    <3> HIDE DEF S
    <3> QED BY <3>1, <3>2 DEF S
  <2>4. CASE ~(Cardinality(S) >= MinSamples)
    <3>1. learned_duration(n) = [total |-> Median(E), from |-> "elsewhere"]
          /\ Cardinality(E) >= MinSamples
      BY <1>1, <2>4 DEF learned_duration
    <3>2. (\E i \in E : hist[i].took <= Median(E)) /\ \E i \in E : hist[i].took >= Median(E)
      BY <1>1, <2>1, <2>2, <3>1, MedianWithin
    <3>3. E \subseteq Succeeded(Machines \ {n})
      BY EstimatesAssumption DEF Succeeded, Elsewhere
    <3>4. /\ learned_duration(n).from = "elsewhere"
          /\ learned_duration(n).total = Median(E)
      BY <3>1
    <3> HIDE DEF E, S
    <3> QED BY <3>2, <3>3, <3>4
  <2> QED BY <2>3, <2>4
<1>2. EstimatesInv => DurationsNotMixed
  BY <1>1 DEF DurationsNotMixed
<1> QED BY <1>2, RunsKeepTheirScale, PTL

----------------------------------------------------------------------------
(* The forecast of a queue.                                                 *)

\* A time, or none.
Durations == Nat \cup {Unknown}

\* What is left of a job is a time or unknown.
LEMMA TotalIs ==
  ASSUME NEW r \in ViewRow
  PROVE  Total(r) \in Durations /\ Remaining(r) \in Durations
<1>1. /\ r.elapsed \in Nat /\ r.eta \in Nat /\ r.learned \in Nat
      /\ r.report.number \in Nat /\ r.report.percent \in BOOLEAN
  BY DEF ViewRow
<1>2. r.report.number \div 100 \in Nat
  BY <1>1
<1>3. Fraction(r.report) \in Nat
  BY <1>1, <1>2 DEF Fraction
<1> DEFINE done == Fraction(r.report)
<1>4. done \in Nat
  BY <1>3
<1> HIDE DEF done
<1>5. ASSUME 2 <= done PROVE (r.elapsed * 100) \div done \in Nat
  <2>1. r.elapsed * 100 \in Nat
    BY <1>1
  <2> QED BY <1>4, <1>5, <2>1
<1>6. Total(r) \in Durations
  BY <1>1, <1>5 DEF Total, Durations, Unknown, done
<1>7. Less(Total(r), r.elapsed) \in Durations
  BY <1>1, <1>6 DEF Less, Durations, Unknown
<1> QED BY <1>6, <1>7 DEF Remaining

\* The jobs, by their place, and the lengths they may have.
LEMMA QueueIs ==
  ASSUME NEW v \in Queues
  PROVE  /\ Len(v.jobs) \in Nat /\ DOMAIN v.jobs = 1 .. Len(v.jobs)
         /\ v.slots \in Nat \ {0} /\ \A k \in DOMAIN v.jobs : v.jobs[k] \in ViewRow
         /\ IsFiniteSet(DOMAIN v.jobs)
<1>1. v.jobs \in Seq(ViewRow) /\ v.slots \in Nat \ {0}
  BY DEF Queues
<1>2. Len(v.jobs) \in Nat /\ DOMAIN v.jobs = 1 .. Len(v.jobs)
      /\ \A k \in 1 .. Len(v.jobs) : v.jobs[k] \in ViewRow
  BY <1>1
<1>3. IsFiniteSet(1 .. Len(v.jobs))
  BY <1>2, FS_Interval
<1> QED BY <1>1, <1>2, <1>3

\* A job holds its slot for a time, the estimated one where it is known and used.
LEMMA LengthIs ==
  ASSUME NEW v \in Queues, NEW guess \in [DOMAIN v.jobs -> Nat],
         NEW k \in DOMAIN v.jobs, NEW s \in Nat
  PROVE  /\ Length(v, guess, k, s) \in Nat
         /\ (v.jobs[k].running \/ ~v.jobs[k].blocked \/ s # 0) /\ Remaining(v.jobs[k]) # Unknown
              => Length(v, guess, k, s) = Remaining(v.jobs[k])
<1>1. v.jobs[k] \in ViewRow
  BY QueueIs
<1>2. Remaining(v.jobs[k]) \in Durations
  BY <1>1, TotalIs
<1> QED BY <1>2 DEF Length, Durations

\* It gives its slot back when it has run.
LEMMA FreeAfterIs ==
  ASSUME NEW v \in Queues, NEW guess \in [DOMAIN v.jobs -> Nat],
         NEW g \in [DOMAIN v.jobs -> Nat], NEW i \in DOMAIN v.jobs
  PROVE  FreeAfter(v, guess, g, i) \in Nat /\ FreeAfter(v, guess, g, i) >= g[i]
BY LengthIs DEF FreeAfter

\* The jobs served before a row are finitely many.
LEMMA AheadIs ==
  ASSUME NEW v \in Queues, NEW k
  PROVE  Ahead(v, k) \subseteq DOMAIN v.jobs /\ IsFiniteSet(Ahead(v, k))
<1>1. Ahead(v, k) \subseteq DOMAIN v.jobs
  BY DEF Ahead
<1> QED BY <1>1, QueueIs, FS_Subset

\* The time all jobs ahead have started is the last of their starts.
LEMMA AfterIs ==
  ASSUME NEW v \in Queues, NEW g \in [DOMAIN v.jobs -> Nat], NEW k
  PROVE  /\ After(v, g, k) \in Nat
         /\ \A i \in Ahead(v, k) : ~v.jobs[i].running => g[i] <= After(v, g, k)
         /\ After(v, g, k) = 0 \/ \E i \in Ahead(v, k) : ~v.jobs[i].running /\ After(v, g, k) = g[i]
<1> DEFINE S == {i \in Ahead(v, k) : ~v.jobs[i].running}
           T == {0} \cup {g[i] : i \in S}
<1>1. S \subseteq DOMAIN v.jobs /\ IsFiniteSet(S)
  BY AheadIs, FS_Subset
<1>2. IsFiniteSet({g[i] : i \in S})
  <2> DEFINE h == [i \in S |-> g[i]]
  <2>0. h = [i \in S |-> h[i]]
    OBVIOUS
  <2>1. IsFiniteSet({h[i] : i \in S})
    <3> HIDE DEF h, S
    <3> QED BY <1>1, <2>0, FiniteImage
  <2>2. {h[i] : i \in S} = {g[i] : i \in S}
    OBVIOUS
  <2> QED BY <2>1, <2>2
<1>3. IsFiniteSet(T)
  BY <1>2, FS_AddElement, FS_Singleton, FS_Union
<1>4. T \in SUBSET Nat /\ T # {}
  BY <1>1
<1>5. Max(T) \in T /\ \A y \in T : Max(T) >= y
  BY <1>3, <1>4, MaxIs
<1>6. After(v, g, k) = Max(T)
  BY DEF After
<1> QED BY <1>4, <1>5, <1>6

\* A job starts at one of finitely many times.
LEMMA TimesIs ==
  ASSUME NEW v \in Queues, NEW guess \in [DOMAIN v.jobs -> Nat],
         NEW g \in [DOMAIN v.jobs -> Nat], NEW k
  PROVE  Times(v, guess, g, k) \in SUBSET Nat /\ IsFiniteSet(Times(v, guess, g, k))
<1> DEFINE S == Ahead(v, k)
           h == [i \in S |-> FreeAfter(v, guess, g, i)]
<1>1. S \subseteq DOMAIN v.jobs /\ IsFiniteSet(S)
  BY AheadIs
<1>2. IsFiniteSet({h[i] : i \in S})
  BY <1>1, FiniteImage
<1>3. {h[i] : i \in S} = {FreeAfter(v, guess, g, i) : i \in S}
  OBVIOUS
<1>4. IsFiniteSet(Times(v, guess, g, k))
  BY <1>2, <1>3, FS_Singleton, FS_Union DEF Times
<1>5. Times(v, guess, g, k) \in SUBSET Nat
  BY <1>1, AfterIs, FreeAfterIs DEF Times
<1> QED BY <1>4, <1>5

\* The slots held at a time are counted.
LEMMA BusyIs ==
  ASSUME NEW v \in Queues, NEW guess \in [DOMAIN v.jobs -> Nat],
         NEW g \in [DOMAIN v.jobs -> Nat], NEW k, NEW t
  PROVE  /\ Busy(v, guess, g, k, t) \subseteq Ahead(v, k)
         /\ IsFiniteSet(Busy(v, guess, g, k, t)) /\ Cardinality(Busy(v, guess, g, k, t)) \in Nat
<1>1. Busy(v, guess, g, k, t) \subseteq Ahead(v, k)
  BY DEF Busy
<1> QED BY <1>1, AheadIs, FS_Subset, FS_CardinalityType

\* A slot is free in the end.
LEMMA TurnsIs ==
  ASSUME NEW v \in Queues, NEW guess \in [DOMAIN v.jobs -> Nat],
         NEW g \in [DOMAIN v.jobs -> Nat], NEW k
  PROVE  LET T == Turns(v, guess, g, k) IN
         T \in SUBSET Nat /\ IsFiniteSet(T) /\ T # {} /\ Min(T) \in T /\ \A t \in T : Min(T) <= t
<1> DEFINE S == Times(v, guess, g, k)
           T == Turns(v, guess, g, k)
<1>1. S \in SUBSET Nat /\ IsFiniteSet(S) /\ After(v, g, k) \in S
  BY TimesIs DEF Times
<1>2. Max(S) \in S /\ \A t \in S : Max(S) >= t
  BY <1>1, MaxIs
<1>3. Busy(v, guess, g, k, Max(S)) = {}
  <2>1. ASSUME NEW i \in Ahead(v, k) PROVE ~(FreeAfter(v, guess, g, i) > Max(S))
    <3>1. FreeAfter(v, guess, g, i) \in S
      BY DEF Times
    <3>2. FreeAfter(v, guess, g, i) \in Nat
      BY AheadIs, FreeAfterIs
    <3>3. Max(S) \in Nat /\ Max(S) >= FreeAfter(v, guess, g, i)
      BY <1>1, <1>2, <3>1
    <3> QED BY <3>2, <3>3
  <2> QED BY <2>1 DEF Busy
<1>4. Cardinality(Busy(v, guess, g, k, Max(S))) < v.slots
  BY <1>3, FS_EmptySet, QueueIs
<1>5. Max(S) \in T
  <2>1. Max(S) \in S /\ Max(S) >= After(v, g, k)
    BY <1>1, <1>2
  <2> QED BY <1>4, <2>1 DEF Turns
<1>6. T \subseteq S
  BY DEF Turns
<1>7. T \in SUBSET Nat /\ IsFiniteSet(T) /\ T # {}
  <2> HIDE DEF S, T
  <2> QED BY <1>1, <1>5, <1>6, FS_Subset
<1> HIDE DEF T
<1>8. Min(T) \in T /\ \A t \in T : Min(T) <= t
  BY <1>7, MinIs
<1> QED BY <1>7, <1>8 DEF T

\* What a job gets depends on those ahead of it.
LEMMA TurnsLocal ==
  ASSUME NEW v \in Queues, NEW guess, NEW k, NEW g, NEW h,
         \A i \in Ahead(v, k) : g[i] = h[i]
  PROVE  Turns(v, guess, g, k) = Turns(v, guess, h, k)
<1>1. \A i \in Ahead(v, k) : FreeAfter(v, guess, g, i) = FreeAfter(v, guess, h, i)
  BY DEF FreeAfter
<1>2. \A t : Busy(v, guess, g, k, t) = Busy(v, guess, h, k, t)
  BY <1>1 DEF Busy
<1>3. After(v, g, k) = After(v, h, k)
  <2> DEFINE S == {i \in Ahead(v, k) : ~v.jobs[i].running}
  <2>1. {g[i] : i \in S} = {h[i] : i \in S}
    OBVIOUS
  <2> QED BY <2>1 DEF After
<1>4. Times(v, guess, g, k) = Times(v, guess, h, k)
  BY <1>1, <1>3 DEF Times
<1> QED BY <1>2, <1>3, <1>4 DEF Turns

\* A queue is served.
Serves(v, guess, g) ==
  \A k \in DOMAIN v.jobs : g[k] = IF v.jobs[k].running THEN 0 ELSE Min(Turns(v, guess, g, k))

\* There is a way the queue is served, whatever the jobs take:
LEMMA ServedUpTo ==
  ASSUME NEW v \in Queues, NEW guess \in [DOMAIN v.jobs -> Nat]
  PROVE  \E g \in [DOMAIN v.jobs -> Nat] : Serves(v, guess, g)
<1> DEFINE D == DOMAIN v.jobs
           n == Len(v.jobs)
           Gets(g, k) == g[k] = IF v.jobs[k].running THEN 0 ELSE Min(Turns(v, guess, g, k))
           Until(m) == \E g \in [D -> Nat] : \A k \in D : k <= m \/ v.jobs[k].running => Gets(g, k)
           Bad == {m \in 0 .. n : ~Until(m)}
<1>0. n \in Nat /\ D = 1 .. n
  BY QueueIs
<1>1. SUFFICES ASSUME Bad # {} PROVE FALSE
  <2>1. Until(n)
    BY <1>0
  <2> QED BY <1>0, <2>1 DEF Serves
<1>2. PICK m \in Bad : \A x \in Bad : m <= x
  <2>1. Bad \in SUBSET Nat
    BY <1>0
  <2>2. IsFiniteSet(0 .. n)
    BY <1>0, FS_Interval
  <2>3. IsFiniteSet(Bad)
    BY <2>2, FS_Subset
  <2> HIDE DEF Bad
  <2> QED BY <1>1, <2>1, <2>3, MinIs
<1>3. m \in 0 .. n /\ ~Until(m)
  BY <1>2
<1>4. m # 0
  <2> DEFINE g == [k \in D |-> 0]
  <2>1. g \in [D -> Nat] /\ \A k \in D : k <= 0 \/ v.jobs[k].running => Gets(g, k)
    BY <1>0
  <2>2. Until(0)
    BY <2>1
  <2> QED BY <1>3, <2>2
<1>5. Until(m - 1) /\ m \in D
  <2>1. m - 1 \in 0 .. n /\ m \in D /\ ~(m <= m - 1)
    BY <1>0, <1>3, <1>4
  <2>2. m - 1 \notin Bad
    <3> HIDE DEF Bad
    <3> QED BY <1>2, <2>1
  <2> QED BY <2>1, <2>2
<1>6. PICK g \in [D -> Nat] : \A k \in D : k <= m - 1 \/ v.jobs[k].running => Gets(g, k)
  BY <1>5
<1>7. CASE v.jobs[m].running
  <2>1. \A k \in D : k <= m \/ v.jobs[k].running => k <= m - 1 \/ v.jobs[k].running
    BY <1>0, <1>3, <1>7
  <2> HIDE DEF Gets
  <2> QED BY <1>3, <1>6, <2>1
<1>8. CASE ~v.jobs[m].running
  <2> DEFINE h == [g EXCEPT ![m] = Min(Turns(v, guess, g, m))]
  <2>1. Min(Turns(v, guess, g, m)) \in Nat
    BY TurnsIs
  <2>2. h \in [D -> Nat]
    BY <2>1
  <2>3. ASSUME NEW k \in D, k <= m
        PROVE  \A i \in Ahead(v, k) : h[i] = g[i]
    <3>1. ASSUME NEW i \in Ahead(v, k) PROVE i # m
      BY <1>0, <1>3, <1>8, <2>3 DEF Ahead
    <3> QED BY <3>1, AheadIs
  <2>4. ASSUME NEW k \in D, k <= m
        PROVE  Turns(v, guess, h, k) = Turns(v, guess, g, k)
    <3> HIDE DEF h
    <3> QED BY <2>3, <2>4, TurnsLocal
  <2>5. ASSUME NEW k \in D, k <= m \/ v.jobs[k].running PROVE Gets(h, k)
    <3>1. CASE k = m
      <4>1. h[m] = Min(Turns(v, guess, g, m))
        BY <1>5
      <4>0. m \in D /\ m <= m
        BY <1>0, <1>5
      <4>2. Turns(v, guess, h, m) = Turns(v, guess, g, m)
        <5> HIDE DEF h, D
        <5> QED BY <2>4, <4>0
      <4> HIDE DEF h
      <4> QED BY <1>8, <3>1, <4>1, <4>2
    <3>2. CASE k # m
      <4>1. k <= m - 1 \/ v.jobs[k].running
        BY <1>0, <1>3, <2>5, <3>2
      <4>2. g[k] = IF v.jobs[k].running THEN 0 ELSE Min(Turns(v, guess, g, k))
        BY <1>6, <4>1
      <4>3. h[k] = g[k]
        BY <3>2
      <4>4. ~v.jobs[k].running => Turns(v, guess, h, k) = Turns(v, guess, g, k)
        BY <2>4, <2>5
      <4> HIDE DEF h
      <4> QED BY <4>2, <4>3, <4>4
    <3> QED BY <3>1, <3>2
  <2> HIDE DEF h
  <2> QED BY <1>3, <2>2, <2>5
<1> QED BY <1>7, <1>8

\* Served is it.
LEMMA ServedIs ==
  ASSUME NEW v \in Queues, NEW guess \in [DOMAIN v.jobs -> Nat]
  PROVE  Served(v, guess) \in [DOMAIN v.jobs -> Nat] /\ Serves(v, guess, Served(v, guess))
<1> DEFINE BeginAt(g) == [k \in DOMAIN v.jobs |->
                            IF v.jobs[k].running THEN 0 ELSE Min(Turns(v, guess, g, k))]
<1>1. \E g : g = BeginAt(g)
  <2>1. PICK g \in [DOMAIN v.jobs -> Nat] : Serves(v, guess, g)
    BY ServedUpTo
  <2>2. g = BeginAt(g)
    BY <2>1 DEF Serves
  <2> QED BY <2>2
<1>2. Served(v, guess) = CHOOSE g : g = BeginAt(g)
  BY DEF Served
<1>3. Served(v, guess) = BeginAt(Served(v, guess))
  <2> HIDE DEF BeginAt
  <2> QED BY <1>1, <1>2
<1> DEFINE f == Served(v, guess)
<1>4. f = BeginAt(f)
  BY <1>3
<1> HIDE DEF f
<1>5. Serves(v, guess, f)
  BY <1>4 DEF Serves
<1>6. PICK g \in [DOMAIN v.jobs -> Nat] : Serves(v, guess, g)
  BY ServedUpTo
<1>7. f = g
  <2> DEFINE n == Len(v.jobs)
             Bad == {k \in DOMAIN v.jobs : f[k] # g[k]}
  <2>0. n \in Nat /\ DOMAIN v.jobs = 1 .. n
    BY QueueIs
  <2>1. SUFFICES ASSUME Bad # {} PROVE FALSE
    BY <1>4
  <2>2. PICK k \in Bad : \A x \in Bad : k <= x
    <3>1. Bad \in SUBSET Nat /\ IsFiniteSet(Bad)
      BY <2>0, QueueIs, FS_Subset
    <3> HIDE DEF Bad
    <3> QED BY <2>1, <3>1, MinIs
  <2>3. ~v.jobs[k].running
    BY <1>5, <1>6, <2>2 DEF Serves
  <2>4. ASSUME NEW i \in Ahead(v, k) PROVE f[i] = g[i]
    <3>1. i \in DOMAIN v.jobs /\ (v.jobs[i].running \/ i < k)
      BY DEF Ahead
    <3>2. CASE v.jobs[i].running
      BY <1>5, <1>6, <3>1, <3>2 DEF Serves
    <3>3. CASE i < k
      <4>1. ~(k <= i)
        BY <2>0, <2>2, <3>1, <3>3
      <4>2. i \notin Bad
        <5> HIDE DEF Bad
        <5> QED BY <2>2, <4>1
      <4> QED BY <3>1, <4>2
    <3> QED BY <3>1, <3>2, <3>3
  <2>5. Turns(v, guess, f, k) = Turns(v, guess, g, k)
    BY <2>4, TurnsLocal
  <2> QED BY <1>5, <1>6, <2>2, <2>3, <2>5 DEF Serves
<1> QED BY <1>5, <1>6, <1>7 DEF f

\* What the start has and every step keeps, the last of finitely many has.
LEMMA UpTo ==
  ASSUME NEW n \in Nat, NEW S, 0 \in S, \A m \in 1 .. n : m - 1 \in S => m \in S
  PROVE  \A m \in 0 .. n : m \in S
<1> DEFINE Bad == {m \in 0 .. n : m \notin S}
<1>1. SUFFICES ASSUME Bad # {} PROVE FALSE
  OBVIOUS
<1>2. PICK m \in Bad : \A x \in Bad : m <= x
  <2>0. IsFiniteSet(0 .. n)
    BY FS_Interval
  <2>1. IsFiniteSet(Bad) /\ Bad \in SUBSET Nat
    BY <2>0, FS_Subset
  <2> HIDE DEF Bad
  <2> QED BY <1>1, <2>1, MinIs
<1>3. m \in 1 .. n /\ m - 1 \in 0 .. n /\ ~(m <= m - 1)
  BY <1>2
<1>4. m - 1 \notin Bad
  <2> HIDE DEF Bad
  <2> QED BY <1>2, <1>3
<1> QED BY <1>2, <1>3, <1>4

\* The recursive function lays one row after the other.
LEMMA PlansIs ==
  ASSUME NEW v \in Queues
  PROVE  /\ Plans(v)[0] = [free |-> FreeAt(v), start |-> <<>>]
         /\ \A k \in 1 .. Len(v.jobs) : Plans(v)[k] = Lay(Plans(v)[k - 1], v.jobs[k])
<1> DEFINE n == Len(v.jobs)
           First == [free |-> FreeAt(v), start |-> <<>>]
           Laid(m, f) == [k \in 0 .. m |-> IF k = 0 THEN First ELSE Lay(f[k - 1], v.jobs[k])]
           S == {m \in 0 .. n : \E f : f = Laid(m, f)}
<1>0. n \in Nat
  BY QueueIs
<1>1. 0 \in S
  <2> DEFINE h == [k \in 0 .. 0 |-> First]
  <2>1. h = Laid(0, h)
    OBVIOUS
  <2>2. \E f : f = Laid(0, f)
    <3> HIDE DEF h, Laid
    <3> QED BY <2>1
  <2> QED BY <1>0, <2>2
<1>2. ASSUME NEW m \in 1 .. n, m - 1 \in S PROVE m \in S
  <2>1. PICK f : f = Laid(m - 1, f)
    BY <1>2
  <2> DEFINE h == [k \in 0 .. m |-> IF k = m THEN Lay(f[m - 1], v.jobs[m]) ELSE f[k]]
  <2>2. ASSUME NEW k \in 0 .. m
        PROVE  h[k] = IF k = 0 THEN First ELSE Lay(h[k - 1], v.jobs[k])
    <3>1. CASE k = m
      <4>1. m # 0 /\ m - 1 \in 0 .. m /\ m - 1 # m
        BY <1>0
      <4> QED BY <3>1, <4>1
    <3>2. CASE k # m
      <4>1. k \in 0 .. m - 1 /\ k # m /\ (k # 0 => k - 1 \in 0 .. m /\ k - 1 # m)
        BY <1>0, <3>2
      <4>2. f[k] = IF k = 0 THEN First ELSE Lay(f[k - 1], v.jobs[k])
        BY <2>1, <4>1
      <4> QED BY <4>1, <4>2
    <3> QED BY <3>1, <3>2
  <2>3. h = Laid(m, h)
    BY <2>2
  <2>4. \E g : g = Laid(m, g)
    <3> HIDE DEF h, Laid
    <3> QED BY <2>3
  <2> QED BY <1>0, <2>4
<1>3. n \in S
  <2> HIDE DEF S, n
  <2>1. \A m \in 0 .. n : m \in S
    BY <1>0, <1>1, <1>2, UpTo
  <2> QED BY <1>0, <2>1
<1>4. Plans(v) = CHOOSE f : f = Laid(n, f)
  BY DEF Plans
<1> DEFINE p == Plans(v)
<1>5. p = Laid(n, p)
  <2>1. \E f : f = Laid(n, f)
    BY <1>3
  <2> HIDE DEF Laid
  <2> QED BY <1>4, <2>1
<1> HIDE DEF p
<1>6. p[0] = First /\ \A k \in 1 .. n : p[k] = Lay(p[k - 1], v.jobs[k])
  <2>1. 0 \in 0 .. n /\ \A k \in 1 .. n : k \in 0 .. n /\ k # 0
    BY <1>0
  <2>2. \A k \in 0 .. n : p[k] = IF k = 0 THEN First ELSE Lay(p[k - 1], v.jobs[k])
    BY <1>5
  <2> HIDE DEF First
  <2> QED BY <2>1, <2>2
<1> QED BY <1>6 DEF p

----------------------------------------------------------------------------
(* The slots.                                                               *)

Slots(v) == Running(v) \cup Idle(v)

\* A queue has as many slots as the concurrency says.
LEMMA SlotsIs ==
  ASSUME NEW v \in Queues, Cardinality(Running(v)) <= v.slots
  PROVE  IsFiniteSet(Slots(v)) /\ Cardinality(Slots(v)) = v.slots
<1> DEFINE n == Len(v.jobs)
           c == Cardinality(Running(v))
<1>1. Running(v) \subseteq DOMAIN v.jobs
  BY DEF Running
<1>2. IsFiniteSet(Running(v)) /\ c \in Nat
  BY <1>1, QueueIs, FS_Subset, FS_CardinalityType
<1>3. n \in Nat /\ v.slots \in Nat /\ DOMAIN v.jobs = 1 .. n
  BY QueueIs
<1>4. Idle(v) = n + 1 .. n + v.slots - c
  BY DEF Idle
<1>5. IsFiniteSet(Idle(v)) /\ Cardinality(Idle(v)) = v.slots - c
  <2>1. n + 1 \in Int /\ n + v.slots - c \in Int
    BY <1>2, <1>3
  <2>2. Cardinality(n + 1 .. n + v.slots - c)
          = IF n + 1 > n + v.slots - c THEN 0 ELSE (n + v.slots - c) - (n + 1) + 1
    BY <2>1, FS_Interval
  <2>3. IsFiniteSet(n + 1 .. n + v.slots - c)
    BY <2>1, FS_Interval
  <2>4. Cardinality(n + 1 .. n + v.slots - c) = v.slots - c
    <3> HIDE DEF n, c
    <3> QED BY <1>2, <1>3, <2>2 DEF c
  <2> QED BY <1>4, <2>3, <2>4
<1>6. Running(v) \cap Idle(v) = {}
  <2>1. \A x \in n + 1 .. n + v.slots - c : x \notin 1 .. n
    BY <1>2, <1>3
  <2> QED BY <1>1, <1>3, <1>4, <2>1
<1>7. IsFiniteSet(Slots(v)) /\ Cardinality(Slots(v)) = c + Cardinality(Idle(v)) - Cardinality({})
  BY <1>2, <1>5, <1>6, FS_Union DEF Slots
<1> QED BY <1>2, <1>3, <1>5, <1>7, FS_EmptySet

\* One slot is free before all others.
LEMMA SoonestIs ==
  ASSUME NEW S, IsFiniteSet(S), S # {}, NEW free \in [S -> Durations]
  PROVE  Soonest(free) \in S /\ \A s \in S : NoLater(free[Soonest(free)], free[s])
<1> DEFINE R == {p \in S \X S : NoLater(free[p[1]], free[p[2]])}
<1>1. \A x, y \in S : <<x, y>> \in R <=> NoLater(free[x], free[y])
  OBVIOUS
<1>2. \A x, y \in S : <<x, y>> \in R \/ <<y, x>> \in R
  <2>1. \A a, b \in Durations : NoLater(a, b) \/ NoLater(b, a)
    BY DEF NoLater, Durations
  <2> QED BY <1>1, <2>1
<1>3. \A x, y, z \in S : <<x, y>> \in R /\ <<y, z>> \in R => <<x, z>> \in R
  BY <1>1 DEF NoLater, Durations, Unknown
<1> HIDE DEF R
<1>4. \E x \in S : \A y \in S : <<x, y>> \in R
  BY <1>2, <1>3, FirstExists
<1>5. \E x \in DOMAIN free : \A y \in DOMAIN free : NoLater(free[x], free[y])
  BY <1>1, <1>4
<1> QED BY <1>5 DEF Soonest

\* The slots still held after t.
Later(x, t)    == x = Unknown \/ x > t
Taken(free, t) == {s \in DOMAIN free : Later(free[s], t)}
One(b) == IF b THEN 1 ELSE 0

\* One member of a finite set changed.
LEMMA CardStep ==
  ASSUME NEW S, IsFiniteSet(S), NEW x, NEW T, T \ {x} = S \ {x}
  PROVE  /\ IsFiniteSet(T) /\ Cardinality(S) \in Nat /\ Cardinality(T) \in Nat
         /\ Cardinality(T) = Cardinality(S) - One(x \in S) + One(x \in T)
<1> DEFINE C == S \ {x}
<1>1. IsFiniteSet(C) /\ Cardinality(C) \in Nat
  BY FS_RemoveElement, FS_CardinalityType
<1>2. S = IF x \in S THEN C \cup {x} ELSE C
  OBVIOUS
<1>3. T = IF x \in T THEN C \cup {x} ELSE C
  OBVIOUS
<1>4. IsFiniteSet(C \cup {x}) /\ Cardinality(C \cup {x}) = Cardinality(C) + 1
  <2>1. x \notin C
    OBVIOUS
  <2> HIDE DEF C
  <2> QED BY <1>1, <2>1, FS_AddElement
<1> HIDE DEF C
<1>5. Cardinality(S) = Cardinality(C) + One(x \in S)
  <2>1. CASE x \in S
    BY <1>2, <1>4, <2>1 DEF One
  <2>2. CASE x \notin S
    BY <1>1, <1>2, <2>2 DEF One
  <2> QED BY <2>1, <2>2
<1>6. IsFiniteSet(T) /\ Cardinality(T) = Cardinality(C) + One(x \in T)
  <2>1. CASE x \in T
    BY <1>3, <1>4, <2>1 DEF One
  <2>2. CASE x \notin T
    BY <1>1, <1>3, <2>2 DEF One
  <2> QED BY <2>1, <2>2
<1>7. One(x \in S) \in {0, 1} /\ One(x \in T) \in {0, 1}
  BY DEF One
<1> QED BY <1>1, <1>5, <1>6, <1>7

\* One slot changed.
LEMMA TakenStep ==
  ASSUME NEW S, IsFiniteSet(S), NEW free \in [S -> Durations], NEW slot \in S,
         NEW then \in [S -> Durations], \A x \in S \ {slot} : then[x] = free[x], NEW t
  PROVE  /\ Cardinality(Taken(free, t)) \in Nat /\ Cardinality(Taken(then, t)) \in Nat
         /\ Cardinality(Taken(then, t))
              = Cardinality(Taken(free, t)) - One(Later(free[slot], t)) + One(Later(then[slot], t))
<1> DEFINE A == Taken(free, t)
           B == Taken(then, t)
<1>1. IsFiniteSet(A) /\ (slot \in A <=> Later(free[slot], t)) /\ (slot \in B <=> Later(then[slot], t))
  <2>1. A \subseteq S
    BY DEF Taken
  <2> QED BY <2>1, FS_Subset DEF Taken
<1>2. B \ {slot} = A \ {slot}
  BY DEF Taken
<1> HIDE DEF A, B
<1>3. (slot \in A) = Later(free[slot], t) /\ (slot \in B) = Later(then[slot], t)
  BY <1>1 DEF Later
<1>4. /\ Cardinality(A) \in Nat /\ Cardinality(B) \in Nat
      /\ Cardinality(B) = Cardinality(A) - One(slot \in A) + One(slot \in B)
  BY <1>1, <1>2, CardStep
<1> QED BY <1>1, <1>4 DEF A, B, One

----------------------------------------------------------------------------
(* One more row.                                                            *)

\* A row that is laid is ahead of the next.
LEMMA AheadStep ==
  ASSUME NEW v \in Queues, NEW m \in DOMAIN v.jobs
  PROVE  /\ Ahead(v, m + 1) = Ahead(v, m) \cup {m}
         /\ v.jobs[m].running => Ahead(v, m + 1) = Ahead(v, m)
         /\ ~v.jobs[m].running => m \notin Ahead(v, m)
<1>1. DOMAIN v.jobs = 1 .. Len(v.jobs) /\ Len(v.jobs) \in Nat
  BY QueueIs
<1>2. \A i \in DOMAIN v.jobs : i < m + 1 <=> i < m \/ i = m
  BY <1>1
<1>3. ~(m < m)
  BY <1>1
<1> QED BY <1>2, <1>3 DEF Ahead

\* Its start is the last so far.
LEMMA AfterStep ==
  ASSUME NEW v \in Queues, NEW g \in [DOMAIN v.jobs -> Nat], NEW m \in DOMAIN v.jobs
  PROVE  /\ v.jobs[m].running => After(v, g, m + 1) = After(v, g, m)
         /\ ~v.jobs[m].running /\ g[m] >= After(v, g, m) => After(v, g, m + 1) = g[m]
<1>1. CASE v.jobs[m].running
  BY <1>1, AheadStep DEF After
<1>2. ASSUME ~v.jobs[m].running, g[m] >= After(v, g, m) PROVE After(v, g, m + 1) = g[m]
  <2> DEFINE a == After(v, g, m)
             b == After(v, g, m + 1)
  <2>1. a \in Nat /\ b \in Nat /\ g[m] \in Nat
    BY AfterIs
  <2>2. m \in Ahead(v, m + 1)
    BY AheadStep
  <2>3. g[m] <= b
    BY <1>2, <2>2, AfterIs
  <2>4. b = 0 \/ \E i \in Ahead(v, m + 1) : ~v.jobs[i].running /\ b = g[i]
    BY AfterIs
  <2>5. \A i \in Ahead(v, m) : ~v.jobs[i].running => g[i] <= a
    BY AfterIs
  <2>6. b <= g[m]
    <3>1. ASSUME NEW i \in Ahead(v, m + 1), ~v.jobs[i].running, b = g[i] PROVE b <= g[m]
      <4>1. CASE i = m
        BY <2>1, <3>1, <4>1
      <4>2. CASE i \in Ahead(v, m)
        <5>1. g[i] <= a /\ a <= g[m]
          BY <1>2, <2>1, <2>5, <3>1, <4>2
        <5> HIDE DEF a, b
        <5> QED BY <2>1, <3>1, <5>1
      <4> QED BY <4>1, <4>2, AheadStep
    <3>2. ASSUME b = 0 PROVE b <= g[m]
      BY <2>1, <3>2
    <3> QED BY <2>4, <3>1, <3>2
  <2> QED BY <2>1, <2>3, <2>6
<1> QED BY <1>1, <1>2

\* Jobs that hold a slot after t, when the first m rows have started.
Working(v, guess, g, m, t) == Cardinality(Busy(v, guess, g, m + 1, t))

\* It holds a slot from then on.
LEMMA WorkingStep ==
  ASSUME NEW v \in Queues, NEW guess \in [DOMAIN v.jobs -> Nat],
         NEW g \in [DOMAIN v.jobs -> Nat], NEW m \in DOMAIN v.jobs, NEW t
  PROVE  /\ Working(v, guess, g, m, t) \in Nat /\ Working(v, guess, g, m - 1, t) \in Nat
         /\ v.jobs[m].running => Working(v, guess, g, m, t) = Working(v, guess, g, m - 1, t)
         /\ ~v.jobs[m].running =>
              Working(v, guess, g, m, t)
                = Working(v, guess, g, m - 1, t) + One(FreeAfter(v, guess, g, m) > t)
<1> DEFINE A == Busy(v, guess, g, m, t)
           B == Busy(v, guess, g, m + 1, t)
<1>0. m - 1 + 1 = m
  BY QueueIs
<1>1. /\ Working(v, guess, g, m, t) = Cardinality(B)
      /\ Working(v, guess, g, m - 1, t) = Cardinality(A)
  BY <1>0 DEF Working
<1>2. Cardinality(A) \in Nat /\ Cardinality(B) \in Nat /\ IsFiniteSet(A)
  BY BusyIs
<1>3. v.jobs[m].running => A = B
  BY AheadStep DEF Busy
<1>4. ASSUME ~v.jobs[m].running
      PROVE  Cardinality(B) = Cardinality(A) + One(FreeAfter(v, guess, g, m) > t)
  <2>1. m \notin A /\ B \ {m} = A \ {m}
    BY <1>4, AheadStep DEF Busy
  <2>2. m \in B <=> FreeAfter(v, guess, g, m) > t
    BY AheadStep DEF Busy
  <2>3. Cardinality(B) = Cardinality(A) - One(m \in A) + One(m \in B)
    <3> HIDE DEF A, B
    <3> QED BY <1>2, <2>1, CardStep
  <2>4. One(m \in A) = 0 /\ One(m \in B) = One(FreeAfter(v, guess, g, m) > t)
    BY <2>1, <2>2 DEF One
  <2>5. One(m \in B) \in {0, 1}
    BY DEF One
  <2> HIDE DEF A, B
  <2> QED BY <1>2, <2>3, <2>4, <2>5
<1> QED BY <1>1, <1>2, <1>3, <1>4

\* Slots are given back as time goes by.
LEMMA WorkingFalls ==
  ASSUME NEW v \in Queues, NEW guess \in [DOMAIN v.jobs -> Nat],
         NEW g \in [DOMAIN v.jobs -> Nat], NEW k, NEW t \in Nat, NEW u \in Nat, t <= u
  PROVE  Cardinality(Busy(v, guess, g, k, u)) <= Cardinality(Busy(v, guess, g, k, t))
<1>1. Busy(v, guess, g, k, u) \subseteq Busy(v, guess, g, k, t)
  <2>1. ASSUME NEW i \in Ahead(v, k), FreeAfter(v, guess, g, i) > u
        PROVE  FreeAfter(v, guess, g, i) > t
    <3>1. FreeAfter(v, guess, g, i) \in Nat
      BY AheadIs, FreeAfterIs
    <3> QED BY <2>1, <3>1
  <2> QED BY <2>1 DEF Busy
<1> QED BY <1>1, BusyIs, FS_Subset

\* A job starts as soon as a slot is free.
LEMMA TurnIsEarly ==
  ASSUME NEW v \in Queues, NEW guess \in [DOMAIN v.jobs -> Nat],
         NEW g \in [DOMAIN v.jobs -> Nat], NEW m, NEW f \in Nat,
         f >= After(v, g, m), Cardinality(Busy(v, guess, g, m, f)) < v.slots
  PROVE  Min(Turns(v, guess, g, m)) <= f
<1> DEFINE a == After(v, g, m)
           T == Times(v, guess, g, m)
           S == {t \in T : t >= a /\ t <= f}
           t0 == Max(S)
<1>1. a \in Nat /\ T \in SUBSET Nat /\ IsFiniteSet(T) /\ a \in T
  BY AfterIs, TimesIs DEF Times
<1>2. S \in SUBSET Nat /\ IsFiniteSet(S) /\ a \in S
  <2> HIDE DEF a, T
  <2>1. a <= f
    BY DEF a
  <2>2. a \in S
    BY <1>1, <2>1
  <2>3. S \subseteq T
    OBVIOUS
  <2> HIDE DEF S
  <2> QED BY <1>1, <2>2, <2>3, FS_Subset
<1>3. t0 \in S /\ \A y \in S : t0 >= y
  <2> HIDE DEF S
  <2> QED BY <1>2, MaxIs
<1>4. t0 \in T /\ t0 >= a /\ t0 <= f /\ t0 \in Nat
  BY <1>1, <1>3
<1>5. Busy(v, guess, g, m, t0) \subseteq Busy(v, guess, g, m, f)
  <2>1. ASSUME NEW i \in Ahead(v, m), FreeAfter(v, guess, g, i) > t0
        PROVE  FreeAfter(v, guess, g, i) > f
    <3> DEFINE e == FreeAfter(v, guess, g, i)
    <3>1. e \in Nat /\ e \in T
      BY AheadIs, FreeAfterIs DEF Times
    <3>2. ~(t0 >= e)
      <4> HIDE DEF e, t0
      <4> QED BY <1>4, <2>1, <3>1 DEF e
    <3>3. e \notin S
      <4> HIDE DEF S, t0, e
      <4> QED BY <1>3, <3>2
    <3>4. e >= a
      <4> HIDE DEF e, t0, a, T
      <4> QED BY <1>1, <1>4, <2>1, <3>1 DEF e
    <3> HIDE DEF e, a, T, t0
    <3>5. e > f
      BY <3>1, <3>3, <3>4
    <3> QED BY <3>5 DEF e
  <2> HIDE DEF t0
  <2> QED BY <2>1 DEF Busy
<1>6. Cardinality(Busy(v, guess, g, m, t0)) < v.slots
  <2>1. Cardinality(Busy(v, guess, g, m, t0)) <= Cardinality(Busy(v, guess, g, m, f))
    BY <1>5, BusyIs, FS_Subset
  <2>2. Cardinality(Busy(v, guess, g, m, t0)) \in Nat /\ Cardinality(Busy(v, guess, g, m, f)) \in Nat
    BY BusyIs
  <2>3. v.slots \in Nat
    BY QueueIs
  <2> HIDE DEF t0
  <2> QED BY <2>1, <2>2, <2>3
<1>7. t0 \in Turns(v, guess, g, m)
  <2> HIDE DEF t0
  <2> QED BY <1>4, <1>6 DEF Turns
<1>8. Min(Turns(v, guess, g, m)) \in Nat /\ Min(Turns(v, guess, g, m)) <= t0
  <2> HIDE DEF t0
  <2> QED BY <1>7, TurnsIs
<1> HIDE DEF t0
<1> QED BY <1>4, <1>8

----------------------------------------------------------------------------
(* The forecast, row by row.                                                *)

\* Slots the forecast holds after t, when m rows are laid.
Said(v, m, t) == Cardinality(Taken(Plans(v)[m].free, t))

PlanTyped(v, m) ==
  Plans(v)[m] \in [free : [Slots(v) -> Durations], start : Seq(Durations)] /\ Len(Plans(v)[m].start) = m
\* It never holds fewer than are held from the last start on,
Covers(v, guess, g, m) ==
  \A t \in Nat : t >= After(v, g, m + 1) => Working(v, guess, g, m, t) <= Said(v, m, t)
\* nor, while nothing waited yet, gives back more of those held now,
GivesLess(v, guess, g, m) ==
  After(v, g, m + 1) = 0 =>
    \A t \in Nat : Said(v, m, 0) - Said(v, m, t)
                     <= Working(v, guess, g, m, 0) - Working(v, guess, g, m, t)
\* nor promises a slot for a time that has gone by.
NotPast(v, g, m) ==
  \A s \in Slots(v) : Plans(v)[m].free[s] # Unknown => After(v, g, m + 1) <= Plans(v)[m].free[s]
StartsCovered(v, g, m) ==
  \A k \in 1 .. m : ~v.jobs[k].running /\ Plans(v)[m].start[k] # Unknown
                        => g[k] <= Plans(v)[m].start[k]
SoundSoFar(v, guess, g, m) ==
  /\ PlanTyped(v, m) /\ Covers(v, guess, g, m) /\ GivesLess(v, guess, g, m)
  /\ NotPast(v, g, m) /\ StartsCovered(v, g, m)

\* Where every duration is known nothing is left to cover.
ExactSoFar(v, guess, g, m) ==
  /\ \A t \in Nat : t >= After(v, g, m + 1) => Working(v, guess, g, m, t) = Said(v, m, t)
  /\ \A s \in Slots(v) : Plans(v)[m].free[s] # Unknown
  /\ \A k \in 1 .. m : ~v.jobs[k].running => Plans(v)[m].start[k] = g[k]

\* A row that runs is already covered.
LEMMA RunningRow ==
  ASSUME NEW v \in Queues, NEW guess \in [DOMAIN v.jobs -> Nat],
         NEW g \in [DOMAIN v.jobs -> Nat], NEW m \in DOMAIN v.jobs, v.jobs[m].running,
         SoundSoFar(v, guess, g, m - 1)
  PROVE  SoundSoFar(v, guess, g, m)
         /\ (ExactSoFar(v, guess, g, m - 1) => ExactSoFar(v, guess, g, m))
<1>0. m \in 1 .. Len(v.jobs) /\ m \in Nat /\ m - 1 + 1 = m
  BY QueueIs
<1>1. Plans(v)[m] = [Plans(v)[m - 1] EXCEPT !.start = Append(@, 0)]
  BY <1>0, PlansIs DEF Lay
<1> DEFINE p == Plans(v)[m - 1]
           q == Plans(v)[m]
<1>2. p \in [free : [Slots(v) -> Durations], start : Seq(Durations)] /\ Len(p.start) = m - 1
  BY DEF SoundSoFar, PlanTyped
<1>3. q.free = p.free /\ q.start = Append(p.start, 0) /\ q = [free |-> p.free, start |-> Append(p.start, 0)]
  <2> HIDE DEF p
  <2> QED BY <1>1, <1>2 DEF p
<1>4. 0 \in Durations
  BY DEF Durations
<1>5. PlanTyped(v, m)
  <2> HIDE DEF p, q
  <2>1. Append(p.start, 0) \in Seq(Durations) /\ Len(Append(p.start, 0)) = m
    BY <1>0, <1>2, <1>4
  <2> QED BY <1>2, <1>3, <2>1 DEF PlanTyped, q
<1>6. \A t : Said(v, m, t) = Said(v, m - 1, t)
  BY <1>3 DEF Said
<1>7. After(v, g, m + 1) = After(v, g, m - 1 + 1)
  BY <1>0, AfterStep
<1>8. \A t : Working(v, guess, g, m, t) = Working(v, guess, g, m - 1, t)
  BY WorkingStep
<1>9. Covers(v, guess, g, m) /\ GivesLess(v, guess, g, m)
  BY <1>6, <1>7, <1>8 DEF SoundSoFar, Covers, GivesLess
<1>10. NotPast(v, g, m)
  BY <1>3, <1>7 DEF SoundSoFar, NotPast
<1>11. ASSUME NEW k \in 1 .. m, ~v.jobs[k].running
       PROVE  k \in 1 .. m - 1 /\ q.start[k] = p.start[k]
  <2>1. k \in 1 .. m - 1
    BY <1>0, <1>11
  <2> HIDE DEF p, q
  <2> QED BY <1>2, <1>3, <2>1
<1>12. StartsCovered(v, g, m)
  BY <1>11 DEF SoundSoFar, StartsCovered
<1>13. ExactSoFar(v, guess, g, m - 1) => ExactSoFar(v, guess, g, m)
  BY <1>3, <1>6, <1>7, <1>8, <1>11 DEF ExactSoFar
<1> QED BY <1>5, <1>9, <1>10, <1>12, <1>13 DEF SoundSoFar

\* Where a row that waits is put, and what becomes of the slot.
LEMMA WaitingRow ==
  ASSUME NEW v \in Queues, Cardinality(Running(v)) <= v.slots,
         NEW m \in DOMAIN v.jobs, ~v.jobs[m].running, PlanTyped(v, m - 1)
  PROVE  \E slot \in Slots(v), start \in Durations, next \in Durations :
           LET free == Plans(v)[m - 1].free
               r    == v.jobs[m]
           IN  /\ \A s \in Slots(v) : NoLater(free[slot], free[s])
               /\ start = IF free[slot] = 0 /\ r.blocked THEN Unknown ELSE free[slot]
               /\ next = Plus(start, Total(r))
               /\ Plans(v)[m] = [free |-> [free EXCEPT ![slot] = next],
                                 start |-> Append(Plans(v)[m - 1].start, start)]
<1> DEFINE p == Plans(v)[m - 1]
           free == p.free
           r == v.jobs[m]
           slot == Soonest(free)
           start == IF free[slot] = 0 /\ r.blocked THEN Unknown ELSE free[slot]
           next == Plus(start, Total(r))
<1>1. m \in 1 .. Len(v.jobs) /\ r \in ViewRow
  BY QueueIs
<1>2. Plans(v)[m] = Lay(p, r)
  BY <1>1, PlansIs
<1>3. Lay(p, r) = [free |-> [free EXCEPT ![slot] = next], start |-> Append(p.start, start)]
  BY DEF Lay, Lasts
<1>4. free \in [Slots(v) -> Durations]
  BY DEF PlanTyped
<1>5. IsFiniteSet(Slots(v)) /\ Slots(v) # {}
  BY SlotsIs, QueueIs, FS_EmptySet
<1>6. slot \in Slots(v) /\ \A s \in Slots(v) : NoLater(free[slot], free[s])
  <2> HIDE DEF free
  <2> QED BY <1>4, <1>5, SoonestIs
<1>7. start \in Durations
  <2> HIDE DEF free, slot
  <2> QED BY <1>4, <1>6 DEF Durations
<1>8. next \in Durations
  <2>1. Total(r) \in Durations
    BY <1>1, TotalIs
  <2>2. \A a, b \in Durations : Plus(a, b) \in Durations
    BY DEF Durations, Plus, Unknown
  <2> HIDE DEF start, r
  <2> QED BY <1>7, <2>1, <2>2
<1> HIDE DEF p, r, slot, start, next
<1> QED BY <1>2, <1>3, <1>6, <1>7, <1>8 DEF p, r, slot, start, next

\* All slots are held exactly when none is free.
LEMMA SaidIs ==
  ASSUME NEW v \in Queues, Cardinality(Running(v)) <= v.slots,
         NEW free \in [Slots(v) -> Durations], NEW t
  PROVE  /\ Cardinality(Taken(free, t)) \in 0 .. v.slots
         /\ (\A s \in Slots(v) : Later(free[s], t)) => Cardinality(Taken(free, t)) = v.slots
         /\ (\E s \in Slots(v) : ~Later(free[s], t)) => Cardinality(Taken(free, t)) < v.slots
<1>1. IsFiniteSet(Slots(v)) /\ Cardinality(Slots(v)) = v.slots /\ v.slots \in Nat
  BY SlotsIs, QueueIs
<1>2. Taken(free, t) \subseteq Slots(v)
  BY DEF Taken
<1>3. IsFiniteSet(Taken(free, t)) /\ Cardinality(Taken(free, t)) \in Nat
      /\ Cardinality(Taken(free, t)) <= v.slots
  BY <1>1, <1>2, FS_Subset, FS_CardinalityType
<1>4. (\A s \in Slots(v) : Later(free[s], t)) => Taken(free, t) = Slots(v)
  BY DEF Taken
<1>5. ASSUME NEW s \in Slots(v), ~Later(free[s], t) PROVE Cardinality(Taken(free, t)) < v.slots
  <2>1. Taken(free, t) # Slots(v)
    BY <1>5 DEF Taken
  <2>2. Cardinality(Taken(free, t)) # Cardinality(Slots(v))
    BY <1>1, <1>2, <2>1, FS_Subset
  <2> QED BY <1>1, <1>3, <2>2
<1> QED BY <1>1, <1>3, <1>4, <1>5

\* A row that waits, laid in the slot free first: the step of the argument.
LEMMA SoundRow ==
  ASSUME NEW v \in Queues, Cardinality(Running(v)) <= v.slots,
         NEW guess \in [DOMAIN v.jobs -> Nat],
         NEW g \in [DOMAIN v.jobs -> Nat], Serves(v, guess, g),
         NEW m \in DOMAIN v.jobs, ~v.jobs[m].running, SoundSoFar(v, guess, g, m - 1)
  PROVE  SoundSoFar(v, guess, g, m)
         /\ (Certain(v) /\ ExactSoFar(v, guess, g, m - 1) => ExactSoFar(v, guess, g, m))
<1> DEFINE r    == v.jobs[m]
           s    == g[m]
           long == Length(v, guess, m, s)
           free == Plans(v)[m - 1].free
           W(t) == Working(v, guess, g, m - 1, t)
           X(t) == Working(v, guess, g, m, t)
           S(t) == Said(v, m - 1, t)
           Y(t) == Said(v, m, t)
           N    == v.slots
<1>0. /\ m \in 1 .. Len(v.jobs) /\ m \in Nat /\ m - 1 \in Nat /\ m - 1 + 1 = m
      /\ r \in ViewRow /\ N \in Nat \ {0}
  BY QueueIs
<1>1. PICK slot \in Slots(v), start \in Durations, next \in Durations :
        /\ \A k \in Slots(v) : NoLater(free[slot], free[k])
        /\ start = IF free[slot] = 0 /\ r.blocked THEN Unknown ELSE free[slot]
        /\ next = Plus(start, Total(r))
        /\ Plans(v)[m] = [free |-> [free EXCEPT ![slot] = next],
                          start |-> Append(Plans(v)[m - 1].start, start)]
  BY WaitingRow DEF SoundSoFar
<1> DEFINE f == free[slot]
           a == After(v, g, m)
<1>2. /\ free \in [Slots(v) -> Durations] /\ f \in Durations
      /\ Plans(v)[m - 1].start \in Seq(Durations) /\ Len(Plans(v)[m - 1].start) = m - 1
  BY DEF SoundSoFar, PlanTyped
\* What the job really gets.
<1>3. /\ s \in Nat /\ s \in Turns(v, guess, g, m)
      /\ long \in Nat /\ FreeAfter(v, guess, g, m) = s + long
      /\ Total(r) # Unknown /\ (~r.blocked \/ s # 0) => long = Total(r)
  <2>1. s = Min(Turns(v, guess, g, m))
    BY DEF Serves
  <2>2. s \in Nat /\ s \in Turns(v, guess, g, m)
    BY <2>1, TurnsIs
  <2>3. Remaining(r) = Total(r)
    BY DEF Remaining
  <2> QED BY <2>2, <2>3, LengthIs DEF FreeAfter
<1>4. a \in Nat /\ s >= a /\ After(v, g, m + 1) = s /\ After(v, g, m - 1 + 1) = a
  <2>1. a \in Nat /\ s >= a
    BY <1>3, AfterIs DEF Turns
  <2> QED BY <1>0, <2>1, AfterStep
<1>5. \A t \in Nat : /\ X(t) \in Nat /\ W(t) \in Nat
                    /\ X(t) = W(t) + One(s + long > t)
  BY <1>3, WorkingStep
<1>6. W(s) < N /\ \A t \in Nat : t >= s => W(t) <= W(s)
  <2>1. \A t : W(t) = Cardinality(Busy(v, guess, g, m, t))
    BY <1>0 DEF Working
  <2>2. W(s) < N
    BY <1>3, <2>1 DEF Turns
  <2>3. ASSUME NEW t \in Nat, t >= s PROVE W(t) <= W(s)
    <3>1. s <= t
      BY <1>3, <2>3
    <3> HIDE DEF W, s
    <3> QED BY <1>3, <2>1, <3>1, WorkingFalls
  <2> QED BY <2>2, <2>3
<1>7. \A t \in Nat : /\ S(t) \in Nat /\ Y(t) \in Nat
                    /\ Y(t) = S(t) - One(Later(f, t)) + One(Later(next, t))
  <2>1. IsFiniteSet(Slots(v))
    BY SlotsIs
  <2> DEFINE then == Plans(v)[m].free
  <2>2. \A t : S(t) = Cardinality(Taken(free, t)) /\ Y(t) = Cardinality(Taken(then, t))
    BY DEF Said
  <2>3. then = [free EXCEPT ![slot] = next]
    BY <1>1
  <2>4. then \in [Slots(v) -> Durations] /\ then[slot] = next
        /\ \A x \in Slots(v) \ {slot} : then[x] = free[x]
    BY <1>2, <2>3
  <2> HIDE DEF free, then, S, Y
  <2>5. slot \in Slots(v) /\ free \in [Slots(v) -> Durations]
    BY <1>2
  <2> TAKE t \in Nat
  <2>6. /\ Cardinality(Taken(free, t)) \in Nat /\ Cardinality(Taken(then, t)) \in Nat
        /\ Cardinality(Taken(then, t))
             = Cardinality(Taken(free, t)) - One(Later(free[slot], t)) + One(Later(then[slot], t))
    BY <2>1, <2>4, <2>5, TakenStep
  <2> QED BY <2>2, <2>4, <2>6 DEF f
<1>8. \A t \in Nat : /\ S(t) <= N /\ (Later(f, t) => S(t) = N) /\ (~Later(f, t) => S(t) < N)
  <2>1. ASSUME NEW t \in Nat, Later(f, t), NEW k \in Slots(v) PROVE Later(free[k], t)
    <3>1. NoLater(f, free[k]) /\ free[k] \in Durations
      BY <1>1, <1>2
    <3> HIDE DEF f, free
    <3> QED BY <1>2, <2>1, <3>1 DEF NoLater, Later, Durations, Unknown
  <2>2. \A t : S(t) = Cardinality(Taken(free, t))
    BY DEF Said
  <2> HIDE DEF S, free
  <2> TAKE t \in Nat
  <2>3. /\ Cardinality(Taken(free, t)) \in 0 .. N
        /\ (\A k \in Slots(v) : Later(free[k], t)) => Cardinality(Taken(free, t)) = N
        /\ (\E k \in Slots(v) : ~Later(free[k], t)) => Cardinality(Taken(free, t)) < N
    BY <1>2, SaidIs
  <2> HIDE DEF N
  <2> QED BY <1>0, <2>1, <2>2, <2>3
<1>9. f # Unknown => f \in Nat /\ a <= f /\ s <= f
  <2>1. ASSUME f # Unknown PROVE f \in Nat /\ a <= f
    <3>1. f \in Nat
      BY <1>2, <2>1 DEF Durations
    <3>2. a <= f
      BY <1>4, <2>1 DEF SoundSoFar, NotPast
    <3> QED BY <3>1, <3>2
  <2>2. ASSUME f # Unknown PROVE s <= f
    <3>1. ~Later(f, f) /\ f >= a
      BY <1>4, <2>1, <2>2 DEF Later
    <3>2. S(f) < N /\ W(f) <= S(f)
      <4> HIDE DEF f, S, W
      <4>1. S(f) < N
        BY <1>8, <2>1, <2>2, <3>1
      <4>2. W(f) <= S(f)
        BY <1>4, <2>1, <2>2, <3>1 DEF SoundSoFar, Covers, S, W
      <4> QED BY <4>1, <4>2
    <3>3. Cardinality(Busy(v, guess, g, m, f)) < N
      <4>1. W(f) = Cardinality(Busy(v, guess, g, m, f))
        BY <1>0 DEF Working
      <4>2. W(f) \in Nat /\ S(f) \in Nat
        BY <1>5, <1>7, <2>1, <2>2
      <4> HIDE DEF f, S, W
      <4> QED BY <1>0, <3>2, <4>1, <4>2
    <3>4. s = Min(Turns(v, guess, g, m))
      BY DEF Serves
    <3> HIDE DEF f
    <3> QED BY <2>1, <2>2, <3>1, <3>3, <3>4, TurnIsEarly
  <2> QED BY <2>1, <2>2
\* What becomes of the slot.
<1>10. /\ next = Unknown \/ (f # Unknown /\ Total(r) \in Nat /\ next = f + Total(r))
       /\ f = 0 /\ r.blocked => next = Unknown
       /\ next # Unknown /\ (~r.blocked \/ s # 0) => long = Total(r)
  <2>1. Total(r) \in Durations
    BY <1>0, TotalIs
  <2> HIDE DEF f, r, s, long
  <2>2. next = Unknown \/ (f # Unknown /\ Total(r) # Unknown /\ next = f + Total(r))
    BY <1>1 DEF Plus, f
  <2>3. f = 0 /\ r.blocked => next = Unknown
    BY <1>1 DEF Plus, f
  <2> QED BY <1>3, <2>1, <2>2, <2>3 DEF Durations
<1> HIDE DEF r, s, long, free, W, X, S, Y, f, a
<1>11. \A t \in Nat : Later(f, t) => Later(next, t)
  BY <1>9, <1>10 DEF Later
\* Before anything waited, what is held is given back no sooner.
<1>12. s = 0 => a = 0 /\ \A t \in Nat : S(0) - S(t) <= W(0) - W(t)
  <2>1. s = 0 => a = 0
    BY <1>4
  <2> QED BY <1>4, <2>1 DEF SoundSoFar, GivesLess, S, W
\* The five parts.
<1>13. PlanTyped(v, m)
  <2>1. Append(Plans(v)[m - 1].start, start) \in Seq(Durations)
        /\ Len(Append(Plans(v)[m - 1].start, start)) = m
    BY <1>0, <1>2
  <2>2. [free EXCEPT ![slot] = next] \in [Slots(v) -> Durations]
    BY <1>2
  <2> QED BY <1>1, <2>1, <2>2 DEF PlanTyped
<1>14. ASSUME NEW t \in Nat, t >= s PROVE X(t) <= Y(t)
  <2>0. /\ X(t) \in Nat /\ W(t) \in Nat /\ W(0) \in Nat /\ W(s) \in Nat
        /\ S(t) \in Nat /\ Y(t) \in Nat /\ S(0) \in Nat
        /\ X(t) = W(t) + One(s + long > t) /\ W(t) <= W(s) /\ W(s) < N
        /\ Y(t) = S(t) - One(Later(f, t)) + One(Later(next, t))
    BY <1>3, <1>5, <1>6, <1>7, <1>14
  <2>1. CASE Later(f, t)
    <3>1. Later(next, t) /\ S(t) = N
      BY <1>8, <1>11, <2>1
    <3> QED BY <1>0, <2>0, <2>1, <3>1 DEF One
  <2>2. CASE ~Later(f, t)
    <3>0. f # Unknown /\ f \in Nat /\ f <= t /\ s <= f /\ a <= f
      BY <1>9, <2>2 DEF Later
    <3>1. W(t) <= S(t)
      <4>1. t >= a
        BY <1>4, <3>0
      <4> QED BY <1>4, <4>1 DEF SoundSoFar, Covers, S, W
    <3>2. Y(t) = S(t) + One(Later(next, t))
      <4>1. One(Later(next, t)) \in {0, 1}
        BY DEF One
      <4> QED BY <2>0, <2>2, <4>1 DEF One
    <3>3. CASE Later(next, t)
      BY <2>0, <3>1, <3>2, <3>3 DEF One
    <3>4. CASE ~Later(next, t)
      <4>1. next # Unknown /\ Total(r) \in Nat /\ next = f + Total(r) /\ next <= t
        BY <1>10, <3>0, <3>4 DEF Later
      <4>2. CASE ~r.blocked \/ s # 0
        <5>1. ~(s + long > t)
          BY <1>3, <1>10, <3>0, <4>1, <4>2
        <5> QED BY <2>0, <3>1, <3>2, <3>4, <5>1 DEF One
      <4>3. CASE r.blocked /\ s = 0
        <5>1. f > 0
          BY <1>10, <3>0, <4>1, <4>3
        <5>2. S(0) = N
          BY <1>8, <5>1 DEF Later
        <5>3. S(0) - S(t) <= W(0) - W(t)
          BY <1>12, <4>3
        <5>4. W(t) + 1 <= S(t)
          <6>1. W(0) < N /\ W(0) \in Nat /\ W(t) \in Nat /\ S(t) \in Nat /\ N \in Nat
            BY <1>0, <1>5, <2>0, <4>3
          <6> HIDE DEF W, S, N
          <6> QED BY <5>2, <5>3, <6>1
        <5> QED BY <2>0, <3>2, <3>4, <5>4 DEF One
      <4> QED BY <4>2, <4>3
    <3> QED BY <3>3, <3>4
  <2> QED BY <2>1, <2>2
<1>15. Covers(v, guess, g, m)
  BY <1>4, <1>14 DEF Covers, X, Y
<1>16. ASSUME s = 0, NEW t \in Nat PROVE Y(0) - Y(t) <= X(0) - X(t)
  <2>0. /\ X(t) \in Nat /\ W(t) \in Nat /\ S(t) \in Nat /\ Y(t) \in Nat
        /\ X(0) \in Nat /\ W(0) \in Nat /\ S(0) \in Nat /\ Y(0) \in Nat
        /\ X(t) = W(t) + One(s + long > t) /\ X(0) = W(0) + One(s + long > 0)
        /\ Y(t) = S(t) - One(Later(f, t)) + One(Later(next, t))
        /\ Y(0) = S(0) - One(Later(f, 0)) + One(Later(next, 0))
    BY <1>5, <1>7
  <2>1. S(0) - S(t) <= W(0) - W(t)
    BY <1>12, <1>16
  <2>2. s + long > t => s + long > 0
    BY <1>3
  <2>3. W(0) - W(t) <= X(0) - X(t)
    BY <2>0, <2>2 DEF One
  <2>4. CASE Later(f, 0)
    <3>1. Later(next, 0)
      BY <1>11, <2>4
    <3>2. One(Later(f, t)) <= One(Later(next, t)) /\ One(Later(next, t)) \in Nat /\ One(Later(f, t)) \in Nat
      BY <1>11 DEF One
    <3>3. Y(0) = S(0)
      BY <2>0, <2>4, <3>1 DEF One
    <3> QED BY <2>0, <2>1, <2>3, <3>2, <3>3
  <2>5. CASE ~Later(f, 0)
    <3>1. f = 0
      BY <1>9, <2>5 DEF Later
    <3>2. ~Later(f, t)
      BY <3>1 DEF Later, Unknown
    <3>3. Y(0) - Y(t) = S(0) - S(t) + One(Later(next, 0)) - One(Later(next, t))
      <4>1. One(Later(next, 0)) \in {0, 1} /\ One(Later(next, t)) \in {0, 1}
        BY DEF One
      <4>2. One(Later(f, 0)) = 0 /\ One(Later(f, t)) = 0
        BY <2>5, <3>2 DEF One
      <4> QED BY <2>0, <4>1, <4>2
    <3>4. CASE next = Unknown
      <4>1. One(Later(next, 0)) = 1 /\ One(Later(next, t)) = 1
        BY <3>4 DEF One, Later
      <4> QED BY <2>0, <2>1, <2>3, <3>3, <4>1
    <3>5. CASE next # Unknown
      <4>1. next = long /\ long = s + long
        BY <1>3, <1>10, <1>16, <3>1, <3>5
      <4>2. /\ One(Later(next, 0)) = One(s + long > 0)
            /\ One(Later(next, t)) = One(s + long > t)
        BY <3>5, <4>1 DEF Later, One
      <4>3. One(s + long > 0) \in {0, 1} /\ One(s + long > t) \in {0, 1}
        BY DEF One
      <4> QED BY <2>0, <2>1, <3>3, <4>2, <4>3
    <3> QED BY <3>4, <3>5
  <2> QED BY <2>4, <2>5
<1>17. GivesLess(v, guess, g, m)
  BY <1>4, <1>16 DEF GivesLess, X, Y
<1>18. NotPast(v, g, m)
  <2>1. ASSUME NEW k \in Slots(v), Plans(v)[m].free[k] # Unknown
        PROVE  s <= Plans(v)[m].free[k]
    <3>1. CASE k = slot
      <4>1. Plans(v)[m].free[k] = next
        BY <1>1, <1>2, <3>1
      <4>2. f \in Nat /\ s <= f /\ Total(r) \in Nat /\ next = f + Total(r)
        BY <1>9, <1>10, <2>1, <4>1
      <4> QED BY <1>3, <4>1, <4>2
    <3>2. CASE k # slot
      <4>1. Plans(v)[m].free[k] = free[k]
        BY <1>1, <1>2, <3>2
      <4>2. NoLater(f, free[k]) /\ free[k] # Unknown /\ free[k] \in Durations
        BY <1>1, <1>2, <2>1, <4>1 DEF f
      <4>3. f # Unknown /\ f <= free[k] /\ f \in Nat /\ s <= f /\ free[k] \in Nat
        BY <1>9, <4>2 DEF NoLater, Durations
      <4> QED BY <1>3, <4>1, <4>3
    <3> QED BY <3>1, <3>2
  <2> QED BY <1>4, <2>1 DEF NotPast
<1>19. StartsCovered(v, g, m)
  <2>1. ASSUME NEW k \in 1 .. m, ~v.jobs[k].running, Plans(v)[m].start[k] # Unknown
        PROVE  g[k] <= Plans(v)[m].start[k]
    <3>1. CASE k = m
      <4>1. Plans(v)[m].start[m] = start
        BY <1>0, <1>1, <1>2
      <4>2. start = f /\ f # Unknown
        BY <1>1, <2>1, <3>1, <4>1 DEF f
      <4> QED BY <1>9, <3>1, <4>1, <4>2 DEF s
    <3>2. CASE k # m
      <4>1. k \in 1 .. m - 1
        BY <1>0, <3>2
      <4>2. Plans(v)[m].start[k] = Plans(v)[m - 1].start[k]
        BY <1>0, <1>1, <1>2, <4>1
      <4> QED BY <2>1, <4>1, <4>2 DEF SoundSoFar, StartsCovered
    <3> QED BY <3>1, <3>2
  <2> QED BY <2>1 DEF StartsCovered
\* And if all is known.
<1>20. ASSUME Certain(v), ExactSoFar(v, guess, g, m - 1) PROVE ExactSoFar(v, guess, g, m)
  <2>1. f # Unknown
    BY <1>20 DEF ExactSoFar, f, free
  <2>2. ~r.blocked /\ Total(r) # Unknown
    BY <1>20 DEF Certain, r
  <2>3. Total(r) \in Nat
    BY <1>0, <2>2, TotalIs DEF Durations
  <2>4. start = f /\ next = f + Total(r) /\ next # Unknown
    <3>1. start = f
      BY <1>1, <2>2 DEF f, r
    <3>2. next = f + Total(r)
      BY <1>1, <2>1, <2>2, <3>1 DEF Plus, r
    <3>3. f \in Nat
      BY <1>9, <2>1
    <3> QED BY <2>3, <3>1, <3>2, <3>3 DEF Unknown
  <2>5. long = Total(r)
    BY <1>3, <2>2
  <2>6. \A t \in Nat : t >= a => W(t) = S(t)
    BY <1>4, <1>20 DEF ExactSoFar, W, S
  <2>7. f = s
    <3>1. s \in Nat /\ s <= f /\ f \in Nat /\ W(s) = S(s) /\ W(s) < N
      BY <1>3, <1>4, <1>6, <1>9, <2>1, <2>6
    <3>2. ~Later(f, s)
      <4> HIDE DEF W, N
      <4>1. W(s) < N => W(s) # N
        <5>1. W(s) \in Nat /\ N \in Nat
          BY <1>0, <1>3, <1>5
        <5> QED BY <5>1
      <4>2. W(s) # N
        BY <3>1, <4>1
      <4> QED BY <1>8, <3>1, <4>2
    <3> QED BY <3>1, <3>2 DEF Later
  <2>8. ASSUME NEW t \in Nat, t >= s PROVE X(t) = Y(t)
    <3>1. /\ W(t) \in Nat /\ S(t) \in Nat /\ W(t) = S(t) /\ X(t) = W(t) + One(s + long > t)
          /\ Y(t) = S(t) - One(Later(f, t)) + One(Later(next, t))
      <4>1. t >= a
        BY <1>3, <1>4, <2>8
      <4> QED BY <1>5, <1>7, <2>6, <4>1
    <3>2. One(Later(f, t)) = 0 /\ One(Later(next, t)) = One(s + long > t)
      BY <1>3, <2>1, <2>4, <2>5, <2>7, <2>8 DEF Later, One
    <3>3. One(s + long > t) \in {0, 1}
      BY DEF One
    <3> QED BY <3>1, <3>2, <3>3
  <2>9. \A t \in Nat : t >= After(v, g, m + 1) => Working(v, guess, g, m, t) = Said(v, m, t)
    BY <1>4, <2>8 DEF X, Y
  <2>10. \A k \in Slots(v) : Plans(v)[m].free[k] # Unknown
    <3> TAKE k \in Slots(v)
    <3>1. Plans(v)[m].free[k] = IF k = slot THEN next ELSE free[k]
      BY <1>1, <1>2
    <3>2. free[k] # Unknown
      BY <1>20 DEF ExactSoFar, free
    <3> QED BY <2>4, <3>1, <3>2
  <2>11. \A k \in 1 .. m : ~v.jobs[k].running => Plans(v)[m].start[k] = g[k]
    <3> TAKE k \in 1 .. m
    <3>1. CASE k = m
      <4>1. Plans(v)[m].start[m] = start
        BY <1>0, <1>1, <1>2
      <4> QED BY <2>4, <2>7, <3>1, <4>1 DEF s
    <3>2. CASE k # m
      <4>1. k \in 1 .. m - 1
        BY <1>0, <3>2
      <4>2. Plans(v)[m].start[k] = Plans(v)[m - 1].start[k]
        BY <1>0, <1>1, <1>2, <4>1
      <4> QED BY <1>20, <4>1, <4>2 DEF ExactSoFar
    <3> QED BY <3>1, <3>2
  <2> QED BY <2>9, <2>10, <2>11 DEF ExactSoFar
<1> QED BY <1>13, <1>15, <1>17, <1>18, <1>19, <1>20 DEF SoundSoFar

\* The forecast before any row: the jobs that run hold their slots.
LEMMA SoundStart ==
  ASSUME NEW v \in Queues, NEW guess \in [DOMAIN v.jobs -> Nat],
         NEW g \in [DOMAIN v.jobs -> Nat], Serves(v, guess, g)
  PROVE  SoundSoFar(v, guess, g, 0) /\ (Certain(v) => ExactSoFar(v, guess, g, 0))
<1> DEFINE free == Plans(v)[0].free
           A(t) == Taken(free, t)
           B(t) == Busy(v, guess, g, 1, t)
<1>0. DOMAIN v.jobs = 1 .. Len(v.jobs) /\ Len(v.jobs) \in Nat /\ 0 + 1 = 1
  BY QueueIs
<1>1. Plans(v)[0] = [free |-> FreeAt(v), start |-> <<>>]
  BY PlansIs
<1>2. \A k \in Running(v) : v.jobs[k] \in ViewRow /\ Remaining(v.jobs[k]) \in Durations
  BY QueueIs, TotalIs DEF Running
<1>3. /\ free = [s \in Slots(v) |-> IF s \in Running(v) THEN Remaining(v.jobs[s]) ELSE 0]
      /\ free \in [Slots(v) -> Durations]
  BY <1>1, <1>2 DEF FreeAt, Slots, Durations
<1>4. PlanTyped(v, 0)
  BY <1>1, <1>3 DEF PlanTyped
<1>5. Ahead(v, 1) = Running(v)
  <2>1. \A i \in DOMAIN v.jobs : ~(i < 1)
    BY <1>0
  <2> QED BY <2>1 DEF Ahead, Running
<1>6. After(v, g, 1) = 0
  BY <1>5, AfterIs DEF Running
<1>7. \A i \in Running(v) :
        /\ FreeAfter(v, guess, g, i) \in Nat
        /\ Remaining(v.jobs[i]) # Unknown => FreeAfter(v, guess, g, i) = Remaining(v.jobs[i])
  <2> TAKE i \in Running(v)
  <2>1. i \in DOMAIN v.jobs /\ v.jobs[i].running /\ g[i] = 0
    BY DEF Running, Serves
  <2>2. Length(v, guess, i, 0) \in Nat
        /\ (Remaining(v.jobs[i]) # Unknown => Length(v, guess, i, 0) = Remaining(v.jobs[i]))
    BY <2>1, LengthIs
  <2> QED BY <2>1, <2>2 DEF FreeAfter
<1>8. ASSUME NEW t \in Nat
      PROVE  /\ A(t) = {i \in Running(v) : Later(Remaining(v.jobs[i]), t)}
             /\ B(t) = {i \in Running(v) : FreeAfter(v, guess, g, i) > t}
  <2>1. ~Later(0, t)
    BY DEF Later, Unknown
  <2> QED BY <1>3, <1>5, <2>1 DEF Taken, Busy, Slots
<1>9. ASSUME NEW t \in Nat
      PROVE  /\ B(t) \subseteq A(t)
             /\ A(0) \ A(t) \subseteq B(0) \ B(t)
             /\ A(t) \subseteq A(0) /\ B(t) \subseteq B(0)
  <2> HIDE DEF A, B
  <2>1. B(t) \subseteq A(t)
    BY <1>7, <1>8 DEF Later
  <2>2. A(0) \ A(t) \subseteq B(0) \ B(t)
    BY <1>7, <1>8 DEF Later
  <2>3. B(t) \subseteq B(0)
    BY <1>7, <1>8
  <2>4. A(t) \subseteq A(0)
    BY <1>2, <1>8 DEF Later, Durations
  <2> QED BY <2>1, <2>2, <2>3, <2>4
<1>10. IsFiniteSet(Running(v))
  BY <1>5, AheadIs
<1>11. ASSUME NEW t \in Nat
       PROVE  /\ IsFiniteSet(A(t)) /\ Cardinality(A(t)) \in Nat
              /\ IsFiniteSet(B(t)) /\ Cardinality(B(t)) \in Nat
  BY <1>8, <1>10, FS_Subset, FS_CardinalityType
<1>12. \A t : Said(v, 0, t) = Cardinality(A(t)) /\ Working(v, guess, g, 0, t) = Cardinality(B(t))
  BY <1>0 DEF Said, Working
<1> HIDE DEF A, B
<1>13. ASSUME NEW t \in Nat PROVE Cardinality(B(t)) <= Cardinality(A(t))
  BY <1>9, <1>11, FS_Subset
<1>14. ASSUME NEW t \in Nat
       PROVE  Cardinality(A(0)) - Cardinality(A(t)) <= Cardinality(B(0)) - Cardinality(B(t))
  <2>1. Cardinality(A(0) \ A(t)) = Cardinality(A(0)) - Cardinality(A(0) \cap A(t))
        /\ IsFiniteSet(A(0) \ A(t))
    BY <1>11, FS_Difference
  <2>2. Cardinality(B(0) \ B(t)) = Cardinality(B(0)) - Cardinality(B(0) \cap B(t))
        /\ IsFiniteSet(B(0) \ B(t))
    BY <1>11, FS_Difference
  <2>3. A(0) \cap A(t) = A(t) /\ B(0) \cap B(t) = B(t)
    BY <1>9
  <2>4. Cardinality(A(0) \ A(t)) <= Cardinality(B(0) \ B(t))
    BY <1>9, <2>2, FS_Subset
  <2> QED BY <2>1, <2>2, <2>3, <2>4
<1>15. Covers(v, guess, g, 0) /\ GivesLess(v, guess, g, 0)
  BY <1>12, <1>13, <1>14 DEF Covers, GivesLess
<1>16. NotPast(v, g, 0)
  <2>1. \A s \in Slots(v) : free[s] # Unknown => 0 <= free[s]
    BY <1>3 DEF Durations
  <2> QED BY <1>0, <1>6, <2>1 DEF NotPast
<1>17. StartsCovered(v, g, 0)
  BY DEF StartsCovered
<1>18. ASSUME Certain(v) PROVE ExactSoFar(v, guess, g, 0)
  <2>1. ASSUME NEW k \in Running(v) PROVE Remaining(v.jobs[k]) \in Nat
    <3>1. k \in DOMAIN v.jobs /\ v.jobs[k].running /\ v.jobs[k] \in ViewRow
      BY <1>2 DEF Running
    <3>2. Total(v.jobs[k]) \in Nat /\ v.jobs[k].elapsed \in Nat
      BY <1>18, <3>1, TotalIs DEF Certain, Durations, ViewRow
    <3>3. Less(Total(v.jobs[k]), v.jobs[k].elapsed) \in Nat
      BY <3>2 DEF Less, Unknown
    <3> QED BY <3>1, <3>3 DEF Remaining
  <2>2. ASSUME NEW t \in Nat PROVE A(t) = B(t)
    <3>1. \A k \in Running(v) : /\ Remaining(v.jobs[k]) # Unknown
                              /\ FreeAfter(v, guess, g, k) = Remaining(v.jobs[k])
      BY <1>7, <2>1 DEF Unknown
    <3>2. \A k \in Running(v) : Later(Remaining(v.jobs[k]), t) <=> FreeAfter(v, guess, g, k) > t
      BY <3>1 DEF Later
    <3>3. /\ A(t) = {i \in Running(v) : Later(Remaining(v.jobs[i]), t)}
          /\ B(t) = {i \in Running(v) : FreeAfter(v, guess, g, i) > t}
      BY <1>8
    <3> HIDE DEF A, B
    <3> QED BY <3>2, <3>3, Zenon
  <2>3. \A s \in Slots(v) : free[s] # Unknown
    BY <1>3, <2>1 DEF Unknown
  <2> QED BY <1>12, <2>2, <2>3 DEF ExactSoFar
<1> QED BY <1>4, <1>15, <1>16, <1>17, <1>18 DEF SoundSoFar

\* So every row.
LEMMA SoundAll ==
  ASSUME NEW v \in Queues, Cardinality(Running(v)) <= v.slots,
         NEW guess \in [DOMAIN v.jobs -> Nat],
         NEW g \in [DOMAIN v.jobs -> Nat], Serves(v, guess, g)
  PROVE  \A m \in 0 .. Len(v.jobs) :
           SoundSoFar(v, guess, g, m) /\ (Certain(v) => ExactSoFar(v, guess, g, m))
<1> DEFINE n == Len(v.jobs)
           S == {m \in 0 .. n :
                   SoundSoFar(v, guess, g, m) /\ (Certain(v) => ExactSoFar(v, guess, g, m))}
<1>1. n \in Nat /\ DOMAIN v.jobs = 1 .. n
  BY QueueIs
<1>2. 0 \in S
  <2>1. SoundSoFar(v, guess, g, 0) /\ (Certain(v) => ExactSoFar(v, guess, g, 0))
    BY SoundStart
  <2>2. 0 \in 0 .. n
    BY <1>1
  <2> HIDE DEF n
  <2> QED BY <2>1, <2>2
<1>3. ASSUME NEW m \in 1 .. n, m - 1 \in S PROVE m \in S
  <2>1. /\ SoundSoFar(v, guess, g, m - 1) /\ (Certain(v) => ExactSoFar(v, guess, g, m - 1))
        /\ m \in DOMAIN v.jobs /\ m \in 0 .. n
    BY <1>1, <1>3
  <2>2. CASE v.jobs[m].running
    BY <2>1, <2>2, RunningRow
  <2>3. CASE ~v.jobs[m].running
    BY <2>1, <2>3, SoundRow
  <2> QED BY <2>1, <2>2, <2>3
<1>4. \A m \in 0 .. n : m \in S
  <2> HIDE DEF S, n
  <2> QED BY <1>1, <1>2, <1>3, UpTo
<1> QED BY <1>4

\* forecast_queue of any queue, however long it is and whatever its jobs turn out
\* to take, if no more jobs run than there are slots.
THEOREM ForecastIsNeverEarly ==
  ASSUME NEW v \in Queues, Cardinality(Running(v)) <= v.slots
  PROVE  Sound(v)
<1> SUFFICES ASSUME NEW guess \in [DOMAIN v.jobs -> Guesses], NEW k \in Waits(v)
             PROVE  /\ forecast_queue(v)[k] # Unknown
                         => forecast_queue(v)[k] >= Served(v, guess)[k]
                    /\ Certain(v) => forecast_queue(v)[k] = Served(v, guess)[k]
  BY DEF Sound
<1> DEFINE g == Served(v, guess)
           n == Len(v.jobs)
<1>1. guess \in [DOMAIN v.jobs -> Nat]
  BY ForecastAssumption
<1>2. g \in [DOMAIN v.jobs -> Nat] /\ Serves(v, guess, g)
  BY <1>1, ServedIs
<1>3. n \in Nat /\ DOMAIN v.jobs = 1 .. n /\ n \in 0 .. n
  BY QueueIs
<1>4. k \in 1 .. n /\ ~v.jobs[k].running /\ g[k] \in Nat
  BY <1>2, <1>3 DEF Waits
<1> HIDE DEF g
<1>5. SoundSoFar(v, guess, g, n) /\ (Certain(v) => ExactSoFar(v, guess, g, n))
  BY <1>1, <1>2, <1>3, SoundAll
<1> DEFINE x == Plans(v)[n].start[k]
<1>6. forecast_queue(v)[k] = x
  BY DEF forecast_queue
<1>7. x \in Durations
  BY <1>4, <1>5 DEF SoundSoFar, PlanTyped
<1>8. x # Unknown => g[k] <= x
  BY <1>4, <1>5 DEF SoundSoFar, StartsCovered
<1>9. Certain(v) => x = g[k]
  BY <1>4, <1>5 DEF ExactSoFar
<1> HIDE DEF x
<1>10. x # Unknown => x >= g[k]
  BY <1>4, <1>7, <1>8 DEF Durations
<1> QED BY <1>6, <1>9, <1>10 DEF g

\* The same of every queue that is looked at.
THEOREM ForecastIsSound == ForecastSpec => []ForecastSound
<1> DEFINE Inv == view \in Queues
<1>1. Blank \in Queues
  BY DEF Blank, Queues
<1>2. ForecastInit => Inv
  BY <1>1 DEF ForecastInit
<1>3. Inv /\ [ForecastNext]_view => Inv'
  BY <1>1, ForecastAssumption DEF ForecastNext, Look, Shown
<1>4. Inv => ForecastSound
  BY ForecastIsNeverEarly DEF ForecastSound
<1> HIDE DEF Inv
<1> QED BY <1>2, <1>3, <1>4, PTL DEF ForecastSpec
=============================================================================
