-------------------------- MODULE EventStreamProofs --------------------------
(* Proofs about EventStream: a verdict decided beside unread lines is not  *)
(* turned by what they were nor by what follows them, the evidence built   *)
(* from a report is what the rows earned, and the refusals a capture       *)
(* reports are those of the run.                                           *)
EXTENDS EventStream, FiniteSetTheorems, WellFoundedInduction, TLAPS

---------------------------------------------------------------------------
(* A count that may grow                                                   *)

(* decide_count: what is decided of a count that may grow is decided alike *)
(* of every larger one, whether that one may still grow or not.            *)
THEOREM DecidedForAllLarger ==
  ASSUME NEW bound \in Bound, NEW n \in Nat, NEW m \in Nat, n <= m, NEW g \in BOOLEAN,
         DecideCount(bound, n, TRUE) # "unk"
  PROVE  DecideCount(bound, m, g) = DecideCount(bound, n, TRUE)
<1>1. /\ bound.exactly \in Nat \cup {Absent} /\ bound.at_most \in Nat \cup {Absent}
      /\ bound.at_least \in Nat \cup {Absent}
  BY DEF Bound
<1>2. CASE HoldsFor(bound, n) /\ Ceiling(bound) = Absent
  <2>1. DecideCount(bound, n, TRUE) = "ok"
    BY <1>2 DEF DecideCount
  <2>2. bound.exactly = Absent /\ bound.at_most = Absent
    BY <1>2 DEF Ceiling
  <2>3. HoldsFor(bound, m)
    BY <1>1, <1>2, <2>2, AbsentAssumption DEF HoldsFor
  <2>4. DecideCount(bound, m, g) = "ok"
    <3>1. CASE g
      BY <1>2, <2>3, <3>1 DEF DecideCount
    <3>2. CASE ~g
      BY <2>3, <3>2 DEF DecideCount, Said
    <3>. QED
      BY <3>1, <3>2
  <2>. QED
    BY <2>1, <2>4
<1>3. CASE Ceiling(bound) # Absent /\ n > Ceiling(bound)
  <2>1. DecideCount(bound, n, TRUE) = "gap"
    BY <1>3 DEF DecideCount
  <2>2. Ceiling(bound) \in Nat /\ m > Ceiling(bound)
    BY <1>1, <1>3 DEF Ceiling
  <2>3. ~HoldsFor(bound, m)
    BY <1>1, <2>2, AbsentAssumption DEF HoldsFor, Ceiling
  <2>4. DecideCount(bound, m, g) = "gap"
    <3>1. CASE g
      BY <1>3, <2>2, <2>3, <3>1 DEF DecideCount
    <3>2. CASE ~g
      BY <2>3, <3>2 DEF DecideCount, Said
    <3>. QED
      BY <3>1, <3>2
  <2>. QED
    BY <2>1, <2>4
<1>. QED
  BY <1>2, <1>3 DEF DecideCount

LEMMA CountIsDecided ==
  ASSUME NEW bound, NEW n, NEW g \in BOOLEAN
  PROVE  DecideCount(bound, n, g) \in {"ok", "gap", "unk"}
  BY DEF DecideCount, Said

---------------------------------------------------------------------------
(* Events read in part                                                     *)

(* What a reader made of a run, in whole or in part: one result for a call *)
(* and one terminal record.                                                *)
Capture(ir) ==
  /\ DOMAIN ir \subseteq Nat /\ IsFiniteSet(DOMAIN ir)
  /\ \A i, j \in EventsOf(ir, "result") : ir[i].call = ir[j].call => i = j
  /\ \A i \in EventsOf(ir, "result") : ir[i].bytes \in Nat
  /\ \A i, j \in EventsOf(ir, "outcome") : i = j

(* Two readings of one event; the refusals a terminal record reports are   *)
(* counted over the lines there are.                                       *)
SameEvent(e, f) ==
  e = f \/ (e.kind = "outcome" /\ f.kind = "outcome" /\ e.is_error = f.is_error)

(* What was read of one was read alike of the other.                       *)
Covers(a, b) ==
  \A i \in DOMAIN a : a[i].kind # "opaque" => i \in DOMAIN b /\ SameEvent(a[i], b[i])

LEMMA CoveredEvents ==
  ASSUME NEW a, NEW b, Covers(a, b), NEW kind, kind # "opaque"
  PROVE  /\ EventsOf(a, kind) \subseteq EventsOf(b, kind)
         /\ kind # "outcome" => \A i \in EventsOf(a, kind) : b[i] = a[i]
         /\ \A i \in EventsOf(a, "outcome") : b[i].is_error = a[i].is_error
  BY DEF Covers, SameEvent, EventsOf

LEMMA CoveredCalls ==
  ASSUME NEW a, NEW b, Covers(a, b), NEW selector
  PROVE  /\ Selected(a, selector) \subseteq Selected(b, selector)
         /\ \A c \in Selected(a, selector) : c \in EventsOf(a, "call") /\ b[c] = a[c]
<1>1. /\ EventsOf(a, "call") \subseteq EventsOf(b, "call")
      /\ \A i \in EventsOf(a, "call") : b[i] = a[i]
  BY CoveredEvents
<1>. QED
  BY <1>1, Zenon DEF Selected

LEMMA EventsAreFinite ==
  ASSUME NEW a, Capture(a), NEW kind
  PROVE  EventsOf(a, kind) \subseteq Nat /\ IsFiniteSet(EventsOf(a, kind))
<1>1. EventsOf(a, kind) \subseteq DOMAIN a
  BY DEF EventsOf
<1>. QED
  BY <1>1, FS_Subset DEF Capture

LEMMA SelectedIsFinite ==
  ASSUME NEW a, Capture(a), NEW selector
  PROVE  Selected(a, selector) \subseteq Nat /\ IsFiniteSet(Selected(a, selector))
<1>1. Selected(a, selector) \subseteq EventsOf(a, "call")
  BY Zenon DEF Selected
<1>. QED
  BY <1>1, EventsAreFinite, FS_Subset

LEMMA CountsGrow ==
  ASSUME NEW S, NEW T, S \subseteq T, IsFiniteSet(T)
  PROVE  Cardinality(S) \in Nat /\ Cardinality(T) \in Nat /\ Cardinality(S) <= Cardinality(T)
  BY FS_Subset, FS_CardinalityType

LEMMA ImageIsFinite ==
  ASSUME NEW S, IsFiniteSet(S), NEW f, f = [x \in S |-> f[x]]
  PROVE  IsFiniteSet({f[x] : x \in S})
<1>1. PICK T : T = {f[x] : x \in S}
  OBVIOUS
<1>2. f \in [S -> T]
  BY <1>1
<1>3. f \in Surjection(S, T)
  BY <1>1, <1>2 DEF Surjection
<1>. QED
  BY <1>1, <1>3, FS_Surjection

(* The result of a call.                                                   *)
LEMMA TheResult ==
  ASSUME NEW a, Capture(a), NEW c, NEW i \in EventsOf(a, "result"), a[i].call = a[c].id
  PROVE  ResultOf(a, c) = {i} /\ Result(a, c) = a[i]
<1>1. {j \in EventsOf(a, "result") : a[j].call = a[c].id} = {i}
  BY DEF Capture
<1>2. i \in Nat
  BY EventsAreFinite
<1>3. Min({i}) = i
  BY <1>2 DEF Min
<1>4. ResultOf(a, c) = {i}
  BY <1>1, <1>3, Zenon DEF ResultOf
<1>. QED
  BY <1>3, <1>4 DEF Result

LEMMA HasResult ==
  ASSUME NEW a, NEW c, ResultOf(a, c) # {}
  PROVE  \E i \in EventsOf(a, "result") : a[i].call = a[c].id
<1>1. {j \in EventsOf(a, "result") : a[j].call = a[c].id} # {}
  BY Zenon DEF ResultOf
<1>. QED
  BY <1>1

LEMMA CoveredResults ==
  ASSUME NEW a, NEW b, Capture(a), Capture(b), Covers(a, b), NEW c, b[c] = a[c], ResultOf(a, c) # {}
  PROVE  ResultOf(b, c) # {} /\ Result(b, c) = Result(a, c)
<1>1. PICK i \in EventsOf(a, "result") : a[i].call = a[c].id
  BY HasResult
<1>2. i \in EventsOf(b, "result") /\ b[i] = a[i]
  BY CoveredEvents
<1>3. Result(a, c) = a[i]
  BY <1>1, TheResult
<1>4. ResultOf(b, c) = {i} /\ Result(b, c) = b[i]
  BY <1>1, <1>2, TheResult
<1>. QED
  BY <1>2, <1>3, <1>4

(* Whatever is said of a call by its result is said of it in the larger    *)
(* reading too.                                                            *)
LEMMA CoveredAnswers ==
  ASSUME NEW a, NEW b, Capture(a), Capture(b), Covers(a, b), NEW selector,
         NEW c \in Answered(a, Selected(a, selector))
  PROVE  c \in Answered(b, Selected(b, selector)) /\ Result(b, c) = Result(a, c)
<1>1. c \in Selected(a, selector) /\ ResultOf(a, c) # {}
  BY DEF Answered
<1>2. c \in Selected(b, selector) /\ b[c] = a[c]
  BY <1>1, CoveredCalls
<1>3. ResultOf(b, c) # {} /\ Result(b, c) = Result(a, c)
  BY <1>1, <1>2, CoveredResults
<1>. QED
  BY <1>2, <1>3 DEF Answered

---------------------------------------------------------------------------
(* The kinds that count, decided over a part and over the whole            *)

Reading(a, b) == Capture(a) /\ Capture(b) /\ Covers(a, b)

(* Counts taken over a part are decided as over the whole.                 *)
LEMMA CountsAgree ==
  ASSUME NEW bound \in Bound, NEW S, NEW T, S \subseteq T, IsFiniteSet(T),
         NEW g \in BOOLEAN, DecideCount(bound, Cardinality(S), TRUE) # "unk"
  PROVE  DecideCount(bound, Cardinality(T), g) = DecideCount(bound, Cardinality(S), TRUE)
  BY CountsGrow, DecidedForAllLarger

LEMMA ToolCalledAgrees ==
  ASSUME NEW a, NEW b, Reading(a, b), HasUnread(a), NEW x, x.bound \in Bound,
         ToolCalled(x, a) # "unk"
  PROVE  ToolCalled(x, b) = ToolCalled(x, a)
<1>1. HasUnread(a) = TRUE /\ HasUnread(b) \in BOOLEAN
  BY DEF HasUnread
<1>2. Selected(a, x.selector) \subseteq Selected(b, x.selector)
  BY CoveredCalls DEF Reading
<1>3. IsFiniteSet(Selected(b, x.selector))
  BY SelectedIsFinite DEF Reading
<1>4. DecideCount(x.bound, Cardinality(Selected(a, x.selector)), HasUnread(a)) # "unk"
  BY DEF ToolCalled
<1>5. DecideCount(x.bound, Cardinality(Selected(b, x.selector)), HasUnread(b))
        = DecideCount(x.bound, Cardinality(Selected(a, x.selector)), HasUnread(a))
  <2>1. PICK S, T, g : /\ S = Selected(a, x.selector)
                       /\ T = Selected(b, x.selector) /\ g = HasUnread(b)
    OBVIOUS
  <2>2. /\ S \subseteq T /\ IsFiniteSet(T) /\ g \in BOOLEAN
        /\ DecideCount(x.bound, Cardinality(S), TRUE) # "unk"
    BY <1>1, <1>2, <1>3, <1>4, <2>1, Zenon
  <2>3. DecideCount(x.bound, Cardinality(T), g) = DecideCount(x.bound, Cardinality(S), TRUE)
    BY <2>2, CountsAgree, Zenon
  <2>. QED
    BY <1>1, <2>1, <2>3, Zenon
<1>. QED
  BY <1>5 DEF ToolCalled

LEMMA ToolAbsentAgrees ==
  ASSUME NEW a, NEW b, Reading(a, b), HasUnread(a), NEW x, ToolAbsent(x, a) # "unk"
  PROVE  ToolAbsent(x, b) = ToolAbsent(x, a)
<1>1. Selected(a, x.selector) # {}
  BY DEF ToolAbsent
<1>2. Selected(b, x.selector) # {}
  BY <1>1, CoveredCalls DEF Reading
<1>. QED
  BY <1>1, <1>2 DEF ToolAbsent

(* The skills whose own result says that they completed.                   *)
Completed(ir, calls) ==
  {c \in {d \in Answered(ir, calls) : Result(ir, d).says # Absent} : Result(ir, c).says = "yes"}

LEMMA SkillCompletedAgrees ==
  ASSUME NEW a, NEW b, Reading(a, b), HasUnread(a), NEW x, x.bound \in Bound,
         SkillCompleted(x, a) # "unk"
  PROVE  SkillCompleted(x, b) = SkillCompleted(x, a)
<1>. DEFINE Chosen(ir) == Selected(ir, x.selector)
            Read(ir) == {c \in Answered(ir, Chosen(ir)) : Result(ir, c).says # Absent}
            Grows(ir) == HasUnread(ir) \/ Read(ir) # Chosen(ir)
<1>1. Grows(a) = TRUE /\ Grows(b) \in BOOLEAN
  BY DEF HasUnread
<1>2. Completed(a, Chosen(a)) \subseteq Completed(b, Chosen(b))
  BY CoveredAnswers DEF Reading, Completed
<1>3. IsFiniteSet(Completed(b, Chosen(b)))
  <2>1. Completed(b, Chosen(b)) \subseteq Chosen(b)
    BY DEF Completed, Answered
  <2>2. IsFiniteSet(Chosen(b))
    BY SelectedIsFinite DEF Reading
  <2>. QED
    BY <2>1, <2>2, FS_Subset
<1>4. \A ir : SkillCompleted(x, ir)
                = DecideCount(x.bound, Cardinality(Completed(ir, Chosen(ir))), Grows(ir))
  BY DEF SkillCompleted, Completed
<1>. HIDE DEF Chosen, Grows
<1>5. DecideCount(x.bound, Cardinality(Completed(a, Chosen(a))), Grows(a)) # "unk"
  BY <1>4
<1>6. DecideCount(x.bound, Cardinality(Completed(b, Chosen(b))), Grows(b))
        = DecideCount(x.bound, Cardinality(Completed(a, Chosen(a))), Grows(a))
  <2>1. PICK S, T, g : /\ S = Completed(a, Chosen(a))
                       /\ T = Completed(b, Chosen(b)) /\ g = Grows(b)
    OBVIOUS
  <2>2. /\ S \subseteq T /\ IsFiniteSet(T) /\ g \in BOOLEAN
        /\ DecideCount(x.bound, Cardinality(S), TRUE) # "unk"
    BY <1>1, <1>2, <1>3, <1>5, <2>1, Zenon
  <2>3. DecideCount(x.bound, Cardinality(T), g) = DecideCount(x.bound, Cardinality(S), TRUE)
    BY <2>2, CountsAgree, Zenon
  <2>. QED
    BY <1>1, <2>1, <2>3, Zenon
<1>. QED
  BY <1>4, <1>6

LEMMA ToolFailedAgrees ==
  ASSUME NEW a, NEW b, Reading(a, b), HasUnread(a), NEW x, x.bound \in Bound,
         ToolFailed(x, a) # "unk"
  PROVE  ToolFailed(x, b) = ToolFailed(x, a)
<1>. DEFINE Chosen(ir) == Selected(ir, x.selector)
            Grows(ir) == HasUnread(ir) \/ Flagged(ir, Chosen(ir)) # Chosen(ir)
<1>1. Grows(a) = TRUE /\ Grows(b) \in BOOLEAN
  BY DEF HasUnread
<1>2. Failed(a, Chosen(a)) \subseteq Failed(b, Chosen(b))
  BY CoveredAnswers DEF Reading, Failed, Flagged
<1>3. IsFiniteSet(Failed(b, Chosen(b)))
  <2>1. Failed(b, Chosen(b)) \subseteq Chosen(b)
    BY DEF Failed, Flagged, Answered
  <2>2. IsFiniteSet(Chosen(b))
    BY SelectedIsFinite DEF Reading
  <2>. QED
    BY <2>1, <2>2, FS_Subset
<1>4. Chosen(a) # {} /\ Chosen(b) # {}
  BY CoveredCalls DEF ToolFailed, Reading
<1>5. \A ir : Chosen(ir) # {} =>
        ToolFailed(x, ir) = DecideCount(x.bound, Cardinality(Failed(ir, Chosen(ir))), Grows(ir))
  BY DEF ToolFailed
<1>. HIDE DEF Chosen, Grows
<1>6. DecideCount(x.bound, Cardinality(Failed(a, Chosen(a))), Grows(a)) # "unk"
  BY <1>4, <1>5
<1>7. DecideCount(x.bound, Cardinality(Failed(b, Chosen(b))), Grows(b))
        = DecideCount(x.bound, Cardinality(Failed(a, Chosen(a))), Grows(a))
  <2>1. PICK S, T, g : /\ S = Failed(a, Chosen(a))
                       /\ T = Failed(b, Chosen(b)) /\ g = Grows(b)
    OBVIOUS
  <2>2. /\ S \subseteq T /\ IsFiniteSet(T) /\ g \in BOOLEAN
        /\ DecideCount(x.bound, Cardinality(S), TRUE) # "unk"
    BY <1>1, <1>2, <1>3, <1>6, <2>1, Zenon
  <2>3. DecideCount(x.bound, Cardinality(T), g) = DecideCount(x.bound, Cardinality(S), TRUE)
    BY <2>2, CountsAgree, Zenon
  <2>. QED
    BY <1>1, <2>1, <2>3, Zenon
<1>. QED
  BY <1>4, <1>5, <1>7

(* Calls made twice or more, alike.                                        *)
Alike(ir, calls, k) == {c \in calls : RepetitionKey(ir[c]) = k}
Groups(ir, calls) == {RepetitionKey(ir[c]) : c \in calls}
RepeatedKeys(ir, calls) == {k \in Groups(ir, calls) : Cardinality(Alike(ir, calls, k)) > 1}

LEMMA ToolRepeatedAgrees ==
  ASSUME NEW a, NEW b, Reading(a, b), HasUnread(a), NEW x, x.bound \in Bound,
         ToolRepeated(x, a) # "unk"
  PROVE  ToolRepeated(x, b) = ToolRepeated(x, a)
<1>. DEFINE Chosen(ir) == Selected(ir, x.selector)
<1>1. HasUnread(a) = TRUE /\ HasUnread(b) \in BOOLEAN
  BY DEF HasUnread
<1>2. IsFiniteSet(Chosen(b)) /\ Chosen(a) \subseteq Chosen(b) /\ \A c \in Chosen(a) : b[c] = a[c]
  BY SelectedIsFinite, CoveredCalls DEF Reading
<1>3. RepeatedKeys(a, Chosen(a)) \subseteq RepeatedKeys(b, Chosen(b))
  <2>1. ASSUME NEW k \in RepeatedKeys(a, Chosen(a)) PROVE k \in RepeatedKeys(b, Chosen(b))
    <3>1. k \in Groups(a, Chosen(a)) /\ Cardinality(Alike(a, Chosen(a), k)) > 1
      BY <2>1, Zenon DEF RepeatedKeys
    <3>2. Alike(a, Chosen(a), k) \subseteq Alike(b, Chosen(b), k)
      BY <1>2 DEF Alike
    <3>3. IsFiniteSet(Alike(b, Chosen(b), k))
      BY <1>2, FS_Subset DEF Alike
    <3>4. Cardinality(Alike(b, Chosen(b), k)) > 1
      BY <3>1, <3>2, <3>3, CountsGrow
    <3>5. k \in Groups(b, Chosen(b))
      BY <1>2, <3>1 DEF Groups
    <3>. QED
      BY <3>4, <3>5 DEF RepeatedKeys
  <2>. QED
    BY <2>1
<1>4. IsFiniteSet(RepeatedKeys(b, Chosen(b)))
  <2>1. IsFiniteSet(Groups(b, Chosen(b)))
    <3>1. PICK key : key = [c \in Chosen(b) |-> RepetitionKey(b[c])]
      OBVIOUS
    <3>2. key = [c \in Chosen(b) |-> key[c]]
      BY <3>1
    <3>3. IsFiniteSet({key[c] : c \in Chosen(b)})
      BY <1>2, <3>2, ImageIsFinite
    <3>4. {key[c] : c \in Chosen(b)} = Groups(b, Chosen(b))
      BY <3>1 DEF Groups
    <3>. QED
      BY <3>3, <3>4
  <2>2. RepeatedKeys(b, Chosen(b)) \subseteq Groups(b, Chosen(b))
    BY Zenon DEF RepeatedKeys
  <2>. QED
    BY <2>1, <2>2, FS_Subset
<1>5. \A ir : ToolRepeated(x, ir)
                = DecideCount(x.bound, Cardinality(RepeatedKeys(ir, Chosen(ir))), HasUnread(ir))
  BY DEF ToolRepeated, RepeatedKeys, Groups, Alike
<1>. HIDE DEF Chosen
<1>6. DecideCount(x.bound, Cardinality(RepeatedKeys(a, Chosen(a))), HasUnread(a)) # "unk"
  BY <1>5
<1>7. DecideCount(x.bound, Cardinality(RepeatedKeys(b, Chosen(b))), HasUnread(b))
        = DecideCount(x.bound, Cardinality(RepeatedKeys(a, Chosen(a))), HasUnread(a))
  <2>1. PICK S, T, g : /\ S = RepeatedKeys(a, Chosen(a))
                       /\ T = RepeatedKeys(b, Chosen(b)) /\ g = HasUnread(b)
    OBVIOUS
  <2>2. /\ S \subseteq T /\ IsFiniteSet(T) /\ g \in BOOLEAN
        /\ DecideCount(x.bound, Cardinality(S), TRUE) # "unk"
    BY <1>1, <1>3, <1>4, <1>6, <2>1, Zenon
  <2>3. DecideCount(x.bound, Cardinality(T), g) = DecideCount(x.bound, Cardinality(S), TRUE)
    BY <2>2, CountsAgree, Zenon
  <2>. QED
    BY <1>1, <2>1, <2>3, Zenon
<1>. QED
  BY <1>5, <1>7

---------------------------------------------------------------------------
(* Folds over a finite set                                                 *)

LEMMA SmallestSubset ==
  ASSUME NEW S, IsFiniteSet(S), NEW Bad, Bad \subseteq SUBSET S, Bad # {}
  PROVE  \E s \in Bad : \A r \in Bad : r \subseteq s => r = s
<1>1. IsWellFoundedOn(StrictSubsetOrdering(S), SUBSET S)
  BY FS_StrictSubsetOrderingWellFounded, FS_FiniteSubsetsOfFinite
<1>2. PICK s \in Bad : \A r \in Bad : <<r, s>> \notin StrictSubsetOrdering(S)
  BY <1>1, WFMin
<1>. QED
  BY <1>2 DEF StrictSubsetOrdering

LEMMA SmallestNumber ==
  ASSUME NEW N, N \subseteq Nat, N # {}
  PROVE  \E n \in N : \A m \in N : n <= m
<1>. DEFINE Below == {ss \in Nat \X Nat : ss[1] < ss[2]}
<1>1. IsWellFoundedOn(Below, Nat)
  <2>1. Below = OpToRel(<, Nat)
    BY Zenon DEF OpToRel
  <2>. QED
    BY <2>1, NatLessThanWellFounded, Zenon
<1>. HIDE DEF Below
<1>2. PICK n \in N : \A m \in N : <<m, n>> \notin Below
  BY <1>1, WFMin
<1>3. ASSUME NEW m \in N PROVE n <= m
  <2>1. n \in Nat /\ m \in Nat /\ <<m, n>> \notin Below
    BY <1>2
  <2>2. ~(m < n)
    BY <2>1 DEF Below
  <2>. QED
    BY <2>1, <2>2
<1>. QED
  BY <1>3

(* One element put after another, in the order in which pick takes them    *)
(* away.                                                                   *)
Picks(pick, S) == \A s \in SUBSET S : s # {} => pick[s] \in s
Put(put, base, pick, f, s) == IF s = {} THEN base ELSE put[pick[s]][f[s \ {pick[s]}]]

LEMMA Smaller ==
  ASSUME NEW S, IsFiniteSet(S), NEW s \in SUBSET S, NEW x \in s
  PROVE  /\ s \ {x} \in SUBSET S /\ Cardinality(s) \in Nat
         /\ Cardinality(s \ {x}) \in Nat /\ Cardinality(s \ {x}) = Cardinality(s) - 1
<1>1. IsFiniteSet(s)
  BY FS_Subset
<1>2. IsFiniteSet(s \ {x}) /\ Cardinality(s \ {x}) = Cardinality(s) - 1
  BY <1>1, FS_RemoveElement
<1>. QED
  BY <1>1, <1>2, FS_CardinalityType

Foldable(S, V, base, put, pick) ==
  IsFiniteSet(S) /\ base \in V /\ put \in [S -> [V -> V]] /\ Picks(pick, S)

IsFold(f, S, V, base, put, pick) ==
  f \in [SUBSET S -> V] /\ \A s \in SUBSET S : f[s] = Put(put, base, pick, f, s)

LEMMA FoldExists ==
  ASSUME NEW S, NEW V, NEW base, NEW put, NEW pick, Foldable(S, V, base, put, pick)
  PROVE  \E f : IsFold(f, S, V, base, put, pick)
<1>. USE DEF Foldable
<1>. DEFINE Upto(f, n) == \A s \in SUBSET S : Cardinality(s) <= n => f[s] = Put(put, base, pick, f, s)
            Bad == {n \in Nat : ~\E f \in [SUBSET S -> V] : Upto(f, n)}
<1>0. \A s \in SUBSET S : Cardinality(s) \in Nat /\ Cardinality(s) <= Cardinality(S)
  BY FS_Subset, FS_CardinalityType
<1>1. \E f \in [SUBSET S -> V] : Upto(f, 0)
  <2>1. PICK f \in [SUBSET S -> V] : \A s \in SUBSET S : f[s] = base
    <3>1. [s \in SUBSET S |-> base] \in [SUBSET S -> V]
      OBVIOUS
    <3>. QED
      BY <3>1
  <2>2. ASSUME NEW s \in SUBSET S, Cardinality(s) <= 0 PROVE s = {}
    <3>1. Cardinality(s) = 0 /\ IsFiniteSet(s)
      BY <1>0, <2>2, FS_Subset
    <3>. QED
      BY <3>1, FS_EmptySet
  <2>. QED
    BY <2>1, <2>2 DEF Put
<1>2. ASSUME NEW n \in Nat, NEW f \in [SUBSET S -> V], Upto(f, n)
      PROVE  \E g \in [SUBSET S -> V] : Upto(g, n + 1)
  <2>1. \A s \in SUBSET S : Put(put, base, pick, f, s) \in V
    <3>1. ASSUME NEW s \in SUBSET S, s # {} PROVE put[pick[s]][f[s \ {pick[s]}]] \in V
      <4>1. pick[s] \in S /\ s \ {pick[s]} \in SUBSET S
        BY <3>1 DEF Picks
      <4>. QED
        BY <4>1
    <3>. QED
      BY <3>1 DEF Put
  <2>. DEFINE g == [s \in SUBSET S |-> IF Cardinality(s) <= n THEN f[s] ELSE Put(put, base, pick, f, s)]
  <2>2. g \in [SUBSET S -> V]
    BY <2>1
  <2>3. ASSUME NEW s \in SUBSET S, Cardinality(s) <= n + 1 PROVE g[s] = Put(put, base, pick, g, s)
    <3>1. g[s] = Put(put, base, pick, f, s)
      BY <1>2
    <3>2. CASE s = {}
      BY <3>1, <3>2 DEF Put
    <3>3. CASE s # {}
      <4>1. pick[s] \in s
        BY <3>3 DEF Picks
      <4>2. s \ {pick[s]} \in SUBSET S /\ Cardinality(s \ {pick[s]}) <= n
        BY <2>3, <4>1, Smaller
      <4>3. g[s \ {pick[s]}] = f[s \ {pick[s]}]
        BY <4>2
      <4>. HIDE DEF g
      <4>. QED
        BY <3>1, <3>3, <4>3 DEF Put
    <3>. QED
      BY <3>2, <3>3
  <2>. HIDE DEF g
  <2>. QED
    BY <2>2, <2>3
<1>3. Bad = {}
  <2>. SUFFICES ASSUME Bad # {} PROVE FALSE
    OBVIOUS
  <2>1. Bad \subseteq Nat /\ 0 \notin Bad
    BY <1>1
  <2>2. \A n \in Nat : n \notin Bad => n + 1 \notin Bad
    BY <1>2
  <2>. HIDE DEF Bad
  <2>3. PICK n \in Bad : \A m \in Bad : n <= m
    BY <2>1, SmallestNumber
  <2>4. n \in Nat /\ n # 0
    BY <2>1
  <2>5. n - 1 \in Nat /\ ~(n <= n - 1) /\ (n - 1) + 1 = n
    BY <2>4
  <2>6. n - 1 \notin Bad
    BY <2>3, <2>5
  <2>. QED
    BY <2>2, <2>5, <2>6
<1>4. Cardinality(S) \in Nat
  BY <1>0
<1>5. PICK f \in [SUBSET S -> V] : Upto(f, Cardinality(S))
  BY <1>3, <1>4
<1>. QED
  BY <1>0, <1>5 DEF IsFold

---------------------------------------------------------------------------
(* The bytes of every result, in total                                     *)

First(s) == CHOOSE x \in s : TRUE

Adds(f, w, S) == \A s \in SUBSET S : f[s] = IF s = {} THEN 0 ELSE w[First(s)] + f[s \ {First(s)}]

LEMMA SumsAreNumbers ==
  ASSUME NEW S, IsFiniteSet(S), NEW w, \A c \in S : w[c] \in Nat, NEW f, Adds(f, w, S)
  PROVE  \A s \in SUBSET S : f[s] \in Nat
<1>. DEFINE Bad == {s \in SUBSET S : f[s] \notin Nat}
<1>. SUFFICES ASSUME Bad # {} PROVE FALSE
  OBVIOUS
<1>1. PICK s \in Bad : \A r \in Bad : r \subseteq s => r = s
  <2>1. Bad \subseteq SUBSET S
    OBVIOUS
  <2>. HIDE DEF Bad
  <2>. QED
    BY <2>1, SmallestSubset
<1>2. PICK x : x = First(s)
  OBVIOUS
<1>3. s # {}
  <2>1. {} \in SUBSET S
    OBVIOUS
  <2>2. f[{}] = 0
    BY <2>1 DEF Adds
  <2>. QED
    BY <2>2
<1>4. x \in s
  BY <1>2, <1>3 DEF First
<1>5. f[s \ {x}] \in Nat
  BY <1>1, <1>4
<1>6. f[s] = w[x] + f[s \ {x}]
  BY <1>2, <1>3 DEF Adds
<1>. QED
  BY <1>4, <1>5, <1>6

(* The order in which the terms are taken does not matter.                 *)
LEMMA AnyTermFirst ==
  ASSUME NEW S, IsFiniteSet(S), NEW w, \A c \in S : w[c] \in Nat, NEW f, Adds(f, w, S)
  PROVE  \A s \in SUBSET S : \A x \in s : f[s] = w[x] + f[s \ {x}]
<1>. DEFINE Bad == {s \in SUBSET S : \E x \in s : f[s] # w[x] + f[s \ {x}]}
<1>. SUFFICES ASSUME Bad # {} PROVE FALSE
  OBVIOUS
<1>1. PICK s \in Bad : \A r \in Bad : r \subseteq s => r = s
  <2>1. Bad \subseteq SUBSET S
    OBVIOUS
  <2>. HIDE DEF Bad
  <2>. QED
    BY <2>1, SmallestSubset
<1>2. PICK x \in s : f[s] # w[x] + f[s \ {x}]
  OBVIOUS
<1>3. PICK y : y = First(s)
  OBVIOUS
<1>4. y \in s
  BY <1>3 DEF First
<1>5. f[s] = w[y] + f[s \ {y}]
  BY <1>3 DEF Adds
<1>6. x # y
  BY <1>2, <1>5
<1>7. ASSUME NEW z \in s PROVE \A t \in s \ {z} : f[s \ {z}] = w[t] + f[(s \ {z}) \ {t}]
  <2>1. s \ {z} \in SUBSET S /\ s \ {z} \subseteq s /\ s \ {z} # s
    OBVIOUS
  <2>2. s \ {z} \notin Bad
    <3>. HIDE DEF Bad
    <3>. QED
      BY <1>1, <2>1
  <2>. QED
    BY <2>1, <2>2
<1>8. PICK r : r = (s \ {y}) \ {x} /\ r = (s \ {x}) \ {y} /\ r \in SUBSET S
  OBVIOUS
<1>9. f[s \ {y}] = w[x] + f[r] /\ f[s \ {x}] = w[y] + f[r]
  <2>1. x \in s \ {y} /\ y \in s \ {x}
    BY <1>4, <1>6
  <2>. QED
    BY <1>4, <1>7, <1>8, <2>1
<1>10. w[x] \in Nat /\ w[y] \in Nat /\ f[r] \in Nat
  <2>1. x \in S /\ y \in S
    BY <1>4
  <2>. QED
    BY <1>8, <2>1, SumsAreNumbers
<1>. HIDE DEF Bad
<1>. QED
  BY <1>2, <1>5, <1>9, <1>10

(* A sum over more terms is no smaller.                                    *)
LEMMA SumsGrow ==
  ASSUME NEW T, IsFiniteSet(T), NEW S, S \subseteq T, NEW w, \A c \in T : w[c] \in Nat,
         NEW u, \A c \in S : u[c] = w[c], NEW f, Adds(f, u, S), NEW g, Adds(g, w, T)
  PROVE  f[S] \in Nat /\ g[T] \in Nat /\ f[S] <= g[T]
<1>1. IsFiniteSet(S) /\ \A c \in S : u[c] \in Nat
  BY FS_Subset
<1>2. \A s \in SUBSET T : g[s] \in Nat /\ s \cap S \in SUBSET S /\ f[s \cap S] \in Nat
  BY <1>1, SumsAreNumbers
<1>. DEFINE Bad == {s \in SUBSET T : ~(f[s \cap S] <= g[s])}
<1>3. ASSUME Bad # {} PROVE FALSE
  <2>1. PICK s \in Bad : \A r \in Bad : r \subseteq s => r = s
    <3>1. Bad \subseteq SUBSET T
      OBVIOUS
    <3>. HIDE DEF Bad
    <3>. QED
      BY <1>3, <3>1, SmallestSubset
  <2>2. s # {}
    <3>1. {} \in SUBSET S /\ {} \in SUBSET T /\ {} \cap S = {}
      OBVIOUS
    <3>2. f[{}] = 0 /\ g[{}] = 0
      BY <3>1 DEF Adds
    <3>3. f[{} \cap S] = f[{}]
      BY <3>1, Zenon
    <3>4. {} \notin Bad
      BY <3>2, <3>3
    <3>. HIDE DEF Bad
    <3>. QED
      BY <3>4
  <2>3. PICK x \in s : TRUE
    BY <2>2
  <2>4. f[(s \ {x}) \cap S] <= g[s \ {x}]
    <3>1. s \ {x} \in SUBSET T /\ s \ {x} \subseteq s /\ s \ {x} # s
      OBVIOUS
    <3>2. s \ {x} \notin Bad
      <4>. HIDE DEF Bad
      <4>. QED
        BY <2>1, <3>1
    <3>. QED
      BY <3>1, <3>2
  <2>5. s \in SUBSET T /\ x \in T /\ ~(f[s \cap S] <= g[s])
    OBVIOUS
  <2>. HIDE DEF Bad
  <2>6. /\ g[s] = w[x] + g[s \ {x}] /\ w[x] \in Nat
        /\ g[s \ {x}] \in Nat /\ f[(s \ {x}) \cap S] \in Nat
    BY <1>2, <2>5, AnyTermFirst
  <2>7. CASE x \in S
    <3>1. (s \cap S) \ {x} = (s \ {x}) \cap S
      OBVIOUS
    <3>2. f[s \cap S] = u[x] + f[(s \cap S) \ {x}]
      <4>1. s \cap S \in SUBSET S /\ x \in s \cap S
        BY <2>7
      <4>. QED
        BY <1>1, <4>1, AnyTermFirst
    <3>3. u[x] = w[x]
      BY <2>7
    <3>4. f[s \cap S] = w[x] + f[(s \ {x}) \cap S]
      BY <3>1, <3>2, <3>3, Zenon
    <3>. QED
      BY <2>4, <2>5, <2>6, <3>4
  <2>8. CASE x \notin S
    <3>1. s \cap S = (s \ {x}) \cap S
      BY <2>8
    <3>2. f[s \cap S] = f[(s \ {x}) \cap S]
      BY <3>1
    <3>. QED
      BY <2>4, <2>5, <2>6, <3>2
  <2>. QED
    BY <2>7, <2>8
<1>4. S \cap T = S /\ T \cap S = S /\ T \in SUBSET T
  OBVIOUS
<1>. QED
  BY <1>2, <1>3, <1>4

(* What the checker sums: the size of each call's result.                  *)
SizeSums(ir, calls) ==
  CHOOSE f : f = [s \in SUBSET calls |->
                    IF s = {} THEN 0 ELSE Result(ir, First(s)).bytes + f[s \ {First(s)}]]

TotalBytes(ir, calls) == MapThenSumSet(LAMBDA c : Result(ir, c).bytes, calls)

Sizes(ir, calls) == [c \in calls |-> Result(ir, c).bytes]

LEMMA TotalBytesAre ==
  ASSUME NEW ir, NEW calls, IsFiniteSet(calls), \A c \in calls : Result(ir, c).bytes \in Nat
  PROVE  /\ TotalBytes(ir, calls) = SizeSums(ir, calls)[calls]
         /\ Adds(SizeSums(ir, calls), Sizes(ir, calls), calls)
<1>1. TotalBytes(ir, calls) = SizeSums(ir, calls)[calls]
  BY DEF TotalBytes, SizeSums, MapThenSumSet, MapThenFoldSet, First
<1>2. PICK pick : pick = [s \in SUBSET calls |-> First(s)]
  OBVIOUS
<1>3. Picks(pick, calls)
  BY <1>2 DEF Picks, First
<1>4. PICK put : put = [c \in calls |-> [n \in Nat |-> Result(ir, c).bytes + n]]
  OBVIOUS
<1>5. put \in [calls -> [Nat -> Nat]]
  BY <1>4
<1>6. Foldable(calls, Nat, 0, put, pick)
  BY <1>3, <1>5 DEF Foldable
<1>15. PICK f : IsFold(f, calls, Nat, 0, put, pick)
  BY <1>6, FoldExists, Zenon
<1>16. f \in [SUBSET calls -> Nat] /\ \A s \in SUBSET calls : f[s] = Put(put, 0, pick, f, s)
  BY <1>15 DEF IsFold
<1>. DEFINE Eq(h, s) == IF s = {} THEN 0 ELSE Result(ir, First(s)).bytes + h[s \ {First(s)}]
<1>7. ASSUME NEW s \in SUBSET calls PROVE f[s] = Eq(f, s)
  <2>1. CASE s = {}
    BY <1>16, <2>1 DEF Put
  <2>2. CASE s # {}
    <3>1. PICK x : x = First(s)
      OBVIOUS
    <3>2. pick[s] = x /\ x \in s
      BY <1>2, <2>2, <3>1 DEF First
    <3>3. f[s \ {x}] \in Nat
      BY <1>16
    <3>4. f[s] = put[x][f[s \ {x}]]
      BY <1>16, <2>2, <3>2 DEF Put
    <3>5. f[s] = Result(ir, x).bytes + f[s \ {x}]
      BY <1>4, <3>2, <3>3, <3>4
    <3>. QED
      BY <2>2, <3>1, <3>5
  <2>. QED
    BY <2>1, <2>2
<1>. HIDE DEF Eq
<1>8. f = [s \in SUBSET calls |-> Eq(f, s)]
  BY <1>7, <1>16
<1>9. SizeSums(ir, calls) = CHOOSE h : h = [s \in SUBSET calls |-> Eq(h, s)]
  BY DEF SizeSums, Eq
<1>10. SizeSums(ir, calls) = [s \in SUBSET calls |-> Eq(SizeSums(ir, calls), s)]
  BY <1>8, <1>9
<1>11. \A s \in SUBSET calls : SizeSums(ir, calls)[s] = Eq(SizeSums(ir, calls), s)
  BY <1>10
<1>12. \A s \in SUBSET calls : s # {} => First(s) \in calls
  BY DEF First
<1>13. \A s \in SUBSET calls : s # {} => Sizes(ir, calls)[First(s)] = Result(ir, First(s)).bytes
  BY <1>12 DEF Sizes
<1>14. ASSUME NEW s \in SUBSET calls
       PROVE  SizeSums(ir, calls)[s] = IF s = {} THEN 0
                ELSE Sizes(ir, calls)[First(s)] + SizeSums(ir, calls)[s \ {First(s)}]
  BY <1>11, <1>13 DEF Eq
<1>. QED
  BY <1>1, <1>14 DEF Adds

LEMMA ResultsHaveASize ==
  ASSUME NEW a, Capture(a), NEW calls
  PROVE  \A c \in Answered(a, calls) : Result(a, c).bytes \in Nat
<1>. SUFFICES ASSUME NEW c \in Answered(a, calls) PROVE Result(a, c).bytes \in Nat
  OBVIOUS
<1>1. ResultOf(a, c) # {}
  BY DEF Answered
<1>2. PICK i \in EventsOf(a, "result") : a[i].call = a[c].id
  BY <1>1, HasResult
<1>3. Result(a, c) = a[i]
  BY <1>2, TheResult
<1>. QED
  BY <1>3 DEF Capture

LEMMA TotalBytesGrow ==
  ASSUME NEW a, NEW b, Reading(a, b), NEW selector,
         Answered(a, Selected(a, selector)) = Selected(a, selector),
         Answered(b, Selected(b, selector)) = Selected(b, selector)
  PROVE  /\ TotalBytes(a, Selected(a, selector)) \in Nat
         /\ TotalBytes(b, Selected(b, selector)) \in Nat
         /\ TotalBytes(a, Selected(a, selector)) <= TotalBytes(b, Selected(b, selector))
<1>1. PICK S, T : S = Selected(a, selector) /\ T = Selected(b, selector)
  OBVIOUS
<1>2. S \subseteq T /\ IsFiniteSet(S) /\ IsFiniteSet(T)
  BY <1>1, CoveredCalls, SelectedIsFinite DEF Reading
<1>3. \A c \in S : Result(b, c) = Result(a, c)
  BY <1>1, CoveredAnswers DEF Reading
<1>4. (\A c \in S : Result(a, c).bytes \in Nat) /\ (\A c \in T : Result(b, c).bytes \in Nat)
  BY <1>1, ResultsHaveASize DEF Reading
<1>5. /\ TotalBytes(a, S) = SizeSums(a, S)[S] /\ Adds(SizeSums(a, S), Sizes(a, S), S)
      /\ TotalBytes(b, T) = SizeSums(b, T)[T] /\ Adds(SizeSums(b, T), Sizes(b, T), T)
  BY <1>2, <1>4, TotalBytesAre
<1>6. (\A c \in T : Sizes(b, T)[c] \in Nat) /\ (\A c \in S : Sizes(a, S)[c] = Sizes(b, T)[c])
  BY <1>2, <1>3, <1>4 DEF Sizes
<1>7. /\ SizeSums(a, S)[S] \in Nat /\ SizeSums(b, T)[T] \in Nat
      /\ SizeSums(a, S)[S] <= SizeSums(b, T)[T]
  BY <1>2, <1>5, <1>6, SumsGrow
<1>. QED
  BY <1>1, <1>5, <1>7

LEMMA TotalsStand ==
  ASSUME NEW a, NEW b, Reading(a, b), HasUnread(a), NEW x, x.bound \in Bound, x.per = "total",
         ToolResultBytes(x, a) # "unk"
  PROVE  ToolResultBytes(x, b) = ToolResultBytes(x, a) \/ ToolResultBytes(x, b) = "unk"
<1>1. PICK S, T : S = Selected(a, x.selector) /\ T = Selected(b, x.selector)
  OBVIOUS
<1>2. \A ir : Selected(ir, x.selector) # {} /\ Answered(ir, Selected(ir, x.selector)) = Selected(ir, x.selector)
        => ToolResultBytes(x, ir)
             = DecideCount(x.bound, TotalBytes(ir, Selected(ir, x.selector)), HasUnread(ir))
  BY DEF ToolResultBytes, TotalBytes
<1>3. S # {} /\ Answered(a, S) = S
  BY <1>1 DEF ToolResultBytes
<1>4. CASE T = {} \/ Answered(b, T) # T
  BY <1>1, <1>4 DEF ToolResultBytes
<1>5. CASE T # {} /\ Answered(b, T) = T
  <2>1. /\ TotalBytes(a, S) \in Nat /\ TotalBytes(b, T) \in Nat
        /\ TotalBytes(a, S) <= TotalBytes(b, T)
    BY <1>1, <1>3, <1>5, TotalBytesGrow
  <2>2. /\ ToolResultBytes(x, a) = DecideCount(x.bound, TotalBytes(a, S), HasUnread(a))
        /\ ToolResultBytes(x, b) = DecideCount(x.bound, TotalBytes(b, T), HasUnread(b))
    BY <1>1, <1>2, <1>3, <1>5
  <2>3. HasUnread(a) = TRUE /\ HasUnread(b) \in BOOLEAN
    BY DEF HasUnread
  <2>4. DecideCount(x.bound, TotalBytes(a, S), TRUE) # "unk"
    BY <2>2, <2>3
  <2>5. DecideCount(x.bound, TotalBytes(b, T), HasUnread(b))
          = DecideCount(x.bound, TotalBytes(a, S), TRUE)
    BY <2>1, <2>3, <2>4, DecidedForAllLarger
  <2>. QED
    BY <2>2, <2>3, <2>5
<1>. QED
  BY <1>4, <1>5

(* There is one terminal record, and it says one thing.                    *)
LEMMA TheOutcome ==
  ASSUME NEW a, Capture(a), NEW i \in EventsOf(a, "outcome")
  PROVE  LastOf(a, "outcome") = {a[i]}
<1>1. EventsOf(a, "outcome") = {i}
  BY DEF Capture
<1>2. i \in Nat
  BY EventsAreFinite
<1>3. Max({i}) = i
  BY <1>2 DEF Max
<1>. QED
  BY <1>1, <1>3 DEF LastOf

LEMMA RecordAgrees ==
  ASSUME NEW a, NEW b, Reading(a, b), NEW x, x.record = "outcome", x.field = "is_error",
         RecordSays(x, a) # "unk"
  PROVE  RecordSays(x, b) = RecordSays(x, a)
<1>1. LastOf(a, "outcome") # {}
  <2>1. FieldOf(x, a) # {}
    BY DEF RecordSays
  <2>. QED
    BY <2>1 DEF FieldOf
<1>2. PICK i \in EventsOf(a, "outcome") : TRUE
  BY <1>1 DEF LastOf
<1>3. i \in EventsOf(b, "outcome") /\ b[i].is_error = a[i].is_error
  BY CoveredEvents DEF Reading
<1>4. LastOf(a, "outcome") = {a[i]} /\ LastOf(b, "outcome") = {b[i]}
  BY <1>3, TheOutcome DEF Reading
<1>5. FieldOf(x, a) = {v \in {a[i].is_error} : v # Absent}
  BY <1>4 DEF FieldOf
<1>6. FieldOf(x, b) = {v \in {b[i].is_error} : v # Absent}
  BY <1>4 DEF FieldOf
<1>. QED
  BY <1>3, <1>5, <1>6 DEF RecordSays

(* check.rs, evaluate: a verdict given beside an unread line stands on     *)
(* every larger reading.                                                   *)
LEMMA VerdictStands ==
  ASSUME NEW a, NEW b, Reading(a, b), HasUnread(a), NEW x \in Counting, Verdict(x, a) # "unk"
  PROVE  Stands(x, Verdict(x, a), b)
<1>0. x \in Expectations /\ (x.kind \in CountedByBound => x.bound \in Bound)
  BY DocumentAssumption DEF Counting
<1>1. CASE x.kind \in {"tool.called", "skill.invoked"}
  <2>1. x.bound \in Bound
    BY <1>0, <1>1 DEF CountedByBound
  <2>2. \A ir : Verdict(x, ir) = ToolCalled(x, ir)
    BY <1>1 DEF Verdict
  <2>. QED
    BY <2>1, <2>2, ToolCalledAgrees DEF Stands
<1>2. CASE x.kind = "tool.absent"
  <2>1. \A ir : Verdict(x, ir) = ToolAbsent(x, ir)
    BY <1>2 DEF Verdict
  <2>. QED
    BY <2>1, ToolAbsentAgrees DEF Stands
<1>3. CASE x.kind = "skill.completed"
  <2>1. x.bound \in Bound
    BY <1>0, <1>3 DEF CountedByBound
  <2>2. \A ir : Verdict(x, ir) = SkillCompleted(x, ir)
    BY <1>3 DEF Verdict
  <2>. QED
    BY <2>1, <2>2, SkillCompletedAgrees DEF Stands
<1>4. CASE x.kind = "tool.failed"
  <2>1. x.bound \in Bound
    BY <1>0, <1>4 DEF CountedByBound
  <2>2. \A ir : Verdict(x, ir) = ToolFailed(x, ir)
    BY <1>4 DEF Verdict
  <2>. QED
    BY <2>1, <2>2, ToolFailedAgrees DEF Stands
<1>5. CASE x.kind = "tool.repeated"
  <2>1. x.bound \in Bound
    BY <1>0, <1>5 DEF CountedByBound
  <2>2. \A ir : Verdict(x, ir) = ToolRepeated(x, ir)
    BY <1>5 DEF Verdict
  <2>. QED
    BY <2>1, <2>2, ToolRepeatedAgrees DEF Stands
<1>6. CASE x \in Totals
  <2>1. x.kind = "tool.result_bytes" /\ x.per = "total"
    BY <1>6 DEF Totals
  <2>2. x.bound \in Bound
    BY <1>0, <2>1 DEF CountedByBound
  <2>3. \A ir : Verdict(x, ir) = ToolResultBytes(x, ir)
    BY <2>1 DEF Verdict
  <2>4. ToolResultBytes(x, b) = ToolResultBytes(x, a) \/ ToolResultBytes(x, b) = "unk"
    BY <2>1, <2>2, <2>3, TotalsStand
  <2>. QED
    BY <1>6, <2>3, <2>4 DEF Stands
<1>7. CASE x.kind = "record" /\ x.record = "outcome" /\ x.field = "is_error"
  <2>1. \A ir : Verdict(x, ir) = RecordSays(x, ir)
    BY <1>7 DEF Verdict
  <2>. QED
    BY <1>7, <2>1, RecordAgrees DEF Stands
<1>. QED
  BY <1>1, <1>2, <1>3, <1>4, <1>5, <1>6, <1>7 DEF Counting

---------------------------------------------------------------------------
(* The run and the lines captured of it                                    *)

OneResultEach(lines) ==
  \A i, j \in EventsOf(lines, "result") : lines[i].call = lines[j].call => i = j

(* A vendor's list, and the census of what the seam refused.               *)
GoodList(list) ==
  IsFiniteSet(list.named) /\ IsFiniteSet(list.unnamed) /\ list.named \cap list.unnamed = {}

OneOutcome ==
  \A i \in EventsOf(run, "outcome") :
    /\ \A j \in EventsOf(run, "outcome") : i = j
    /\ GoodList(Listed(run[i]))
    /\ run[i].census \in {Cardinality(DeniedBySeam), Absent}

LineForLine ==
  Len(stream) = Len(run) /\ \A i \in DOMAIN run : stream[i] \in {run[i], Opaque}

StreamInv ==
  /\ run \in Seq(Event) /\ stream \in Seq(Event \cup {Opaque}) /\ Len(run) <= MaxEvents
  /\ LineForLine /\ OneResultEach(run) /\ OneOutcome
  /\ late \subseteq Asked /\ (~Ended => late = {})

LEMMA EventKinds ==
  ASSUME NEW e \in Event
  PROVE  /\ e.kind # "opaque"
         /\ e.kind = "call" => e.id \in Nat
         /\ e.kind = "decided" => e.call \in Nat
         /\ e.kind = "result" => e.bytes \in Nat
  BY DEF Event

LEMMA SetsOfTheRun ==
  ASSUME run \in Seq(Event)
  PROVE  /\ \A kind : EventsOf(run, kind) \subseteq DOMAIN run /\ IsFiniteSet(EventsOf(run, kind))
         /\ Asked \subseteq Nat /\ IsFiniteSet(Asked) /\ Cardinality(Asked) \in Nat
         /\ DeniedInTheRun \subseteq Nat /\ IsFiniteSet(DeniedInTheRun) /\ Cardinality(DeniedInTheRun) \in Nat
<1>1. IsFiniteSet(DOMAIN run)
  BY FS_Interval
<1>2. \A kind : EventsOf(run, kind) \subseteq DOMAIN run /\ IsFiniteSet(EventsOf(run, kind))
  <2>1. \A kind : EventsOf(run, kind) \subseteq DOMAIN run
    BY DEF EventsOf
  <2>. QED
    BY <1>1, <2>1, FS_Subset
<1>3. \A i \in DOMAIN run : run[i] \in Event
  OBVIOUS
<1>4. Asked \subseteq Nat
  BY <1>3, EventKinds DEF Asked, EventsOf
<1>5. DeniedInTheRun \subseteq Nat
  BY <1>3, EventKinds DEF DeniedInTheRun, EventsOf
<1>6. IsFiniteSet(Asked)
  <2>1. PICK S : S = EventsOf(run, "call")
    OBVIOUS
  <2>2. PICK f : f = [i \in S |-> run[i].id]
    OBVIOUS
  <2>3. f = [i \in S |-> f[i]]
    BY <2>2
  <2>4. IsFiniteSet({f[i] : i \in S})
    BY <1>2, <2>1, <2>3, ImageIsFinite
  <2>5. {f[i] : i \in S} = Asked
    BY <2>1, <2>2 DEF Asked
  <2>. QED
    BY <2>4, <2>5
<1>7. IsFiniteSet(DeniedInTheRun)
  <2>1. PICK S : S = {j \in EventsOf(run, "decided") : run[j].decision = "deny"}
    OBVIOUS
  <2>2. IsFiniteSet(S)
    BY <1>2, <2>1, FS_Subset
  <2>3. PICK f : f = [i \in S |-> run[i].call]
    OBVIOUS
  <2>4. f = [i \in S |-> f[i]]
    BY <2>3
  <2>5. IsFiniteSet({f[i] : i \in S})
    BY <2>2, <2>4, ImageIsFinite
  <2>6. {f[i] : i \in S} = DeniedInTheRun
    BY <2>1, <2>3 DEF DeniedInTheRun
  <2>. QED
    BY <2>5, <2>6
<1>. QED
  BY <1>2, <1>4, <1>5, <1>6, <1>7, FS_CardinalityType

LEMMA RefusalsAreFinite ==
  ASSUME run \in Seq(Event), late \subseteq Asked
  PROVE  IsFiniteSet(DeniedBySeam) /\ Cardinality(DeniedBySeam) \in Nat
<1>1. IsFiniteSet(DeniedInTheRun) /\ IsFiniteSet(late)
  BY SetsOfTheRun, FS_Subset
<1>. QED
  BY <1>1, FS_Union, FS_CardinalityType DEF DeniedBySeam

(* What one more event adds to what was asked and refused.                 *)
LEMMA OneMore ==
  ASSUME run \in Seq(Event), NEW event \in Event, Emit(event)
  PROVE  /\ Asked \subseteq Asked'
         /\ DeniedInTheRun' = DeniedInTheRun \cup
              (IF event.kind = "decided" /\ event.decision = "deny" THEN {event.call} ELSE {})
<1>1. PICK n \in Nat : n = Len(run)
  OBVIOUS
<1>2. /\ DOMAIN run = 1 .. n /\ DOMAIN run' = DOMAIN run \cup {n + 1}
      /\ (\A i \in DOMAIN run : run'[i] = run[i] /\ i # n + 1) /\ run'[n + 1] = event
  BY <1>1 DEF Emit
<1>3. Asked \subseteq Asked'
  BY <1>2 DEF Asked, EventsOf
<1>4. \A j : j \in EventsOf(run', "decided") <=>
              \/ j \in EventsOf(run, "decided")
              \/ j = n + 1 /\ event.kind = "decided"
  BY <1>2 DEF EventsOf
<1>5. \A j \in EventsOf(run, "decided") : run'[j] = run[j]
  BY <1>2 DEF EventsOf
<1>6. ASSUME NEW c
      PROVE  c \in DeniedInTheRun' <=>
               \/ c \in DeniedInTheRun
               \/ event.kind = "decided" /\ event.decision = "deny" /\ c = event.call
  BY <1>2, <1>4, <1>5 DEF DeniedInTheRun
<1>. QED
  BY <1>3, <1>6

(* What is asked of a step and of the event the run goes on with: once the *)
(* run ended, what the seam refused stays as it is.                        *)
GoesOn(event) ==
  /\ event \in Event
  /\ event.kind = "result" => event.call \notin Answers
  /\ event.kind = "outcome" =>
       /\ ~Ended /\ GoodList(Listed(event))
       /\ event.census \in {Cardinality(DeniedBySeam'), Absent}
  /\ event.kind # "outcome" =>
       IF Ended THEN DeniedBySeam' = DeniedBySeam ELSE late' = late
  /\ late' \subseteq Asked'

LEMMA EmitKeeps ==
  ASSUME StreamInv, NEW event, GoesOn(event), Emit(event)
  PROVE  StreamInv'
<1>. USE DEF StreamInv, GoesOn
<1>1. PICK n \in Nat : n = Len(run)
  OBVIOUS
<1>2. /\ run' = Append(run, event) /\ n < MaxEvents
      /\ stream' = Append(stream, event) \/ stream' = Append(stream, Opaque)
  BY <1>1 DEF Emit
<1>3. /\ run' \in Seq(Event) /\ Len(run') = n + 1 /\ DOMAIN run' = DOMAIN run \cup {n + 1}
      /\ DOMAIN run = 1 .. n
      /\ (\A i \in DOMAIN run : run'[i] = run[i] /\ i # n + 1) /\ run'[n + 1] = event
  BY <1>1, <1>2
<1>4. stream' \in Seq(Event \cup {Opaque}) /\ Len(run') <= MaxEvents
  <2>1. PICK line : line \in Event \cup {Opaque} /\ stream' = Append(stream, line)
    BY <1>2
  <2>2. PICK lines : lines = Event \cup {Opaque}
    OBVIOUS
  <2>3. stream \in Seq(lines) /\ line \in lines
    BY <2>1, <2>2
  <2>4. Append(stream, line) \in Seq(lines)
    BY <2>3
  <2>. QED
    BY <1>1, <1>2, <1>3, <2>1, <2>2, <2>4, BoundAssumption
<1>5. LineForLine'
  BY <1>1, <1>2, <1>3 DEF LineForLine
<1>6. OneResultEach(run)'
  <2>. SUFFICES ASSUME NEW i \in EventsOf(run', "result"), NEW j \in EventsOf(run', "result"),
                       run'[i].call = run'[j].call
                PROVE  i = j
    BY DEF OneResultEach
  <2>1. \A k \in EventsOf(run', "result") :
          \/ k \in EventsOf(run, "result") /\ run'[k] = run[k] /\ run[k].call \in Answers
          \/ k = n + 1 /\ run'[k] = event /\ event.call \notin Answers
    BY <1>3 DEF EventsOf, Answers
  <2>. QED
    BY <2>1 DEF OneResultEach
<1>7. \A k \in EventsOf(run', "outcome") :
        \/ k \in EventsOf(run, "outcome") /\ run'[k] = run[k]
        \/ k = n + 1 /\ run'[k] = event /\ event.kind = "outcome"
  BY <1>3 DEF EventsOf
<1>8. OneOutcome'
  <2>1. CASE event.kind = "outcome"
    <3>1. EventsOf(run, "outcome") = {}
      BY <2>1 DEF Ended
    <3>2. \A k \in EventsOf(run', "outcome") : k = n + 1 /\ run'[k] = event
      BY <1>7, <3>1
    <3>. QED
      BY <2>1, <3>2 DEF OneOutcome, Listed
  <2>2. CASE event.kind # "outcome"
    <3>1. \A k \in EventsOf(run', "outcome") : k \in EventsOf(run, "outcome") /\ run'[k] = run[k]
      BY <1>7, <2>2
    <3>2. CASE Ended
      BY <2>2, <3>1, <3>2 DEF OneOutcome, Listed
    <3>3. CASE ~Ended
      BY <3>1, <3>3 DEF OneOutcome, Ended
    <3>. QED
      BY <3>2, <3>3
  <2>. QED
    BY <2>1, <2>2
<1>9. ~Ended' => late' = {}
  <2>1. \A k \in EventsOf(run, "outcome") : k \in EventsOf(run', "outcome")
    BY <1>3 DEF EventsOf
  <2>2. event.kind = "outcome" => n + 1 \in EventsOf(run', "outcome")
    BY <1>3 DEF EventsOf
  <2>. QED
    BY <2>1, <2>2 DEF Ended
<1>. QED
  BY <1>3, <1>4, <1>5, <1>6, <1>8, <1>9

LEMMA NextGoesOn ==
  ASSUME StreamInv, Next
  PROVE  \E event : GoesOn(event) /\ Emit(event)
<1>0. /\ run \in Seq(Event) /\ Asked \subseteq Nat /\ Cardinality(Asked) + 1 \in Nat
      /\ late \subseteq Asked
  BY SetsOfTheRun DEF StreamInv
<1>01. ASSUME NEW e \in Event, Happens(e), e.kind # "outcome",
              e.kind = "result" => e.call \notin Answers
       PROVE  GoesOn(e) /\ Emit(e)
  BY <1>0, <1>01, OneMore DEF GoesOn, Happens
<1>1. CASE ToolRequested
  <2>1. PICK call \in Calls :
          Happens([kind |-> "call", id |-> Cardinality(Asked) + 1, tool |-> call.tool, arg |-> call.arg])
    BY <1>1 DEF ToolRequested
  <2>2. PICK e : e = [kind |-> "call", id |-> Cardinality(Asked) + 1, tool |-> call.tool, arg |-> call.arg]
    OBVIOUS
  <2>3. e \in Event /\ e.kind = "call"
    BY <1>0, <2>2 DEF Event
  <2>. QED
    BY <1>01, <2>1, <2>2, <2>3
<1>2. CASE ToolDecided
  <2>1. PICK call \in Asked \ (Decided \cup Answers), decision \in {"allow", "deny"}, named \in BOOLEAN :
          Happens([kind |-> "decided", call |-> call, named |-> named, decision |-> decision])
    BY <1>2 DEF ToolDecided
  <2>2. PICK e : e = [kind |-> "decided", call |-> call, named |-> named, decision |-> decision]
    OBVIOUS
  <2>3. e \in Event /\ e.kind = "decided"
    BY <1>0, <2>2 DEF Event
  <2>. QED
    BY <1>01, <2>1, <2>2, <2>3
<1>3. CASE ToolResult
  <2>1. PICK call \in Asked \ Answers, result \in Results :
          Happens([kind |-> "result", call |-> call, is_error |-> result.is_error,
                says |-> result.says, bytes |-> result.bytes, took |-> result.took])
    BY <1>3 DEF ToolResult
  <2>2. PICK e : e = [kind |-> "result", call |-> call, is_error |-> result.is_error,
                says |-> result.says, bytes |-> result.bytes, took |-> result.took]
    OBVIOUS
  <2>3. /\ result.is_error \in Flag /\ result.says \in Word /\ result.bytes \in Nat
        /\ result.took \in Nat \cup {Absent}
    BY ResultAssumption
  <2>4. e \in Event /\ e.kind = "result" /\ e.call = call
    BY <1>0, <2>2, <2>3 DEF Event
  <2>. QED
    BY <1>01, <2>1, <2>2, <2>4
<1>4. CASE Text
  <2>1. PICK says \in {"asked for", "otherwise"}: Happens([kind |-> "text", says |-> says])
    BY <1>4 DEF Text
  <2>2. PICK e : e = [kind |-> "text", says |-> says]
    OBVIOUS
  <2>3. e \in Event /\ e.kind = "text"
    BY <2>2 DEF Event
  <2>. QED
    BY <1>01, <2>1, <2>2, <2>3
<1>5. CASE RateLimit
  <2>1. PICK status \in {"allowed", "rejected"}: Happens([kind |-> "rate_limit", status |-> status])
    BY <1>5 DEF RateLimit
  <2>2. PICK e : e = [kind |-> "rate_limit", status |-> status]
    OBVIOUS
  <2>3. e \in Event /\ e.kind = "rate_limit"
    BY <2>2 DEF Event
  <2>. QED
    BY <1>01, <2>1, <2>2, <2>3
<1>6. CASE Warning
  <2>1. PICK e : e = [kind |-> "warning"]
    OBVIOUS
  <2>2. e \in Event /\ e.kind = "warning"
    BY <2>1 DEF Event
  <2>. QED
    BY <1>01, <1>6, <2>1, <2>2 DEF Warning
<1>7. CASE SessionEnded
  <2>1. PICK is_error \in Flag, vendor \in VendorLists, unwritten \in SUBSET (Asked \ Decided) :
          \E census \in {Cardinality(DeniedInTheRun \cup unwritten), Absent} :
            /\ Emit([kind |-> "outcome", is_error |-> is_error, vendor |-> vendor, census |-> census])
            /\ late' = unwritten
    BY <1>7 DEF SessionEnded
  <2>2. PICK census \in {Cardinality(DeniedInTheRun \cup unwritten), Absent} :
          /\ Emit([kind |-> "outcome", is_error |-> is_error, vendor |-> vendor, census |-> census])
          /\ late' = unwritten
    BY <2>1
  <2>3. PICK e : e = [kind |-> "outcome", is_error |-> is_error, vendor |-> vendor, census |-> census]
    OBVIOUS
  <2>4. e.kind = "outcome" /\ e.census = census /\ e.vendor = vendor
    BY <2>3
  <2>5. vendor \in Vendor /\ GoodList(Listed(e))
    <3>1. CASE vendor = Absent
      BY <2>4, <3>1, FS_EmptySet DEF Vendor, GoodList, Listed
    <3>2. CASE vendor # Absent
      <4>1. /\ vendor \in [named : SUBSET Asked, unnamed : SUBSET Asked]
            /\ vendor.named \cap vendor.unnamed = {}
        BY <3>2 DEF VendorLists
      <4>2. IsFiniteSet(vendor.named) /\ IsFiniteSet(vendor.unnamed)
        BY <1>0, <4>1, SetsOfTheRun, FS_Subset
      <4>. QED
        BY <1>0, <2>4, <3>2, <4>1, <4>2 DEF Vendor, GoodList, Listed
    <3>. QED
      BY <3>1, <3>2
  <2>6. census \in Nat \cup {Absent}
    <3>1. IsFiniteSet(unwritten) /\ IsFiniteSet(DeniedInTheRun)
      BY <1>0, SetsOfTheRun, FS_Subset
    <3>2. IsFiniteSet(DeniedInTheRun \cup unwritten)
      BY <3>1, FS_Union
    <3>. QED
      BY <3>2, FS_CardinalityType
  <2>7. e \in Event
    BY <2>3, <2>5, <2>6 DEF Event
  <2>8. DeniedInTheRun' = DeniedInTheRun /\ Asked \subseteq Asked'
    BY <1>0, <2>2, <2>3, <2>4, <2>7, OneMore
  <2>9. DeniedBySeam' = DeniedInTheRun \cup unwritten
    BY <2>2, <2>8 DEF DeniedBySeam
  <2>10. e.census \in {Cardinality(DeniedBySeam'), Absent}
    BY <2>4, <2>9
  <2>11. GoesOn(e)
    BY <1>7, <2>2, <2>4, <2>5, <2>7, <2>8, <2>10 DEF GoesOn, SessionEnded
  <2>. QED
    BY <2>2, <2>3, <2>11
<1>8. CASE DecidedLate
  <2>1. PICK call \in Asked \ Decided, named \in BOOLEAN :
          Emit([kind |-> "decided", call |-> call, named |-> named,
                decision |-> IF call \in late THEN "deny" ELSE "allow"])
    BY <1>8 DEF DecidedLate
  <2>2. PICK e : e = [kind |-> "decided", call |-> call, named |-> named,
                      decision |-> IF call \in late THEN "deny" ELSE "allow"]
    OBVIOUS
  <2>3. /\ e \in Event /\ e.kind = "decided" /\ e.call = call
        /\ e.decision = "deny" => call \in late
    BY <1>0, <2>2 DEF Event
  <2>4. Ended /\ late' = late
    BY <1>8 DEF DecidedLate
  <2>5. Asked \subseteq Asked' /\ DeniedBySeam' = DeniedBySeam
    <3>1. Emit(e)
      BY <2>1, <2>2
    <3>. QED
      BY <1>0, <2>3, <2>4, <3>1, OneMore DEF DeniedBySeam
  <2>6. GoesOn(e)
    BY <1>0, <2>3, <2>4, <2>5 DEF GoesOn
  <2>. QED
    BY <2>1, <2>2, <2>6
<1>. QED
  BY <1>1, <1>2, <1>3, <1>4, <1>5, <1>6, <1>7, <1>8 DEF Next

LEMMA StreamInvInit == Init => StreamInv
  BY BoundAssumption DEF Init, StreamInv, LineForLine, OneResultEach, OneOutcome, EventsOf

LEMMA StreamInvNext == StreamInv /\ [Next]_vars => StreamInv'
<1>1. StreamInv /\ Next => StreamInv'
  BY NextGoesOn, EmitKeeps, Zenon
<1>2. StreamInv /\ UNCHANGED vars => StreamInv'
  <2>. SUFFICES ASSUME StreamInv, UNCHANGED vars PROVE StreamInv'
    OBVIOUS
  <2>1. /\ run' = run /\ stream' = stream /\ late' = late /\ Asked' = Asked
        /\ DeniedBySeam' = DeniedBySeam /\ Ended' = Ended
    BY DEF vars, DeniedBySeam, DeniedInTheRun, Asked, Ended
  <2>2. OneResultEach(run)' /\ LineForLine' /\ EventsOf(run', "outcome") = EventsOf(run, "outcome")
    BY <2>1 DEF StreamInv, OneResultEach, LineForLine
  <2>3. OneOutcome'
    BY <2>1, <2>2 DEF StreamInv, OneOutcome
  <2>. QED
    BY <2>1, <2>2, <2>3 DEF StreamInv
<1>. QED
  BY <1>1, <1>2

LEMMA StreamInvHolds == Spec => []StreamInv
  BY StreamInvInit, StreamInvNext, PTL DEF Spec

---------------------------------------------------------------------------
(* What a reader makes of lines                                            *)

LinesOf(p, q) == \A i \in DOMAIN p : p[i].kind # "opaque" => i \in DOMAIN q /\ q[i] = p[i]

LEMMA IrEvents ==
  ASSUME NEW lines
  PROVE  /\ DOMAIN Ir(lines) = {j \in DOMAIN lines : lines[j].kind \notin ControlPlane}
         /\ \A i \in DOMAIN Ir(lines) :
              /\ Ir(lines)[i].kind = lines[i].kind
              /\ lines[i].kind # "outcome" => Ir(lines)[i] = lines[i]
              /\ lines[i].kind = "outcome" =>
                    /\ Ir(lines)[i].is_error = lines[i].is_error
                    /\ Ir(lines)[i].permission_denials = PermissionDenials(lines[i], lines)
         /\ \A kind : kind \notin ControlPlane => EventsOf(Ir(lines), kind) = EventsOf(lines, kind)
<1>1. DOMAIN Ir(lines) = {j \in DOMAIN lines : lines[j].kind \notin ControlPlane}
  BY DEF Ir
<1>2. ASSUME NEW i \in DOMAIN Ir(lines)
      PROVE  /\ Ir(lines)[i].kind = lines[i].kind
             /\ lines[i].kind # "outcome" => Ir(lines)[i] = lines[i]
             /\ lines[i].kind = "outcome" =>
                   /\ Ir(lines)[i].is_error = lines[i].is_error
                   /\ Ir(lines)[i].permission_denials = PermissionDenials(lines[i], lines)
  <2>1. Ir(lines)[i] = IF lines[i].kind = "outcome"
          THEN [kind |-> "outcome", is_error |-> lines[i].is_error,
                permission_denials |-> PermissionDenials(lines[i], lines)]
          ELSE lines[i]
    BY <1>1, <1>2 DEF Ir
  <2>. QED
    BY <2>1
<1>3. \A i \in DOMAIN Ir(lines) : Ir(lines)[i].kind = lines[i].kind
  BY <1>2
<1>4. \A kind : kind \notin ControlPlane => EventsOf(Ir(lines), kind) = EventsOf(lines, kind)
  BY <1>1, <1>3 DEF EventsOf
<1>. QED
  BY <1>1, <1>2, <1>4

LEMMA LinesAreCovered ==
  ASSUME NEW p, NEW q, LinesOf(p, q)
  PROVE  Covers(Ir(p), Ir(q))
<1>. SUFFICES ASSUME NEW i \in DOMAIN Ir(p), Ir(p)[i].kind # "opaque"
              PROVE  i \in DOMAIN Ir(q) /\ SameEvent(Ir(p)[i], Ir(q)[i])
  BY DEF Covers
<1>1. i \in DOMAIN p /\ p[i].kind \notin ControlPlane /\ p[i].kind # "opaque"
  BY IrEvents
<1>2. i \in DOMAIN q /\ q[i] = p[i]
  BY <1>1 DEF LinesOf
<1>3. i \in DOMAIN Ir(q)
  BY <1>1, <1>2, IrEvents
<1>4. /\ Ir(p)[i].kind = p[i].kind /\ Ir(q)[i].kind = p[i].kind
      /\ p[i].kind # "outcome" => Ir(p)[i] = p[i] /\ Ir(q)[i] = p[i]
      /\ p[i].kind = "outcome" => Ir(p)[i].is_error = p[i].is_error /\ Ir(q)[i].is_error = p[i].is_error
  <2>1. /\ Ir(p)[i].kind = p[i].kind
        /\ p[i].kind # "outcome" => Ir(p)[i] = p[i]
        /\ p[i].kind = "outcome" => Ir(p)[i].is_error = p[i].is_error
    BY IrEvents
  <2>2. /\ Ir(q)[i].kind = q[i].kind
        /\ q[i].kind # "outcome" => Ir(q)[i] = q[i]
        /\ q[i].kind = "outcome" => Ir(q)[i].is_error = q[i].is_error
    BY <1>3, IrEvents
  <2>. QED
    BY <1>2, <2>1, <2>2
<1>. QED
  BY <1>3, <1>4 DEF SameEvent

(* Lines that hold one result for a call and one terminal record.          *)
GoodLines(lines) ==
  /\ lines \in Seq(Event \cup {Opaque}) /\ OneResultEach(lines)
  /\ \A i, j \in EventsOf(lines, "outcome") : i = j

LEMMA GoodLinesAreCaptures ==
  ASSUME NEW lines, GoodLines(lines)
  PROVE  Capture(Ir(lines))
<1>1. DOMAIN lines = 1 .. Len(lines) /\ Len(lines) \in Nat
      /\ \A i \in DOMAIN lines : lines[i] \in Event \cup {Opaque}
  BY DEF GoodLines
<1>2. DOMAIN Ir(lines) \subseteq 1 .. Len(lines)
  BY <1>1, IrEvents
<1>3. DOMAIN Ir(lines) \subseteq Nat /\ IsFiniteSet(DOMAIN Ir(lines))
  <2>1. IsFiniteSet(1 .. Len(lines))
    BY <1>1, FS_Interval
  <2>. QED
    BY <1>1, <1>2, <2>1, FS_Subset
<1>4. /\ EventsOf(Ir(lines), "result") = EventsOf(lines, "result")
      /\ EventsOf(Ir(lines), "outcome") = EventsOf(lines, "outcome")
  BY IrEvents DEF ControlPlane
<1>5. \A i \in EventsOf(lines, "result") : Ir(lines)[i] = lines[i] /\ lines[i].bytes \in Nat
  <2>1. ASSUME NEW i \in EventsOf(lines, "result") PROVE Ir(lines)[i] = lines[i] /\ lines[i].bytes \in Nat
    <3>1. i \in DOMAIN Ir(lines) /\ i \in DOMAIN lines /\ lines[i].kind = "result"
      BY <1>4 DEF EventsOf
    <3>2. lines[i] \in Event
      BY <1>1, <3>1 DEF Opaque
    <3>. QED
      BY <3>1, <3>2, IrEvents, EventKinds
  <2>. QED
    BY <2>1
<1>. QED
  BY <1>3, <1>4, <1>5 DEF Capture, GoodLines, OneResultEach

LEMMA CapturesOfTheRun ==
  ASSUME StreamInv
  PROVE  /\ GoodLines(run) /\ GoodLines(stream) /\ LinesOf(stream, run)
         /\ ~HasUnread(Ir(stream)) => stream = run
<1>1. /\ run \in Seq(Event) /\ stream \in Seq(Event \cup {Opaque}) /\ DOMAIN stream = DOMAIN run
      /\ \A i \in DOMAIN run : stream[i] \in {run[i], Opaque}
  BY DEF StreamInv, LineForLine
<1>2. LinesOf(stream, run)
  BY <1>1 DEF LinesOf, Opaque
<1>3. \A i, j \in EventsOf(run, "outcome") : i = j
  BY DEF StreamInv, OneOutcome
<1>4. GoodLines(run)
  <2>1. run \in Seq(Event \cup {Opaque})
    BY <1>1
  <2>. QED
    BY <1>3, <2>1 DEF GoodLines, StreamInv
<1>5. \A kind : kind # "opaque" =>
        /\ EventsOf(stream, kind) \subseteq EventsOf(run, kind)
        /\ \A i \in EventsOf(stream, kind) : stream[i] = run[i]
  BY <1>1 DEF EventsOf, Opaque
<1>6. GoodLines(stream)
  <2>1. OneResultEach(stream)
    BY <1>5 DEF StreamInv, OneResultEach
  <2>2. \A i, j \in EventsOf(stream, "outcome") : i = j
    BY <1>3, <1>5
  <2>. QED
    BY <1>1, <2>1, <2>2 DEF GoodLines
<1>7. ~HasUnread(Ir(stream)) => stream = run
  <2>. SUFFICES ASSUME ~HasUnread(Ir(stream)) PROVE stream = run
    OBVIOUS
  <2>1. EventsOf(stream, "opaque") = {}
    BY IrEvents DEF HasUnread, ControlPlane
  <2>2. \A i \in DOMAIN run : stream[i] = run[i]
    BY <1>1, <2>1 DEF EventsOf, Opaque
  <2>3. Len(stream) = Len(run)
    BY DEF StreamInv, LineForLine
  <2>4. stream = [i \in 1 .. Len(run) |-> stream[i]] /\ run = [i \in 1 .. Len(run) |-> run[i]]
    BY <1>1, <2>3
  <2>. QED
    BY <1>1, <2>2, <2>4
<1>. QED
  BY <1>2, <1>4, <1>6, <1>7

LEMMA ReadingOfTheRun ==
  ASSUME StreamInv
  PROVE  Reading(Ir(stream), Ir(run))
  BY CapturesOfTheRun, LinesAreCovered, GoodLinesAreCaptures DEF Reading

---------------------------------------------------------------------------
(* Theorems                                                                *)

(* What the checker decides on the lines it could read stands on all that  *)
(* happened, for every run, every specification and every number of lines  *)
(* lost (check.rs, decide_count).                                          *)
LEMMA ReadVerdictsStand ==
  ASSUME StreamInv, NEW x \in Counting, Verdict(x, Ir(stream)) # "unk"
  PROVE  Stands(x, Verdict(x, Ir(stream)), Ir(run))
<1>1. CASE HasUnread(Ir(stream))
  BY <1>1, ReadingOfTheRun, VerdictStands
<1>2. CASE ~HasUnread(Ir(stream))
  <2>1. stream = run
    BY <1>2, CapturesOfTheRun
  <2>. QED
    BY <2>1 DEF Stands
<1>. QED
  BY <1>1, <1>2

THEOREM UnreadTurnsNothing == Spec => []UnreadNeverTurnsAVerdict
<1>1. StreamInv => UnreadNeverTurnsAVerdict
  BY ReadVerdictsStand DEF UnreadNeverTurnsAVerdict
<1>. QED
  BY <1>1, StreamInvHolds, PTL

(* A verdict given beside an unread line stands whatever the run does      *)
(* next.                                                                   *)
LEMMA LaterLines ==
  ASSUME StreamInv, [Next]_vars
  PROVE  LinesOf(stream, stream')
<1>1. CASE Next
  <2>1. PICK event : Emit(event)
    BY <1>1, NextGoesOn
  <2>2. stream \in Seq(Event \cup {Opaque})
    BY DEF StreamInv
  <2>. QED
    BY <2>1, <2>2 DEF Emit, LinesOf
<1>2. CASE UNCHANGED vars
  BY <1>2 DEF vars, LinesOf
<1>. QED
  BY <1>1, <1>2

THEOREM DoubtIsSettled == Spec => VerdictsUnderDoubtAreFinal
<1>. DEFINE Settled == HasUnread(stream) =>
              \A x \in Counting :
                Verdict(x, Ir(stream)) # "unk" => Stands(x, Verdict(x, Ir(stream)), Ir(stream'))
<1>1. StreamInv /\ StreamInv' /\ [Next]_vars => Settled
  <2>. SUFFICES ASSUME StreamInv, StreamInv', [Next]_vars, HasUnread(stream), NEW x \in Counting,
                       Verdict(x, Ir(stream)) # "unk"
                PROVE  Stands(x, Verdict(x, Ir(stream)), Ir(stream'))
    OBVIOUS
  <2>1. PICK later : later = stream'
    OBVIOUS
  <2>2. GoodLines(later)
    <3>1. StreamInv' => GoodLines(stream)'
      BY CapturesOfTheRun, PTL
    <3>. QED
      BY <2>1, <3>1 DEF GoodLines, OneResultEach, EventsOf
  <2>3. GoodLines(stream) /\ LinesOf(stream, later)
    BY <2>1, CapturesOfTheRun, LaterLines
  <2>4. Reading(Ir(stream), Ir(later))
    BY <2>2, <2>3, LinesAreCovered, GoodLinesAreCaptures DEF Reading
  <2>5. HasUnread(Ir(stream))
    BY IrEvents DEF HasUnread, ControlPlane
  <2>. QED
    BY <2>1, <2>4, <2>5, VerdictStands
<1>2. VerdictsUnderDoubtAreFinal <=> [][Settled]_vars
  BY DEF VerdictsUnderDoubtAreFinal
<1>. QED
  BY <1>1, <1>2, StreamInvHolds, StreamInvNext, PTL DEF Spec

---------------------------------------------------------------------------
(* The report                                                              *)

LEMMA MaxIsIn ==
  ASSUME NEW n \in Nat, NEW s, s \subseteq 1 .. n, s # {}
  PROVE  Max(s) \in s
<1>. DEFINE N == {n - m : m \in s}
<1>1. N \subseteq Nat /\ N # {}
  <2>1. \A m \in s : m \in 1 .. n /\ n - m \in Nat
    OBVIOUS
  <2>. QED
    BY <2>1
<1>2. \E k \in N : \A m \in N : k <= m
  <2>. HIDE DEF N
  <2>. QED
    BY <1>1, SmallestNumber
<1>3. PICK m \in s : \A k \in s : n - m <= n - k
  BY <1>2
<1>4. \A k \in s : m >= k
  BY <1>3
<1>. QED
  BY <1>4 DEF Max

(* The verdict over some of the rows, the last one last.                   *)
UpToRow(document, ir, f, s) ==
  IF s = {} THEN "ok"
  ELSE Fold(f[s \ {Max(s)}], document[Max(s)], RowVerdict(document[Max(s)], ir))

OverRows(document, ir) ==
  CHOOSE f : f = [s \in SUBSET DOMAIN document |-> UpToRow(document, ir, f, s)]

LEMMA ReportIsOverRows ==
  ASSUME NEW document, NEW ir
  PROVE  Report(document, ir) = OverRows(document, ir)[DOMAIN document]
  BY DEF Report, FoldLeft, MapThenFoldSet, OverRows, UpToRow

LEMMA FoldIsAVerdict ==
  ASSUME NEW verdict \in {"ok", "gap", "unk"}, NEW x, NEW row
  PROVE  Fold(verdict, x, row) \in {"ok", "gap", "unk"}
  BY DEF Fold

LEMMA OverRowsAre ==
  ASSUME NEW document, NEW ir, NEW n \in Nat, DOMAIN document = 1 .. n, NEW s \in SUBSET (1 .. n)
  PROVE  OverRows(document, ir)[s] = UpToRow(document, ir, OverRows(document, ir), s)
<1>. DEFINE V == {"ok", "gap", "unk"}
<1>1. PICK S : S = 1 .. n
  OBVIOUS
<1>2. IsFiniteSet(S)
  BY <1>1, FS_Interval
<1>3. PICK pick : pick = [t \in SUBSET S |-> Max(t)]
  OBVIOUS
<1>4. \A t \in SUBSET S : t # {} => Max(t) \in t
  BY <1>1, MaxIsIn
<1>5. Picks(pick, S)
  BY <1>3, <1>4 DEF Picks
<1>6. PICK put : put = [i \in S |-> [v \in V |-> Fold(v, document[i], RowVerdict(document[i], ir))]]
  OBVIOUS
<1>7. put \in [S -> [V -> V]]
  BY <1>6, FoldIsAVerdict
<1>8. Foldable(S, V, "ok", put, pick)
  BY <1>2, <1>5, <1>7 DEF Foldable
<1>. HIDE DEF V
<1>9. PICK f : IsFold(f, S, V, "ok", put, pick)
  BY <1>8, FoldExists, Zenon
<1>10. f \in [SUBSET S -> V] /\ \A t \in SUBSET S : f[t] = Put(put, "ok", pick, f, t)
  BY <1>9 DEF IsFold
<1>11. ASSUME NEW t \in SUBSET S PROVE f[t] = UpToRow(document, ir, f, t)
  <2>1. CASE t = {}
    BY <1>10, <2>1 DEF Put, UpToRow
  <2>2. CASE t # {}
    <3>1. PICK i : i = Max(t)
      OBVIOUS
    <3>2. pick[t] = i /\ i \in S
      BY <1>3, <1>4, <2>2, <3>1
    <3>3. f[t \ {i}] \in V
      BY <1>10
    <3>4. f[t] = put[i][f[t \ {i}]]
      BY <1>10, <2>2, <3>2 DEF Put
    <3>5. f[t] = Fold(f[t \ {i}], document[i], RowVerdict(document[i], ir))
      BY <1>6, <3>2, <3>3, <3>4
    <3>. QED
      BY <2>2, <3>1, <3>5 DEF UpToRow
  <2>. QED
    BY <2>1, <2>2
<1>12. f = [t \in SUBSET S |-> UpToRow(document, ir, f, t)]
  BY <1>10, <1>11
<1>13. OverRows(document, ir) = CHOOSE g : g = [t \in SUBSET S |-> UpToRow(document, ir, g, t)]
  BY <1>1 DEF OverRows
<1>14. OverRows(document, ir) = [t \in SUBSET S |-> UpToRow(document, ir, OverRows(document, ir), t)]
  BY <1>12, <1>13
<1>15. s \in SUBSET S
  BY <1>1
<1>. QED
  BY <1>14, <1>15

(* A gating gap is the verdict, and only rows that are all ok make an ok.  *)
Row(document, ir, i) == RowVerdict(document[i], ir)
Gates(document, s) == {i \in s : document[i].severity = "gate"}

SaysOf(verdict, document, ir, s) ==
  /\ verdict = "gap" <=> \E i \in Gates(document, s) : Row(document, ir, i) = "gap"
  /\ verdict = "ok" <=> \A i \in Gates(document, s) : Row(document, ir, i) = "ok"

LEMMA ReportSays ==
  ASSUME NEW document, NEW ir, NEW n \in Nat, DOMAIN document = 1 .. n
  PROVE  SaysOf(Report(document, ir), document, ir, 1 .. n)
<1>1. PICK f : f = OverRows(document, ir)
  OBVIOUS
<1>2. PICK S : S = 1 .. n
  OBVIOUS
<1>3. \A s \in SUBSET S : f[s] = UpToRow(document, ir, f, s)
  BY <1>1, <1>2, OverRowsAre
<1>. DEFINE Bad == {s \in SUBSET S : ~SaysOf(f[s], document, ir, s)}
<1>4. ASSUME Bad # {} PROVE FALSE
  <2>1. IsFiniteSet(S) /\ Bad \subseteq SUBSET S
    BY <1>2, FS_Interval
  <2>2. PICK s \in Bad : \A r \in Bad : r \subseteq s => r = s
    <3>. HIDE DEF Bad
    <3>. QED
      BY <1>4, <2>1, SmallestSubset
  <2>3. s \in SUBSET S /\ ~SaysOf(f[s], document, ir, s)
    OBVIOUS
  <2>4. s # {}
    <3>1. ASSUME s = {} PROVE FALSE
      <4>1. f[s] = "ok"
        BY <1>3, <2>3, <3>1 DEF UpToRow
      <4>2. Gates(document, s) = {}
        BY <3>1 DEF Gates
      <4>. QED
        BY <2>3, <4>1, <4>2 DEF SaysOf
    <3>. QED
      BY <3>1
  <2>5. PICK i : i = Max(s)
    OBVIOUS
  <2>6. i \in s
    BY <1>2, <2>3, <2>4, <2>5, MaxIsIn
  <2>7. PICK r : r = s \ {i}
    OBVIOUS
  <2>8. r \in SUBSET S /\ r \notin Bad
    <3>1. r \in SUBSET S /\ r \subseteq s /\ r # s
      BY <2>3, <2>6, <2>7
    <3>. HIDE DEF Bad
    <3>. QED
      BY <2>2, <3>1
  <2>9. SaysOf(f[r], document, ir, r)
    BY <2>8
  <2>10. f[s] = Fold(f[r], document[i], Row(document, ir, i))
    BY <1>3, <2>3, <2>4, <2>5, <2>7 DEF UpToRow, Row
  <2>11. Gates(document, s) = Gates(document, r) \cup (IF document[i].severity = "gate" THEN {i} ELSE {})
    BY <2>6, <2>7 DEF Gates
  <2>12. SaysOf(f[s], document, ir, s)
    <3>1. CASE document[i].severity # "gate"
      <4>1. f[s] = f[r] /\ Gates(document, s) = Gates(document, r)
        BY <2>10, <2>11, <3>1 DEF Fold
      <4>. QED
        BY <2>9, <4>1 DEF SaysOf
    <3>2. CASE document[i].severity = "gate"
      <4>1. Gates(document, s) = Gates(document, r) \cup {i}
        BY <2>11, <3>2
      <4>2. CASE Row(document, ir, i) = "ok"
        <5>1. f[s] = f[r]
          BY <2>10, <4>2 DEF Fold
        <5>. QED
          BY <2>9, <4>1, <4>2, <5>1 DEF SaysOf
      <4>3. CASE Row(document, ir, i) = "gap"
        <5>1. f[s] = "gap"
          BY <2>10, <3>2, <4>3 DEF Fold
        <5>. QED
          BY <4>1, <4>3, <5>1 DEF SaysOf
      <4>4. CASE Row(document, ir, i) \notin {"ok", "gap"}
        <5>1. f[s] = IF f[r] = "ok" THEN "unk" ELSE f[r]
          BY <2>10, <3>2, <4>4 DEF Fold
        <5>. QED
          BY <2>9, <4>1, <4>4, <5>1 DEF SaysOf
      <4>. QED
        BY <4>2, <4>3, <4>4
    <3>. QED
      BY <3>1, <3>2
  <2>. QED
    BY <2>3, <2>12
<1>5. S \in SUBSET S
  OBVIOUS
<1>6. SaysOf(f[S], document, ir, S)
  BY <1>4, <1>5
<1>. QED
  BY <1>1, <1>2, <1>6, ReportIsOverRows

LEMMA ReportOfADocument ==
  ASSUME NEW document \in Documents, NEW ir, NEW gating,
         gating = {x \in Range(document) : x.severity = "gate"}
  PROVE  /\ Report(document, ir) = "gap" <=> \E x \in gating : RowVerdict(x, ir) = "gap"
         /\ Report(document, ir) = "ok" <=> \A x \in gating : RowVerdict(x, ir) = "ok"
<1>1. document \in Seq(Range(document))
  BY DocumentAssumption
<1>2. PICK n \in Nat : DOMAIN document = 1 .. n
  BY <1>1
<1>3. gating = {document[i] : i \in Gates(document, 1 .. n)}
  BY <1>2 DEF Range, Gates
<1>. QED
  BY <1>2, <1>3, ReportSays DEF SaysOf, Row

(* The evidence a report becomes says passed, or failed, only of a run     *)
(* that earned it, whatever was lost of the lines (report.rs, evidence.rs).*)
THEOREM EarnedEvidence == Spec => []EvidenceIsEarned
<1>1. StreamInv => EvidenceIsEarned
  <2>. DEFINE Gating(document) == {x \in Range(document) : x.severity = "gate"}
              Earned(gating, status) ==
                /\ status = "passed" => \A x \in gating : Stands(x, "ok", Ir(run))
                /\ status = "failed" =>
                     \E x \in gating :
                       \/ Verdict(x, Ir(stream)) = "gap" /\ Stands(x, "gap", Ir(run))
                       \/ x.on_unknown = "gap" /\ Verdict(x, Ir(stream)) = "unk"
                /\ (\E x \in gating : Verdict(x, Ir(stream)) = "gap") => status = "failed"
  <2>0. EvidenceIsEarned <=>
          \A document \in Documents :
            stream # <<>> /\ Gating(document) \subseteq Counting =>
              Earned(Gating(document), EvidenceStatus(Report(document, Ir(stream))))
    BY DEF EvidenceIsEarned
  <2>. HIDE DEF Gating
  <2>. SUFFICES ASSUME StreamInv, NEW document \in Documents, NEW gating, gating = Gating(document),
                       gating \subseteq Counting,
                       NEW verdict, verdict = Report(document, Ir(stream))
                PROVE  Earned(gating, EvidenceStatus(verdict))
    BY <2>0
  <2>1. /\ verdict = "gap" <=> \E x \in gating : RowVerdict(x, Ir(stream)) = "gap"
        /\ verdict = "ok" <=> \A x \in gating : RowVerdict(x, Ir(stream)) = "ok"
    BY ReportOfADocument DEF Gating
  <2>2. \A x \in gating : \A said \in {"ok", "gap"} :
          Verdict(x, Ir(stream)) = said => Stands(x, said, Ir(run))
    BY ReadVerdictsStand
  <2>3. /\ EvidenceStatus(verdict) = "passed" => verdict = "ok"
        /\ EvidenceStatus(verdict) = "failed" <=> verdict = "gap"
    BY DEF EvidenceStatus
  <2>4. \A x : /\ RowVerdict(x, Ir(stream)) = "ok" => Verdict(x, Ir(stream)) = "ok"
               /\ Verdict(x, Ir(stream)) = "gap" => RowVerdict(x, Ir(stream)) = "gap"
               /\ RowVerdict(x, Ir(stream)) = "gap" =>
                     \/ Verdict(x, Ir(stream)) = "gap"
                     \/ x.on_unknown = "gap" /\ Verdict(x, Ir(stream)) = "unk"
    BY DEF RowVerdict
  <2>. QED
    BY <2>1, <2>2, <2>3, <2>4
<1>. QED
  BY <1>1, StreamInvHolds, PTL

---------------------------------------------------------------------------
(* The refusals                                                            *)

LEMMA RefusalsOfTheLines ==
  ASSUME StreamInv
  PROVE  /\ Denied(stream) \subseteq DeniedBySeam
         /\ \A i \in EventsOf(stream, "outcome") :
              /\ i \in EventsOf(run, "outcome") /\ stream[i] = run[i]
              /\ LastOf(Ir(stream), "outcome") = {Ir(stream)[i]}
              /\ Ir(stream)[i].permission_denials = PermissionDenials(run[i], stream)
<1>1. /\ LinesOf(stream, run) /\ Capture(Ir(stream))
      /\ EventsOf(Ir(stream), "outcome") = EventsOf(stream, "outcome")
  BY CapturesOfTheRun, GoodLinesAreCaptures, IrEvents DEF ControlPlane
<1>2. \A kind : kind # "opaque" =>
        /\ EventsOf(stream, kind) \subseteq EventsOf(run, kind)
        /\ \A i \in EventsOf(stream, kind) : stream[i] = run[i]
  BY <1>1 DEF LinesOf, EventsOf
<1>3. Denied(stream) \subseteq DeniedBySeam
  BY <1>2 DEF Denied, DeniedBySeam, DeniedInTheRun
<1>4. ASSUME NEW i \in EventsOf(stream, "outcome")
      PROVE  /\ LastOf(Ir(stream), "outcome") = {Ir(stream)[i]}
             /\ Ir(stream)[i].permission_denials = PermissionDenials(stream[i], stream)
  <2>1. i \in EventsOf(Ir(stream), "outcome")
    BY <1>1
  <2>2. i \in DOMAIN Ir(stream) /\ stream[i].kind = "outcome"
    BY <2>1 DEF EventsOf
  <2>. QED
    BY <1>1, <2>1, <2>2, TheOutcome, IrEvents
<1>. QED
  BY <1>2, <1>3, <1>4

LEMMA CountedOnce ==
  ASSUME NEW S, NEW T, IsFiniteSet(S), IsFiniteSet(T)
  PROVE  Cardinality(S \cup T) = Cardinality(S) + Cardinality(T \ S)
<1>0. PICK U : U = T \ S
  OBVIOUS
<1>1. S \cup T = S \cup U /\ S \cap U = {}
  BY <1>0
<1>2. IsFiniteSet(U)
  BY <1>0, FS_Difference
<1>3. Cardinality(S \cup U) = Cardinality(S) + Cardinality(U) - Cardinality(S \cap U)
  BY <1>2, FS_Union
<1>4. Cardinality(S \cap U) = 0 /\ Cardinality(S) \in Nat /\ Cardinality(U) \in Nat
  BY <1>1, <1>2, FS_EmptySet, FS_CardinalityType
<1>. QED
  <2>1. Cardinality(S \cup T) = Cardinality(S \cup U)
    BY <1>1, Zenon
  <2>2. Cardinality(S \cup U) = Cardinality(S) + Cardinality(U)
    BY <1>3, <1>4
  <2>. QED
    BY <1>0, <2>1, <2>2

(* Of the seam's refusals and the two parts of the vendor's list, and of   *)
(* the seam's that were read: what is added up and what there is.          *)
LEMMA JoinedByCall ==
  ASSUME NEW D, NEW R, R \subseteq D, IsFiniteSet(D), NEW list, GoodList(list)
  PROVE  LET N == list.named
             U == list.unnamed
         IN /\ {Cardinality(R), Cardinality(D), Cardinality(N \ R), Cardinality(N \ D),
                Cardinality(U), Cardinality(U \ D), Cardinality(U \cap D)} \subseteq Nat
            /\ Cardinality(R) <= Cardinality(D) /\ Cardinality(N \ D) <= Cardinality(N \ R)
            /\ Cardinality(U) = Cardinality(U \ D) + Cardinality(U \cap D)
            /\ Cardinality(D \cup (U \cup N))
                 = Cardinality(D) + Cardinality(N \ D) + Cardinality(U \ D)
<1>1. PICK N, U : N = list.named /\ U = list.unnamed
  OBVIOUS
<1>2. IsFiniteSet(N) /\ IsFiniteSet(U) /\ N \cap U = {}
  BY <1>1 DEF GoodList
<1>3. /\ IsFiniteSet(R) /\ IsFiniteSet(N \ R) /\ IsFiniteSet(N \ D) /\ IsFiniteSet(U \ D)
      /\ IsFiniteSet(U \cap D) /\ IsFiniteSet(U \cup N)
  <2>1. R \subseteq D /\ N \ R \subseteq N /\ N \ D \subseteq N /\ U \ D \subseteq U /\ U \cap D \subseteq U
    OBVIOUS
  <2>. QED
    BY <1>2, <2>1, FS_Subset, FS_Union
<1>4. /\ Cardinality(R) \in Nat /\ Cardinality(D) \in Nat /\ Cardinality(N \ R) \in Nat
      /\ Cardinality(N \ D) \in Nat /\ Cardinality(U) \in Nat /\ Cardinality(U \ D) \in Nat
      /\ Cardinality(U \cap D) \in Nat
  BY <1>2, <1>3, FS_CardinalityType
<1>5. Cardinality(R) <= Cardinality(D) /\ Cardinality(N \ D) <= Cardinality(N \ R)
  <2>1. N \ D \subseteq N \ R
    OBVIOUS
  <2>. QED
    BY <1>3, <2>1, CountsGrow
<1>6. Cardinality(U) = Cardinality(U \ D) + Cardinality(U \cap D)
  <2>1. PICK A, B : A = U \cap D /\ B = U \ D
    OBVIOUS
  <2>2. A \cup B = U /\ B \ A = B
    BY <2>1
  <2>3. Cardinality(A \cup B) = Cardinality(A) + Cardinality(B \ A)
    BY <1>3, <2>1, CountedOnce
  <2>4. Cardinality(U) = Cardinality(A) + Cardinality(B)
    BY <2>2, <2>3
  <2>. QED
    BY <1>4, <2>1, <2>4
<1>7. Cardinality(D \cup (U \cup N)) = Cardinality(D) + Cardinality(N \ D) + Cardinality(U \ D)
  <2>1. PICK W, A, B : W = U \cup N /\ A = N \ D /\ B = U \ D
    OBVIOUS
  <2>2. W \ D = A \cup B /\ B \ A = B
    BY <1>2, <2>1
  <2>3. Cardinality(D \cup W) = Cardinality(D) + Cardinality(W \ D)
    BY <1>3, <2>1, CountedOnce
  <2>4. Cardinality(A \cup B) = Cardinality(A) + Cardinality(B \ A)
    BY <1>3, <2>1, CountedOnce
  <2>5. Cardinality(D \cup W) = Cardinality(D) + (Cardinality(A) + Cardinality(B))
    BY <2>2, <2>3, <2>4
  <2>. QED
    BY <1>4, <2>1, <2>5
<1>. QED
  BY <1>1, <1>4, <1>5, <1>6, <1>7

(* With a census no refusal is lost; where every decision was read each    *)
(* refused call counts once, whichever layers wrote it down and wherever,  *)
(* and once more only if the seam refused it and the vendor listed it      *)
(* without naming it (event_stream.rs, permission_denials, seam_ledger).   *)
THEOREM RefusalsAreCounted == Spec => []DenialsAddUp
<1>1. StreamInv => DenialsAddUp
  <2>. SUFFICES ASSUME StreamInv, NEW n \in Reported
                PROVE  /\ CensusTaken => n # Absent /\ n >= Cardinality(Refused)
                       /\ EveryDenialRead =>
                            IF n = Absent THEN Refused = {}
                            ELSE n = Cardinality(Refused)
                                       + Cardinality(Unattributed \cap DeniedBySeam)
    BY DEF DenialsAddUp
  <2>1. PICK i \in EventsOf(stream, "outcome") : TRUE
    <3>1. LastOf(Ir(stream), "outcome") # {}
      BY DEF Reported
    <3>2. EventsOf(Ir(stream), "outcome") # {}
      BY <3>1 DEF LastOf
    <3>. QED
      BY <3>2, IrEvents DEF ControlPlane
  <2>2. i \in EventsOf(run, "outcome") /\ n = PermissionDenials(run[i], stream)
    BY <2>1, RefusalsOfTheLines DEF Reported
  <2>3. /\ run[i].census \in {Cardinality(DeniedBySeam), Absent} /\ GoodList(Listed(run[i]))
        /\ CensusTaken => run[i].census # Absent
    BY <2>2 DEF StreamInv, OneOutcome, CensusTaken
  <2>4. EventsOf(run, "outcome") = {i}
    BY <2>2, CapturesOfTheRun DEF GoodLines
  <2>5. PICK D, R, list : D = DeniedBySeam /\ R = Denied(stream) /\ list = Listed(run[i])
    OBVIOUS
  <2>6. PICK N, U : N = list.named /\ U = list.unnamed
    OBVIOUS
  <2>7. Unattributed = U /\ Refused = D \cup (U \cup N)
    BY <2>4, <2>5, <2>6 DEF Unattributed, RefusedByVendor, Refused
  <2>8. PICK d, r, nr, nd, u, ud, both :
          /\ d = Cardinality(D) /\ r = Cardinality(R) /\ nr = Cardinality(N \ R)
          /\ nd = Cardinality(N \ D) /\ u = Cardinality(U) /\ ud = Cardinality(U \ D)
          /\ both = Cardinality(U \cap D)
    OBVIOUS
  <2>9. /\ d \in Nat /\ r \in Nat /\ nr \in Nat /\ nd \in Nat /\ u \in Nat /\ ud \in Nat /\ both \in Nat
        /\ r <= d /\ nd <= nr /\ u = ud + both
        /\ Cardinality(Refused) = d + nd + ud
    <3>1. IsFiniteSet(D) /\ R \subseteq D /\ GoodList(list)
      BY <2>3, <2>5, RefusalsAreFinite, RefusalsOfTheLines DEF StreamInv
    <3>. QED
      BY <2>6, <2>7, <2>8, <3>1, JoinedByCall
  <2>10. PICK census : census = IF run[i].census = Absent THEN 0 ELSE run[i].census
    OBVIOUS
  <2>11. /\ census \in {0, d}
         /\ CensusTaken => census = d
    BY <2>3, <2>5, <2>8, <2>10
  <2>12. n = IF run[i].census = Absent /\ run[i].vendor = Absent /\ ~AnyDecided(stream)
             THEN Absent ELSE Larger(r, census) + nr + u
    BY <2>2, <2>5, <2>6, <2>8, <2>10 DEF PermissionDenials
  <2>13. n # Absent => n = Larger(r, census) + nr + u
    BY <2>12
  <2>14. Larger(r, census) \in Nat /\ Larger(r, census) + nr + u # Absent
    BY <2>9, <2>11, AbsentAssumption DEF Larger
  <2>15. ASSUME CensusTaken PROVE n # Absent /\ n >= Cardinality(Refused)
    <3>1. n = Larger(r, d) + nr + u
      BY <2>3, <2>11, <2>12, <2>15
    <3>2. n # Absent
      BY <2>3, <2>12, <2>14, <2>15
    <3>. QED
      BY <2>9, <3>1, <3>2 DEF Larger
  <2>16. ASSUME EveryDenialRead, n = Absent PROVE Refused = {}
    <3>1. run[i].vendor = Absent /\ ~AnyDecided(stream)
      BY <2>12, <2>14, <2>16
    <3>2. N = {} /\ U = {}
      BY <2>5, <2>6, <3>1 DEF Listed
    <3>3. D = {}
      BY <2>5, <2>16, <3>1 DEF EveryDenialRead, Denied, AnyDecided
    <3>. QED
      BY <2>7, <3>2, <3>3
  <2>17. ASSUME EveryDenialRead, n # Absent
         PROVE  n = Cardinality(Refused) + Cardinality(Unattributed \cap DeniedBySeam)
    <3>1. R = D
      BY <2>5, <2>17 DEF EveryDenialRead
    <3>2. r = d /\ nr = nd
      BY <2>8, <3>1
    <3>3. n = d + nd + u
      BY <2>9, <2>11, <2>13, <2>17, <3>2 DEF Larger
    <3>4. Cardinality(Unattributed \cap DeniedBySeam) = both
      BY <2>5, <2>7, <2>8
    <3>. QED
      BY <2>9, <3>3, <3>4
  <2>. QED
    BY <2>15, <2>16, <2>17
<1>. QED
  BY <1>1, StreamInvHolds, PTL

---------------------------------------------------------------------------
(* Types                                                                   *)

LEMMA VerdictType ==
  ASSUME NEW x \in Counting, NEW ir
  PROVE  Verdict(x, ir) \in {"ok", "gap", "unk"}
<1>. DEFINE V == {"ok", "gap", "unk"}
<1>1. HasUnread(ir) \in BOOLEAN /\ \A p : Said(p) \in V
  BY DEF HasUnread, Said
<1>2. ToolCalled(x, ir) \in V
  BY <1>1, CountIsDecided DEF ToolCalled
<1>3. ToolAbsent(x, ir) \in V
  BY DEF ToolAbsent
<1>4. SkillCompleted(x, ir) \in V
  BY <1>1, CountIsDecided DEF SkillCompleted
<1>5. ToolFailed(x, ir) \in V
  BY <1>1, CountIsDecided DEF ToolFailed
<1>6. ToolRepeated(x, ir) \in V
  BY <1>1, CountIsDecided DEF ToolRepeated
<1>7. x \in Totals => ToolResultBytes(x, ir) \in V
  <2>. SUFFICES ASSUME x \in Totals PROVE ToolResultBytes(x, ir) \in V
    OBVIOUS
  <2>1. ToolResultBytes(x, ir) = "unk" \/ \E n : ToolResultBytes(x, ir) = DecideCount(x.bound, n, HasUnread(ir))
    BY DEF ToolResultBytes, Totals
  <2>. QED
    BY <1>1, <2>1, CountIsDecided
<1>8. RecordSays(x, ir) \in V
  BY <1>1 DEF RecordSays
<1>. QED
  BY <1>2, <1>3, <1>4, <1>5, <1>6, <1>7, <1>8 DEF Counting, Totals, Verdict

(* Every state is typed, the capture has a line for everything that        *)
(* happened, and every counting expectation has a verdict on it.           *)
THEOREM TypeCorrect == Spec => []TypeOK
<1>1. StreamInv => TypeOK
  BY VerdictType DEF StreamInv, LineForLine, TypeOK
<1>. QED
  BY <1>1, StreamInvHolds, PTL
=============================================================================
