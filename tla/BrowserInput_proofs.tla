------------------------- MODULE BrowserInput_proofs -------------------------
(***************************************************************************)
(* Proofs about BrowserInput, for any clients, kinds, fences and limits:   *)
(* epochs have no gap on the wire and end at the first unknown outcome,    *)
(* the limits hold, results are final.                                     *)
(*                                                                         *)
(* The invariant is one of each browser's authority and ledger.  Most      *)
(* steps only end intents (Ends) and take authority away (Demoted); what   *)
(* remains is that an intent is appended, that a new epoch opens, and that *)
(* what waits is admitted and sent.                                        *)
(***************************************************************************)
EXTENDS BrowserInput, FiniteSetTheorems, SequenceTheorems, TLAPS

-----------------------------------------------------------------------------
(* Ranks: the place of an intent among those admitted *)

LEMMA LeastExists == ASSUME NEW S, S \subseteq Nat, S # {} PROVE \E m \in S : \A k \in S : m <= k
<1> DEFINE R == OpToRel(<, Nat)
<1>1. IsWellFoundedOn(R, Nat)
    BY NatLessThanWellFounded
<1>2. \E x \in S : \A y \in S : ~ (<<y, x>> \in R)
    <2> HIDE DEF R
    <2> QED BY <1>1, WFMin
<1>3. PICK x \in S : \A y \in S : ~ (<<y, x>> \in R)
    BY <1>2
<1>4. ASSUME NEW y \in S PROVE x <= y
    <2>1. <<y, x>> \in R <=> y < x
        BY DEF OpToRel
    <2>2. x \in Nat /\ y \in Nat /\ ~(y < x)
        <3> HIDE DEF R
        <3> QED BY <1>3, <1>4, <2>1
    <2> QED BY <2>2
<1> QED BY <1>3, <1>4

LEMMA GreatestExists ==
    ASSUME NEW n \in Nat, NEW S, S \subseteq 1 .. n, S # {}
    PROVE  \E m \in S : \A k \in S : k <= m
<1> DEFINE T == {n - k : k \in S}
<1>1. T \subseteq Nat /\ T # {}
    <2>1. \A k \in S : n - k \in Nat
        OBVIOUS
    <2> QED BY <2>1
<1>2. PICK t \in T : \A u \in T : t <= u
    <2> HIDE DEF T
    <2> QED BY <1>1, LeastExists
<1>3. PICK m \in S : t = n - m
    OBVIOUS
<1>4. ASSUME NEW k \in S PROVE k <= m
    <2>1. n - k \in T
        BY <1>4
    <2>2. n - m <= n - k
        <3> HIDE DEF T
        <3> QED BY <1>2, <1>3, <2>1
    <2> QED BY <1>4, <2>2
<1> QED BY <1>4

LEMMA RankIsCount ==
    ASSUME NEW n \in Nat, NEW ids, ids \subseteq 1 .. n, NEW i \in Nat
    PROVE  /\ IsFiniteSet(ids) /\ Cardinality(ids) \in Nat
           /\ Rank(i, ids) \in 0 .. Cardinality(ids)
           /\ i \in ids => Rank(i, ids) >= 1
<1> DEFINE S == {j \in ids : j <= i}
<1>1. IsFiniteSet(ids) /\ Cardinality(ids) \in Nat
    <2>1. IsFiniteSet(1 .. n)
        BY FS_Interval
    <2> QED BY <2>1, FS_Subset, FS_CardinalityType
<1>2. IsFiniteSet(S) /\ Cardinality(S) <= Cardinality(ids) /\ Cardinality(S) \in Nat
    BY <1>1, FS_Subset, FS_CardinalityType
<1>3. i \in ids => Cardinality(S) # 0
    <2>1. i \in ids => i \in S
        OBVIOUS
    <2> HIDE DEF S
    <2> QED BY <1>2, <2>1, FS_EmptySet
<1> QED BY <1>1, <1>2, <1>3 DEF Rank

LEMMA RankDescends ==
    ASSUME NEW n \in Nat, NEW ids, ids \subseteq 1 .. n, NEW i \in ids, Rank(i, ids) > 1
    PROVE  \E j \in ids : j < i /\ Rank(j, ids) = Rank(i, ids) - 1
<1> DEFINE S(k) == {j \in ids : j <= k}
           T == {j \in ids : j < i}
<1>1. IsFiniteSet(T) /\ Cardinality(T) \in Nat /\ S(i) = T \cup {i} /\ i \notin T
    <2>1. IsFiniteSet(ids)
        BY RankIsCount
    <2>2. IsFiniteSet(T) /\ Cardinality(T) \in Nat
        BY <2>1, FS_Subset, FS_CardinalityType
    <2>3. i \notin T /\ \A j \in ids : j <= i <=> (j < i \/ j = i)
        OBVIOUS
    <2>4. S(i) = T \cup {i}
        BY <2>3
    <2> QED BY <2>2, <2>3, <2>4
<1>2. Rank(i, ids) = Cardinality(T) + 1
    <2>1. Rank(i, ids) = Cardinality(S(i))
        BY DEF Rank
    <2> HIDE DEF S, T
    <2> QED BY <1>1, <2>1, FS_AddElement
<1>3. T # {} /\ T \subseteq 1 .. n
    <2>1. T \subseteq 1 .. n
        OBVIOUS
    <2> HIDE DEF T
    <2> QED BY <1>1, <1>2, <2>1, FS_EmptySet
<1>4. PICK m \in T : \A k \in T : k <= m
    <2> HIDE DEF T
    <2> QED BY <1>3, GreatestExists
<1>5. S(m) = T
    <2>1. m \in ids /\ m < i
        BY <1>4
    <2>2. ASSUME NEW j \in ids PROVE j <= m <=> j < i
        <3>1. j < i => j \in T
            OBVIOUS
        <3>2. j < i => j <= m
            <4> HIDE DEF T
            <4> QED BY <1>4, <3>1
        <3> QED BY <2>1, <3>2
    <2> QED BY <2>2
<1>6. Rank(m, ids) = Cardinality(T)
    BY <1>5 DEF Rank
<1>7. m \in ids /\ m < i
    BY <1>4
<1> HIDE DEF T
<1> QED BY <1>1, <1>2, <1>6, <1>7

LEMMA EveryRankIsHeld ==
    ASSUME NEW n \in Nat, NEW ids, ids \subseteq 1 .. n, NEW r \in 1 .. Cardinality(ids)
    PROVE  \E i \in ids : Rank(i, ids) = r
<1> DEFINE S == {i \in ids : Rank(i, ids) >= r}
<1>0. \A k \in ids : k \in Nat
    OBVIOUS
<1>1. IsFiniteSet(ids) /\ Cardinality(ids) \in Nat /\ ids # {}
    <2>1. IsFiniteSet(1 .. n)
        BY FS_Interval
    <2>2. IsFiniteSet(ids) /\ Cardinality(ids) \in Nat
        BY <2>1, FS_Subset, FS_CardinalityType
    <2>3. ids # {}
        BY <2>2, FS_EmptySet
    <2> QED BY <2>2, <2>3
<1>2. PICK g \in ids : \A k \in ids : k <= g
    BY <1>1, GreatestExists
<1>3. g \in S
    <2>1. {j \in ids : j <= g} = ids
        BY <1>2
    <2> QED BY <1>1, <2>1 DEF Rank
<1>4. PICK i \in S : \A k \in S : i <= k
    <2>1. S \subseteq Nat /\ S # {}
        BY <1>0, <1>3
    <2> HIDE DEF S
    <2> QED BY <2>1, LeastExists
<1>5. Rank(i, ids) \in Nat /\ Rank(i, ids) >= r /\ i \in ids
    <2>1. Rank(i, ids) >= r /\ i \in ids /\ i \in Nat
        BY <1>0, <1>4
    <2>2. Rank(i, ids) \in 0 .. Cardinality(ids)
        BY <2>1, RankIsCount
    <2> HIDE DEF S
    <2> QED BY <1>1, <2>1, <2>2
<1>6. ~(Rank(i, ids) > r)
    <2>1. SUFFICES ASSUME Rank(i, ids) > r PROVE FALSE
        OBVIOUS
    <2>2. PICK j \in ids : j < i /\ Rank(j, ids) = Rank(i, ids) - 1
        <3>1. Rank(i, ids) > 1
            BY <1>5, <2>1
        <3> HIDE DEF S
        <3> QED BY <1>5, <3>1, RankDescends
    <2>3. j \in S
        BY <1>5, <2>1, <2>2
    <2> QED BY <1>4, <2>2, <2>3
<1> QED BY <1>5, <1>6

LEMMA LowRanksAreFew ==
    ASSUME NEW n \in Nat, NEW ids, ids \subseteq 1 .. n, NEW p \in Nat, NEW m \in Nat, p <= m
    PROVE  Cardinality({i \in ids : Rank(i, ids) + p <= m}) + p <= m
<1> DEFINE A == {i \in ids : Rank(i, ids) + p <= m}
<1>1. IsFiniteSet(ids) /\ A \subseteq ids
    BY RankIsCount
<1>2. CASE A = {}
    BY <1>2, FS_EmptySet
<1>3. CASE A # {}
    <2>1. PICK g \in A : \A k \in A : k <= g
        <3> HIDE DEF A
        <3> QED BY <1>1, <1>3, GreatestExists
    <2> DEFINE S == {j \in ids : j <= g}
    <2>2. A \subseteq S /\ IsFiniteSet(S)
        BY <1>1, <2>1, FS_Subset
    <2>3. Cardinality(A) <= Cardinality(S) /\ Cardinality(A) \in Nat /\ Cardinality(S) \in Nat
        <3> HIDE DEF A, S
        <3> QED BY <2>2, FS_Subset, FS_CardinalityType
    <2>4. Cardinality(S) + p <= m
        BY <2>1 DEF Rank
    <2> QED BY <2>3, <2>4
<1> QED BY <1>2, <1>3

-----------------------------------------------------------------------------
(* The ledger of one browser, with its authority *)

Attached(a) == a.state \in {"open", "sealed"}

LedgerTypes(a, ints) ==
    /\ a \in Authority
    /\ ints \in Seq(Intent) /\ Len(ints) <= MaxIntents
    /\ \A i \in DOMAIN ints : ints[i].phase = "done" <=> ints[i].result # "none"
    /\ Attached(a) => a.next >= 1

\* What waits has no identity and comes after everything that has one.
WaitingIsLast(ints) ==
    \A i \in InPhase(ints, "pre") :
        /\ ints[i].seq = 0
        /\ \A j \in DOMAIN ints : ints[j].seq > 0 => j < i

Limits(ints) ==
    /\ Cardinality(PendingIn(ints)) <= MaxPending
    /\ Cardinality(InPhase(ints, "pre")) <= MaxCount

\* An epoch has no more identities than intents that do not wait.
HasRoom(a, ints) ==
    Attached(a) => a.next - 1 + Cardinality(InPhase(ints, "pre")) <= Len(ints)

\* An intent's epoch is not above the highest, which is the current one's.
Fenced(a, ints) ==
    /\ \A i \in DOMAIN ints : ints[i].fence <= a.highest
    /\ Attached(a) => a.fence = a.highest

NoGap(ints) ==
    \A i \in DOMAIN ints :
        OnWire(ints[i]) /\ ints[i].seq > 1 =>
            \E j \in 1 .. i - 1 : /\ OnWire(ints[j])
                                  /\ ints[j].fence = ints[i].fence
                                  /\ ints[j].seq = ints[i].seq - 1

\* Every identity of an open epoch is on the wire.
Whole(a, ints) ==
    a.state = "open" => \A s \in 1 .. a.next - 1 :
        \E j \in DOMAIN ints : OnWire(ints[j]) /\ ints[j].fence = a.fence /\ ints[j].seq = s

Proven(a, ints) ==
    a.state = "open" => \A i \in DOMAIN ints :
        ints[i].seq > 0 /\ ints[i].fence = a.fence =>
            ints[i].phase = "sent" \/ ints[i].result \in {"written", "duplicate", "rejected"}

LedgerInv(a, ints) ==
    /\ LedgerTypes(a, ints) /\ WaitingIsLast(ints) /\ Limits(ints) /\ HasRoom(a, ints)
    /\ Fenced(a, ints) /\ NoGap(ints) /\ Whole(a, ints) /\ Proven(a, ints)

Types ==
    /\ authority \in [Clients -> Authority]
    /\ intents \in [Clients -> Seq(Intent)]
    /\ admitting \in [Clients -> BOOLEAN]

InputInv == Types /\ \A c \in Clients : LedgerInv(authority[c], intents[c])

-----------------------------------------------------------------------------
(* Intents that end, and a browser whose authority goes no further *)

\* What the end of x, or the loss of its transport, may make of x.
Ends(x, y) ==
    \/ y = x
    \/ x.phase = "pre" /\ y = [x EXCEPT !.phase = "done", !.result = "not-sent"]
    \/ x.phase \in {"sent", "terminating"} /\ y = [x EXCEPT !.phase = "terminating"]
    \/ /\ x.phase \in {"sent", "terminating"}
       /\ \E r \in Results \ {"none", "not-sent"} :
             y = [x EXCEPT !.phase = "done", !.result = r]
AllEnd(ints, ends) ==
    /\ ends = [i \in DOMAIN ints |-> ends[i]]
    /\ \A i \in DOMAIN ints : Ends(ints[i], ends[i])

Demoted(a, b) ==
    /\ b \in Authority /\ b.highest = a.highest
    /\ Attached(b) => Attached(a) /\ b.fence = a.fence /\ b.next = a.next
    /\ b.state = "open" => a.state = "open"

LEMMA Mapped ==
    ASSUME NEW S, NEW s \in Seq(S), NEW t, t = [i \in DOMAIN s |-> t[i]],
           \A i \in DOMAIN s : t[i] \in S
    PROVE  t \in Seq(S) /\ Len(t) = Len(s) /\ DOMAIN t = DOMAIN s
<1>1. DOMAIN s = 1 .. Len(s) /\ Len(s) \in Nat
    BY LenProperties
<1>2. t \in [1 .. Len(s) -> S]
    BY <1>1
<1> QED BY <1>1, <1>2, SeqDef, LenProperties

LEMMA PhasesAreFinite ==
    ASSUME NEW ints \in Seq(Intent), NEW phase
    PROVE  /\ DOMAIN ints = 1 .. Len(ints) /\ Len(ints) \in Nat
           /\ InPhase(ints, phase) \subseteq 1 .. Len(ints)
           /\ IsFiniteSet(InPhase(ints, phase)) /\ Cardinality(InPhase(ints, phase)) \in Nat
           /\ Cardinality(InPhase(ints, phase)) <= Len(ints)
           /\ PendingIn(ints) \subseteq 1 .. Len(ints)
           /\ IsFiniteSet(PendingIn(ints)) /\ Cardinality(PendingIn(ints)) \in Nat
<1>1. DOMAIN ints = 1 .. Len(ints) /\ Len(ints) \in Nat
    BY LenProperties
<1>2. IsFiniteSet(1 .. Len(ints)) /\ Cardinality(1 .. Len(ints)) = Len(ints)
    BY <1>1, FS_Interval, SMTT(30)
<1>3. InPhase(ints, phase) \subseteq 1 .. Len(ints) /\ PendingIn(ints) \subseteq 1 .. Len(ints)
    BY <1>1 DEF InPhase, PendingIn
<1>4. IsFiniteSet(InPhase(ints, phase)) /\ Cardinality(InPhase(ints, phase)) <= Len(ints)
    BY <1>2, <1>3, FS_Subset
<1>5. IsFiniteSet(PendingIn(ints))
    BY <1>2, <1>3, FS_Subset
<1> QED BY <1>1, <1>3, <1>4, <1>5, FS_CardinalityType

LEMMA EndsFacts ==
    ASSUME NEW x \in Intent, NEW y, Ends(x, y), x.phase = "done" <=> x.result # "none",
           x.phase = "pre" => x.seq = 0
    PROVE  /\ y \in Intent /\ y.seq = x.seq /\ y.fence = x.fence
           /\ y.phase = "done" <=> y.result # "none"
           /\ y.phase \in {"pre", "sent"} => y = x
           /\ y.phase = "terminating" => x.phase \in {"sent", "terminating"}
           /\ OnWire(y) <=> OnWire(x)
           /\ x.phase = "done" => y = x
<1>1. CASE y = x
    BY <1>1
<1>2. CASE x.phase = "pre" /\ y = [x EXCEPT !.phase = "done", !.result = "not-sent"]
    <2>1. y \in Intent /\ y.phase = "done" /\ y.result = "not-sent"
          /\ y.seq = x.seq /\ y.fence = x.fence
        BY <1>2 DEF Intent, Phases, Results
    <2> QED BY <1>2, <2>1 DEF Intent, OnWire
<1>3. CASE x.phase \in {"sent", "terminating"} /\ y = [x EXCEPT !.phase = "terminating"]
    BY <1>3 DEF Intent, Phases, Results, OnWire
<1>4. CASE x.phase \in {"sent", "terminating"} /\ \E r \in Results \ {"none", "not-sent"} :
               y = [x EXCEPT !.phase = "done", !.result = r]
    <2>1. PICK r \in Results \ {"none", "not-sent"} : y = [x EXCEPT !.phase = "done", !.result = r]
        BY <1>4
    <2>2. x.result = "none"
        BY <1>4
    <2> QED BY <1>4, <2>1, <2>2 DEF Intent, Phases, Results, OnWire
<1> QED BY <1>1, <1>2, <1>3, <1>4 DEF Ends

LEMMA LedgerEnds ==
    ASSUME NEW a, NEW b, NEW ints, NEW ends, LedgerInv(a, ints), AllEnd(ints, ends),
           Demoted(a, b), Proven(b, ends)
    PROVE  /\ LedgerInv(b, ends)
           /\ \A i \in DOMAIN ints : ints[i].phase = "done" => ends[i] = ints[i]
<1>1. ints \in Seq(Intent) /\ DOMAIN ints = 1 .. Len(ints) /\ Len(ints) \in Nat
    BY PhasesAreFinite DEF LedgerInv, LedgerTypes
<1>2. \A i \in DOMAIN ints :
          /\ ends[i] \in Intent /\ ends[i].seq = ints[i].seq /\ ends[i].fence = ints[i].fence
          /\ ends[i].phase = "done" <=> ends[i].result # "none"
          /\ ends[i].phase \in {"pre", "sent"} => ends[i] = ints[i]
          /\ ends[i].phase = "terminating" => ints[i].phase \in {"sent", "terminating"}
          /\ OnWire(ends[i]) <=> OnWire(ints[i])
          /\ ints[i].phase = "done" => ends[i] = ints[i]
    <2>1. TAKE i \in DOMAIN ints
    <2>2. ints[i] \in Intent /\ (ints[i].phase = "done" <=> ints[i].result # "none")
          /\ (ints[i].phase = "pre" => ints[i].seq = 0)
        BY <1>1 DEF LedgerInv, LedgerTypes, WaitingIsLast, InPhase
    <2> QED BY <2>2, EndsFacts DEF AllEnd
<1>3. ends \in Seq(Intent) /\ Len(ends) = Len(ints) /\ DOMAIN ends = DOMAIN ints
    BY <1>1, <1>2, Mapped DEF AllEnd
<1>4. /\ InPhase(ends, "pre") \subseteq InPhase(ints, "pre")
      /\ PendingIn(ends) \subseteq PendingIn(ints)
    BY <1>2, <1>3 DEF InPhase, PendingIn
<1>5. /\ Cardinality(InPhase(ends, "pre")) <= Cardinality(InPhase(ints, "pre"))
      /\ Cardinality(PendingIn(ends)) <= Cardinality(PendingIn(ints))
    BY <1>1, <1>4, PhasesAreFinite, FS_Subset
<1>6. /\ Cardinality(InPhase(ends, "pre")) \in Nat /\ Cardinality(InPhase(ints, "pre")) \in Nat
      /\ Cardinality(PendingIn(ends)) \in Nat /\ Cardinality(PendingIn(ints)) \in Nat
    BY <1>1, <1>3, PhasesAreFinite
<1>7. a \in Authority /\ (Attached(a) => a.next \in Nat)
    BY BrowserInputAssumption DEF LedgerInv, LedgerTypes, Authority
<1>8. LedgerTypes(b, ends)
    BY <1>2, <1>3 DEF LedgerInv, LedgerTypes, Demoted
<1>9. WaitingIsLast(ends)
    BY <1>2, <1>3, <1>4 DEF LedgerInv, WaitingIsLast, InPhase
<1>10. Limits(ends)
    BY <1>5, <1>6, BrowserInputAssumption DEF LedgerInv, Limits
<1>11. HasRoom(b, ends)
    BY <1>3, <1>1, <1>5, <1>6, <1>7 DEF LedgerInv, HasRoom, Demoted
<1>12. Fenced(b, ends)
    BY <1>2, <1>3 DEF LedgerInv, Fenced, Demoted
<1>13. NoGap(ends)
    <2>1. ASSUME NEW i \in DOMAIN ends, OnWire(ends[i]), ends[i].seq > 1
          PROVE  \E j \in 1 .. i - 1 : /\ OnWire(ends[j])
                                       /\ ends[j].fence = ends[i].fence
                                       /\ ends[j].seq = ends[i].seq - 1
        <3>1. PICK j \in 1 .. i - 1 : /\ OnWire(ints[j])
                                      /\ ints[j].fence = ints[i].fence
                                      /\ ints[j].seq = ints[i].seq - 1
            BY <1>2, <1>3, <2>1 DEF LedgerInv, NoGap
        <3>2. j \in DOMAIN ints
            BY <1>1, <1>3
        <3> QED BY <1>2, <1>3, <3>1, <3>2
    <2> QED BY <2>1 DEF NoGap
<1>14. Whole(b, ends)
    <2>1. ASSUME b.state = "open", NEW s \in 1 .. b.next - 1
          PROVE  \E j \in DOMAIN ends : OnWire(ends[j]) /\ ends[j].fence = b.fence /\ ends[j].seq = s
        <3>1. a.state = "open" /\ b.next = a.next /\ b.fence = a.fence
            BY <2>1 DEF Demoted, Attached
        <3>2. PICK j \in DOMAIN ints : OnWire(ints[j]) /\ ints[j].fence = a.fence /\ ints[j].seq = s
            BY <2>1, <3>1 DEF LedgerInv, Whole
        <3> QED BY <1>2, <1>3, <3>1, <3>2
    <2> QED BY <2>1 DEF Whole
<1> QED BY <1>2, <1>8, <1>9, <1>10, <1>11, <1>12, <1>13, <1>14 DEF LedgerInv
-----------------------------------------------------------------------------
(* An intent is consumed *)

LEMMA Appended ==
    ASSUME NEW a, NEW ints, NEW x \in Intent, LedgerInv(a, ints), Len(ints) < MaxIntents,
           x.seq = 0, x.fence = 0,
           \/ x.phase = "done" /\ x.result # "none"
           \/ /\ x.phase = "pre" /\ x.result = "none"
              /\ Cardinality(InPhase(ints, "pre")) < MaxCount
    PROVE  LedgerInv(a, Append(ints, x))
<1> DEFINE more == Append(ints, x)
           n == Len(ints) + 1
<1>1. ints \in Seq(Intent) /\ DOMAIN ints = 1 .. Len(ints) /\ Len(ints) \in Nat
    BY PhasesAreFinite DEF LedgerInv, LedgerTypes
<1>2. /\ more \in Seq(Intent) /\ Len(more) = n /\ DOMAIN more = 1 .. n
      /\ more[n] = x /\ \A i \in DOMAIN ints : more[i] = ints[i]
    BY <1>1, AppendProperties
<1> HIDE DEF more
<1>3. PendingIn(more) = PendingIn(ints)
    BY <1>1, <1>2 DEF PendingIn, InPhase
<1>4. x.phase = "done" => InPhase(more, "pre") = InPhase(ints, "pre")
    BY <1>1, <1>2 DEF InPhase
<1>5. x.phase = "pre" => InPhase(more, "pre") = InPhase(ints, "pre") \cup {n}
    BY <1>1, <1>2 DEF InPhase
<1>6. n \notin InPhase(ints, "pre")
    BY <1>1 DEF InPhase
<1>7. /\ x.phase = "done" => Cardinality(InPhase(more, "pre")) = Cardinality(InPhase(ints, "pre"))
      /\ x.phase = "pre" =>
            Cardinality(InPhase(more, "pre")) = Cardinality(InPhase(ints, "pre")) + 1
    BY <1>1, <1>4, <1>5, <1>6, PhasesAreFinite, FS_AddElement
<1>8. Cardinality(InPhase(ints, "pre")) \in Nat
    BY <1>1, PhasesAreFinite
<1>9. LedgerTypes(a, more)
    BY <1>1, <1>2, BrowserInputAssumption DEF LedgerInv, LedgerTypes
<1>10. WaitingIsLast(more)
    <2>1. ASSUME NEW i \in InPhase(more, "pre")
          PROVE  more[i].seq = 0 /\ \A j \in DOMAIN more : more[j].seq > 0 => j < i
        <3>1. \A j \in DOMAIN more : more[j].seq > 0 => j \in DOMAIN ints /\ ints[j].seq > 0
            BY <1>1, <1>2
        <3>2. CASE i = n
            BY <1>1, <1>2, <3>1, <3>2
        <3>3. CASE i # n
            <4>1. i \in InPhase(ints, "pre") /\ more[i] = ints[i]
                BY <1>1, <1>2, <2>1, <3>3 DEF InPhase
            <4> QED BY <1>2, <3>1, <4>1 DEF LedgerInv, WaitingIsLast
        <3> QED BY <3>2, <3>3
    <2> QED BY <2>1 DEF WaitingIsLast
<1>11. Limits(more)
    BY <1>3, <1>7, <1>8, BrowserInputAssumption DEF LedgerInv, Limits
<1>12. HasRoom(a, more)
    <2>1. Attached(a) => a.next \in Nat
        BY BrowserInputAssumption DEF LedgerInv, LedgerTypes, Authority
    <2> QED BY <1>1, <1>2, <1>7, <1>8, <2>1 DEF LedgerInv, HasRoom
<1>13. Fenced(a, more)
    <2>1. a.highest >= 0
        BY BrowserInputAssumption DEF LedgerInv, LedgerTypes, Authority
    <2> QED BY <1>1, <1>2, <2>1 DEF LedgerInv, Fenced
<1>14. NoGap(more)
    <2>1. ASSUME NEW i \in DOMAIN more, OnWire(more[i]), more[i].seq > 1
          PROVE  \E j \in 1 .. i - 1 : /\ OnWire(more[j])
                                       /\ more[j].fence = more[i].fence
                                       /\ more[j].seq = more[i].seq - 1
        <3>1. i \in DOMAIN ints /\ more[i] = ints[i]
            BY <1>1, <1>2, <2>1
        <3>2. PICK j \in 1 .. i - 1 : /\ OnWire(ints[j])
                                      /\ ints[j].fence = ints[i].fence
                                      /\ ints[j].seq = ints[i].seq - 1
            BY <2>1, <3>1 DEF LedgerInv, NoGap
        <3>3. j \in DOMAIN ints
            BY <1>1, <3>1
        <3> QED BY <1>2, <3>1, <3>2, <3>3
    <2> QED BY <2>1 DEF NoGap
<1>15. Whole(a, more)
    BY <1>1, <1>2 DEF LedgerInv, Whole
<1>16. Proven(a, more)
    BY <1>1, <1>2 DEF LedgerInv, Proven
<1> QED BY <1>9, <1>10, <1>11, <1>12, <1>13, <1>14, <1>15, <1>16 DEF LedgerInv, more

\* What a step leaves as it is, when it changes no authority and nothing is proved anew.
LEMMA SettlesNothing ==
    ASSUME NEW a, NEW ints, NEW ends, LedgerInv(a, ints), AllEnd(ints, ends),
           \A i \in DOMAIN ints : ends[i] = ints[i] \/ ints[i].phase = "pre"
    PROVE  /\ LedgerInv(a, ends)
           /\ \A i \in DOMAIN ints : ints[i].phase = "done" => ends[i] = ints[i]
<1>1. Demoted(a, a)
    BY DEF Demoted, LedgerInv, LedgerTypes
<1>2. Proven(a, ends)
    <2>1. DOMAIN ends = DOMAIN ints
        BY DEF AllEnd
    <2>2. \A i \in DOMAIN ints : ends[i].seq > 0 => ends[i] = ints[i]
        <3>1. TAKE i \in DOMAIN ints
        <3>2. ints[i] \in Intent
            BY PhasesAreFinite DEF LedgerInv, LedgerTypes
        <3>3. ints[i].phase = "pre" => ints[i].seq = 0
            BY DEF LedgerInv, WaitingIsLast, InPhase
        <3>4. ends[i].seq = ints[i].seq
            BY <3>2 DEF AllEnd, Ends, Intent
        <3> QED BY <3>3, <3>4
    <2> QED BY <2>1, <2>2 DEF LedgerInv, Proven
<1> QED BY <1>1, <1>2, LedgerEnds

LEMMA FinishWaiting ==
    ASSUME NEW ints, NEW ids, ids \subseteq InPhase(ints, "pre")
    PROVE  /\ AllEnd(ints, Finish(ints, ids, "not-sent"))
           /\ DOMAIN Finish(ints, ids, "not-sent") = DOMAIN ints
           /\ \A i \in DOMAIN ints :
                 Finish(ints, ids, "not-sent")[i] = ints[i] \/ ints[i].phase = "pre"
BY DEF AllEnd, Ends, Finish, InPhase

LEMMA NewIntents ==
    ASSUME NEW kind \in Kinds
    PROVE  /\ New(kind) \in Intent /\ New(kind).seq = 0 /\ New(kind).fence = 0
           /\ New(kind).phase = "pre" /\ New(kind).result = "none"
           /\ LET late == [New(kind) EXCEPT !.phase = "done", !.result = "not-sent"]
              IN  /\ late \in Intent /\ late.seq = 0 /\ late.fence = 0
                  /\ late.phase = "done" /\ late.result = "not-sent"
<1>1. /\ New(kind) \in Intent /\ New(kind).seq = 0 /\ New(kind).fence = 0
      /\ New(kind).phase = "pre" /\ New(kind).result = "none"
    BY BrowserInputAssumption DEF New, Intent, Phases, Results
<1>2. \A x \in Intent : LET y == [x EXCEPT !.phase = "done", !.result = "not-sent"]
                        IN  /\ y \in Intent /\ y.seq = x.seq /\ y.fence = x.fence
                            /\ y.phase = "done" /\ y.result = "not-sent"
    BY DEF Intent, Phases, Results
<1> QED BY <1>1, <1>2

LEMMA ConsumedLedger ==
    ASSUME NEW a, NEW ints, NEW kind \in Kinds, LedgerInv(a, ints), Len(ints) < MaxIntents
    PROVE  /\ LedgerInv(a, Consumed(ints, kind))
           /\ Len(Consumed(ints, kind)) = Len(ints) + 1
           /\ \A i \in DOMAIN ints : ints[i].phase = "done" => Consumed(ints, kind)[i] = ints[i]
<1> DEFINE rest == Finish(ints, Superseded(ints, kind), "not-sent")
           late == [New(kind) EXCEPT !.phase = "done", !.result = "not-sent"]
<1>1. LedgerInv(a, rest) /\ \A i \in DOMAIN ints : ints[i].phase = "done" => rest[i] = ints[i]
    <2>1. Superseded(ints, kind) \subseteq InPhase(ints, "pre")
        BY DEF Superseded
    <2> QED BY <2>1, FinishWaiting, SettlesNothing
<1>2. /\ rest \in Seq(Intent) /\ DOMAIN rest = DOMAIN ints
      /\ DOMAIN ints = 1 .. Len(ints) /\ Len(rest) = Len(ints) /\ Len(ints) \in Nat
    <2>1. ints \in Seq(Intent) /\ rest \in Seq(Intent)
        BY <1>1 DEF LedgerInv, LedgerTypes
    <2>2. DOMAIN rest = DOMAIN ints
        BY DEF Finish
    <2> QED BY <2>1, <2>2, LenProperties
<1>3. /\ New(kind) \in Intent /\ New(kind).seq = 0 /\ New(kind).fence = 0
      /\ New(kind).phase = "pre" /\ New(kind).result = "none"
    BY NewIntents
<1>4. /\ late \in Intent /\ late.seq = 0 /\ late.fence = 0
      /\ late.phase = "done" /\ late.result = "not-sent"
    BY NewIntents
<1> HIDE DEF rest, late
<1>5. Consumed(ints, kind) =
          IF Cardinality(InPhase(rest, "pre")) < MaxCount THEN Append(rest, New(kind))
          ELSE Append(rest, late)
    BY DEF Consumed, rest, late
<1>6. PICK x \in {New(kind), late} : Consumed(ints, kind) = Append(rest, x) /\ LedgerInv(a, Append(rest, x))
    <2>1. CASE Cardinality(InPhase(rest, "pre")) < MaxCount
        BY <1>1, <1>2, <1>3, <1>5, <2>1, Appended
    <2>2. CASE ~(Cardinality(InPhase(rest, "pre")) < MaxCount)
        BY <1>1, <1>2, <1>4, <1>5, <2>2, Appended
    <2> QED BY <2>1, <2>2
<1>7. x \in Intent
    BY <1>3, <1>4
<1>8. Len(Append(rest, x)) = Len(ints) + 1 /\ \A i \in DOMAIN ints : Append(rest, x)[i] = rest[i]
    BY <1>2, <1>7, AppendProperties
<1> QED BY <1>1, <1>6, <1>8
-----------------------------------------------------------------------------
(* Admission and the send decisions *)

\* What the decision of rank r makes of an intent that waits.
LEMMA DecidedIntent ==
    ASSUME NEW c, NEW x \in Intent, NEW r \in Nat, NEW n \in Nat, NEW how,
           x.phase = "pre", x.result = "none", r >= 1,
           authority[c] \in Authority, authority[c].next >= 1,
           authority[c].next - 1 + r <= MaxIntents
    PROVE  LET y == Decided(c, x, r, n, how)
           IN  /\ y \in Intent /\ y.seq = authority[c].next - 1 + r /\ y.fence = authority[c].fence
               /\ y.phase = "done" <=> y.result # "none"
               /\ y.phase # "pre"
               /\ OnWire(y) <=> (r <= n \/ (r = n + 1 /\ how = "uncertain"))
               /\ r <= n => y.phase = "sent"
<1> DEFINE y == Decided(c, x, r, n, how)
           seq == authority[c].next + r - 1
           idd == [x EXCEPT !.fence = authority[c].fence, !.seq = seq]
<1>1. /\ authority[c].fence \in 0 .. MaxFence /\ authority[c].next \in Nat
      /\ seq \in 0 .. MaxIntents /\ seq >= 1 /\ seq = authority[c].next - 1 + r
    BY BrowserInputAssumption DEF Authority
<1>2. /\ idd \in Intent /\ idd.seq = seq /\ idd.fence = authority[c].fence
      /\ idd.phase = "pre" /\ idd.result = "none"
    <2> HIDE DEF seq
    <2> QED BY <1>1 DEF Intent
<1> HIDE DEF idd, seq
<1>3. CASE r <= n
    <2>1. y = [idd EXCEPT !.phase = "sent"]
        BY <1>3 DEF Decided, idd, seq
    <2>2. y \in Intent /\ y.phase = "sent" /\ y.seq = idd.seq /\ y.fence = idd.fence /\ y.result = "none"
        <3> HIDE DEF y
        <3> QED BY <1>2, <2>1 DEF Intent, Phases
    <2> QED BY <1>1, <1>2, <1>3, <2>2 DEF OnWire
<1>4. CASE r = n + 1 /\ how = "uncertain"
    <2>1. y = [idd EXCEPT !.phase = "terminating"]
        BY <1>4 DEF Decided, idd, seq
    <2>2. y \in Intent /\ y.phase = "terminating" /\ y.seq = idd.seq /\ y.fence = idd.fence
          /\ y.result = "none"
        <3> HIDE DEF y
        <3> QED BY <1>2, <2>1 DEF Intent, Phases
    <2> QED BY <1>1, <1>2, <1>4, <2>2 DEF OnWire
<1>5. CASE ~(r <= n) /\ ~(r = n + 1 /\ how = "uncertain")
    <2>1. y = [idd EXCEPT !.phase = "done", !.result = "not-sent"]
        BY <1>5 DEF Decided, idd, seq
    <2>2. y \in Intent /\ y.phase = "done" /\ y.seq = idd.seq /\ y.fence = idd.fence
          /\ y.result = "not-sent"
        <3> HIDE DEF y
        <3> QED BY <1>2, <2>1 DEF Intent, Phases, Results
    <2> QED BY <1>1, <1>2, <1>5, <2>2 DEF OnWire
<1> QED BY <1>3, <1>4, <1>5

\* The client's authority and ledger keep the invariant, and nobody else's change.
Keeps(c, ints) ==
    /\ Types' /\ LedgerInv(authority'[c], intents'[c])
    /\ \A i \in DOMAIN ints : ints[i].phase = "done" => intents'[c][i] = ints[i]
    /\ \A d \in Clients \ {c} : authority'[d] = authority[d] /\ intents'[d] = intents[d]

LEMMA AdmissionKeeps ==
    ASSUME Types, NEW c \in Clients, NEW ints, NEW cut, NEW n, NEW how \in SendDecisions,
           LedgerInv(authority[c], ints), AdmitAndSend(c, ints, cut, n, how)
    PROVE  Keeps(c, ints)
<1> DEFINE a == authority[c]
           b == authority'[c]
           A == Admitted(c, ints, cut)
           U == Unexpired(ints, cut)
           P == InPhase(ints, "pre")
           Q == PendingIn(ints)
           s == intents'[c]
           out == [i \in DOMAIN ints |-> IF i \in A THEN Decided(c, ints[i], Rank(i, A), n, how)
                                         ELSE Finish(ints, P \ A, "not-sent")[i]]
           advanced == [a EXCEPT !.next = @ + Cardinality(A)]
<1>1. /\ ints \in Seq(Intent) /\ DOMAIN ints = 1 .. Len(ints) /\ Len(ints) \in Nat
      /\ Len(ints) <= MaxIntents /\ MaxIntents \in Nat /\ MaxPending \in Nat
    BY PhasesAreFinite, BrowserInputAssumption DEF LedgerInv, LedgerTypes
<1>2. /\ a \in Authority /\ a.next \in Nat /\ a.fence \in 0 .. MaxFence
      /\ a.state \in {"detached", "read-only", "open", "sealed"}
    BY BrowserInputAssumption DEF Types, Authority
<1>3. A \subseteq U /\ U \subseteq P /\ P \subseteq 1 .. Len(ints) /\ Q \subseteq 1 .. Len(ints)
    BY <1>1, PhasesAreFinite DEF Admitted, Unexpired
<1>4. /\ IsFiniteSet(A) /\ Cardinality(A) \in Nat /\ Cardinality(A) <= Cardinality(P)
      /\ IsFiniteSet(P) /\ Cardinality(P) \in Nat
      /\ IsFiniteSet(Q) /\ Cardinality(Q) \in Nat
    <2>1. A \subseteq P /\ A \subseteq 1 .. Len(ints)
        BY <1>3
    <2> HIDE DEF A, P, Q
    <2> QED BY <1>1, <1>3, <2>1, RankIsCount, FS_Subset
<1>5. A # {} => a.state = "open" /\ a.next >= 1 /\ a.next - 1 + Cardinality(A) <= Len(ints)
    <2>1. A # {} => a.state = "open"
        BY DEF Admitted
    <2>2. a.state = "open" => a.next >= 1 /\ a.next - 1 + Cardinality(P) <= Len(ints)
        BY DEF LedgerInv, LedgerTypes, HasRoom, Attached
    <2> HIDE DEF A, P, a
    <2> QED BY <1>1, <1>2, <1>4, <2>1, <2>2
<1>6. Cardinality(Q) + Cardinality(A) <= MaxPending
    <2>1. Cardinality(Q) <= MaxPending
        BY DEF LedgerInv, Limits
    <2>2. CASE a.state # "open"
        <3>1. A = {}
            BY <2>2 DEF Admitted
        <3> QED BY <1>1, <1>4, <2>1, <3>1, FS_EmptySet
    <2>3. CASE a.state = "open"
        <3>1. A = {i \in U : Rank(i, U) + Cardinality(Q) <= MaxPending}
            BY <2>3 DEF Admitted
        <3>2. U \subseteq 1 .. Len(ints)
            BY <1>3
        <3> HIDE DEF A, U, Q
        <3>3. Cardinality({i \in U : Rank(i, U) + Cardinality(Q) <= MaxPending})
                  + Cardinality(Q) <= MaxPending
            BY <1>1, <1>4, <2>1, <3>2, LowRanksAreFew
        <3> QED BY <1>4, <3>1, <3>3
    <2> QED BY <2>2, <2>3
<1>7. /\ n \in 0 .. Cardinality(A) /\ (how = "accepted" <=> n = Cardinality(A))
      /\ how # "accepted" => A # {}
    <2>1. n \in 0 .. Cardinality(A) /\ (how = "accepted" <=> n = Cardinality(A))
        BY DEF AdmitAndSend
    <2>2. A = {} => Cardinality(A) = 0
        BY FS_EmptySet
    <2> HIDE DEF A
    <2> QED BY <2>1, <2>2
<1>8. /\ s = out
      /\ intents' = [intents EXCEPT ![c] = out]
      /\ authority' = [authority EXCEPT ![c] = IF how = "accepted" THEN advanced ELSE Seal(advanced, TRUE)]
      /\ b = IF how = "accepted" THEN advanced ELSE Seal(advanced, TRUE)
      /\ admitting' = [admitting EXCEPT ![c] = FALSE]
    BY DEF AdmitAndSend, Types
<1>9. ASSUME NEW i \in A
      PROVE  /\ i \in DOMAIN ints /\ Rank(i, A) \in 1 .. Cardinality(A)
             /\ ints[i].seq = 0
             /\ s[i] \in Intent /\ s[i].seq = a.next - 1 + Rank(i, A) /\ s[i].fence = a.fence
             /\ s[i].phase = "done" <=> s[i].result # "none"
             /\ s[i].phase # "pre"
             /\ OnWire(s[i]) <=> (Rank(i, A) <= n \/ (Rank(i, A) = n + 1 /\ how = "uncertain"))
             /\ Rank(i, A) <= n => s[i].phase = "sent"
    <2>1. i \in DOMAIN ints /\ Rank(i, A) \in 1 .. Cardinality(A)
        <3>1. A \subseteq 1 .. Len(ints)
            BY <1>3
        <3>2. i \in 1 .. Len(ints) /\ i \in Nat
            BY <1>9, <3>1
        <3> HIDE DEF A
        <3>3. Rank(i, A) \in 0 .. Cardinality(A) /\ Rank(i, A) >= 1
            BY <1>1, <1>9, <3>1, <3>2, RankIsCount
        <3> QED BY <1>1, <1>4, <3>2, <3>3
    <2>2. /\ ints[i] \in Intent /\ ints[i].phase = "pre" /\ ints[i].seq = 0
          /\ ints[i].result = "none"
        BY <1>1, <1>3, <2>1 DEF LedgerInv, LedgerTypes, WaitingIsLast, InPhase
    <2>3. s[i] = Decided(c, ints[i], Rank(i, A), n, how)
        BY <1>8, <2>1
    <2>4. a.next >= 1 /\ a.next - 1 + Rank(i, A) <= MaxIntents
        <3> HIDE DEF A, a
        <3> QED BY <1>1, <1>2, <1>4, <1>5, <2>1
    <2>5. Rank(i, A) \in Nat /\ Rank(i, A) >= 1 /\ n \in Nat
        <3> HIDE DEF A
        <3> QED BY <1>4, <1>7, <2>1
    <2> HIDE DEF A, s, out
    <2> QED BY <1>2, <2>1, <2>2, <2>3, <2>4, <2>5, DecidedIntent
<1>10. ASSUME NEW i \in DOMAIN ints, i \notin A
       PROVE  /\ s[i] \in Intent /\ s[i].seq = ints[i].seq /\ s[i].fence = ints[i].fence
              /\ s[i].phase = "done" <=> s[i].result # "none"
              /\ s[i].phase # "pre"
              /\ i \notin P => s[i] = ints[i]
              /\ i \in P => s[i].phase = "done" /\ ints[i].seq = 0
              /\ OnWire(s[i]) <=> OnWire(ints[i])
    <2>1. s[i] = Finish(ints, P \ A, "not-sent")[i]
        BY <1>8, <1>10
    <2>2. ints[i] \in Intent /\ (ints[i].phase = "done" <=> ints[i].result # "none")
        BY <1>1 DEF LedgerInv, LedgerTypes
    <2>3. CASE i \in P
        <3>1. s[i] = [ints[i] EXCEPT !.phase = "done", !.result = "not-sent"]
            BY <1>10, <2>1, <2>3 DEF Finish
        <3>2. ints[i].phase = "pre" /\ ints[i].seq = 0
            BY <2>3 DEF LedgerInv, WaitingIsLast, InPhase
        <3>3. Ends(ints[i], s[i])
            BY <3>1, <3>2 DEF Ends
        <3>4. s[i].phase = "done"
            BY <2>2, <3>1 DEF Intent
        <3> HIDE DEF s, out
        <3> QED BY <2>2, <2>3, <3>2, <3>3, <3>4, EndsFacts
    <2>4. CASE i \notin P
        <3>1. s[i] = ints[i]
            BY <1>10, <2>1, <2>4 DEF Finish
        <3>2. ints[i].phase # "pre"
            BY <2>4 DEF InPhase
        <3> HIDE DEF s, out
        <3> QED BY <2>2, <2>4, <3>1, <3>2
    <2> QED BY <2>3, <2>4
<1>11. s \in Seq(Intent) /\ Len(s) = Len(ints) /\ DOMAIN s = DOMAIN ints
    <2>1. \A i \in DOMAIN ints : s[i] \in Intent
        <3> HIDE DEF s, out, A
        <3> QED BY <1>9, <1>10
    <2>2. s = [i \in DOMAIN ints |-> s[i]]
        BY <1>8
    <2> HIDE DEF s, out
    <2> QED BY <1>1, <2>1, <2>2, Mapped
<1>12. /\ b \in Authority /\ b.next = a.next + Cardinality(A) /\ b.fence = a.fence
       /\ b.highest = a.highest /\ (Attached(b) <=> Attached(a))
       /\ b.state = "open" => a.state = "open" /\ how = "accepted"
    <2>1. a.next + Cardinality(A) \in 0 .. MaxIntents + 1
        <3>1. CASE A = {}
            <4>1. Cardinality(A) = 0
                BY <3>1, FS_EmptySet
            <4> HIDE DEF A
            <4> QED BY <1>2, <4>1 DEF Authority
        <3>2. CASE A # {}
            <4> HIDE DEF A, a
            <4> QED BY <1>1, <1>2, <1>4, <1>5, <3>2, SMTT(30)
        <3> QED BY <3>1, <3>2
    <2>2. /\ advanced \in Authority /\ advanced.next = a.next + Cardinality(A)
          /\ advanced.fence = a.fence /\ advanced.highest = a.highest /\ advanced.state = a.state
        <3> HIDE DEF A, a
        <3> QED BY <1>2, <2>1 DEF Authority
    <2>3. CASE how = "accepted"
        <3>1. b = advanced
            BY <1>8, <2>3
        <3> HIDE DEF b, advanced
        <3> QED BY <2>2, <2>3, <3>1 DEF Attached
    <2>4. CASE how # "accepted"
        <3>1. a.state = "open"
            <4> HIDE DEF A, a
            <4> QED BY <1>5, <1>7, <2>4
        <3>2. b = Seal(advanced, TRUE)
            BY <1>8, <2>4
        <3> HIDE DEF b, advanced, a
        <3>3. b = [advanced EXCEPT !.state = "sealed", !.replace = @ \/ TRUE]
            BY <2>2, <3>1, <3>2 DEF Seal
        <3>4. b \in Authority /\ b.state = "sealed" /\ b.next = advanced.next
              /\ b.fence = advanced.fence /\ b.highest = advanced.highest
            BY <2>2, <3>3 DEF Authority
        <3> QED BY <2>2, <3>1, <3>4 DEF Attached
    <2> QED BY <2>3, <2>4
<1> HIDE DEF s, out, b, advanced
<1>13. LedgerTypes(b, s)
    <2>1. \A i \in DOMAIN s : s[i].phase = "done" <=> s[i].result # "none"
        <3> HIDE DEF A
        <3> QED BY <1>9, <1>10, <1>11
    <2>2. Attached(b) => b.next >= 1
        <3>1. Attached(a) => a.next >= 1
            BY DEF LedgerInv, LedgerTypes
        <3> HIDE DEF A, a
        <3> QED BY <1>2, <1>4, <1>12, <3>1
    <2> QED BY <1>1, <1>11, <1>12, <2>1, <2>2 DEF LedgerTypes
<1>14. InPhase(s, "pre") = {}
    <2>1. \A i \in DOMAIN ints : s[i].phase # "pre"
        <3> HIDE DEF A
        <3> QED BY <1>9, <1>10
    <2> QED BY <1>11, <2>1 DEF InPhase
<1>15. WaitingIsLast(s)
    BY <1>14 DEF WaitingIsLast
<1>16. Limits(s)
    <2>1. PendingIn(s) \subseteq Q \cup A
        <3>1. \A i \in DOMAIN ints : i \notin A => s[i] = ints[i] \/ s[i].phase = "done"
            <4> HIDE DEF A, P
            <4> QED BY <1>10
        <3> HIDE DEF A
        <3> QED BY <1>11, <3>1 DEF PendingIn, InPhase
    <2>2. Cardinality(Q \cup A) = Cardinality(Q) + Cardinality(A) - Cardinality(Q \cap A)
          /\ IsFiniteSet(Q \cup A) /\ IsFiniteSet(Q \cap A)
        <3> HIDE DEF A, Q
        <3> QED BY <1>4, FS_Union, FS_Intersection
    <2>3. Cardinality(Q \cap A) \in Nat /\ Cardinality(Q \cup A) \in Nat
        <3> HIDE DEF A, Q
        <3> QED BY <2>2, FS_CardinalityType
    <2>4. Cardinality(PendingIn(s)) <= Cardinality(Q \cup A) /\ Cardinality(PendingIn(s)) \in Nat
        <3> HIDE DEF A, Q
        <3> QED BY <1>11, <2>1, <2>2, FS_Subset, PhasesAreFinite
    <2>5. Cardinality(PendingIn(s)) <= MaxPending
        <3> HIDE DEF A, Q
        <3> QED BY <1>1, <1>4, <1>6, <2>2, <2>3, <2>4
    <2>6. Cardinality(InPhase(s, "pre")) = 0
        BY <1>14, FS_EmptySet
    <2> QED BY <2>5, <2>6, BrowserInputAssumption DEF Limits
<1>17. HasRoom(b, s)
    <2>1. Cardinality(InPhase(s, "pre")) = 0
        BY <1>14, FS_EmptySet
    <2>2. Attached(a) => a.next - 1 + Cardinality(P) <= Len(ints)
        BY DEF LedgerInv, HasRoom
    <2> HIDE DEF A, P, a
    <2> QED BY <1>1, <1>2, <1>4, <1>11, <1>12, <2>1, <2>2 DEF HasRoom
<1>18. Fenced(b, s)
    <2>1. /\ \A i \in DOMAIN ints : ints[i].fence <= a.highest
          /\ Attached(a) => a.fence = a.highest
        BY DEF LedgerInv, Fenced
    <2>2. A # {} => a.fence = a.highest /\ a.highest \in Nat
        BY <1>2, <1>5, <2>1, BrowserInputAssumption DEF Attached, Authority
    <2> HIDE DEF A, a
    <2> QED BY <1>9, <1>10, <1>11, <1>12, <2>1, <2>2 DEF Fenced
<1>19. ASSUME NEW j \in DOMAIN ints, OnWire(ints[j])
       PROVE  j \notin A /\ s[j] = ints[j] /\ OnWire(s[j])
    <2>1. j \notin P
        BY <1>19 DEF LedgerInv, WaitingIsLast, OnWire
    <2>2. j \notin A
        BY <1>3, <2>1
    <2> HIDE DEF A, P
    <2> QED BY <1>10, <1>19, <2>1, <2>2
<1>20. NoGap(s)
    <2>1. ASSUME NEW i \in DOMAIN s, OnWire(s[i]), s[i].seq > 1
          PROVE  \E j \in 1 .. i - 1 : /\ OnWire(s[j])
                                       /\ s[j].fence = s[i].fence
                                       /\ s[j].seq = s[i].seq - 1
        <3>1. CASE i \notin A
            <4>1. OnWire(ints[i]) /\ s[i] = ints[i]
                <5> HIDE DEF A
                <5> QED BY <1>10, <1>11, <1>19, <2>1, <3>1
            <4>2. PICK j \in 1 .. i - 1 : /\ OnWire(ints[j])
                                          /\ ints[j].fence = ints[i].fence
                                          /\ ints[j].seq = ints[i].seq - 1
                BY <1>11, <2>1, <4>1 DEF LedgerInv, NoGap
            <4>3. j \in DOMAIN ints
                BY <1>1, <1>11
            <4> QED BY <1>19, <4>1, <4>2, <4>3
        <3>2. CASE i \in A /\ Rank(i, A) > 1
            <4>1. A \subseteq 1 .. Len(ints)
                BY <1>3
            <4> HIDE DEF A
            <4>2. PICK j \in A : j < i /\ Rank(j, A) = Rank(i, A) - 1
                BY <1>1, <3>2, <4>1, RankDescends
            <4>3. j \in 1 .. i - 1
                BY <1>1, <1>11, <4>1, <4>2
            <4>4. Rank(i, A) <= n + 1 /\ Rank(i, A) \in Nat /\ n \in Nat
                BY <1>4, <1>7, <1>9, <2>1, <3>2
            <4>5. OnWire(s[j])
                BY <1>9, <4>2, <4>4
            <4>6. s[j].fence = s[i].fence /\ s[j].seq = s[i].seq - 1
                BY <1>2, <1>9, <3>2, <4>2, <4>4
            <4> QED BY <4>3, <4>5, <4>6
        <3>3. CASE i \in A /\ Rank(i, A) = 1
            <4>1. i \in P
                BY <1>3, <3>3
            <4>2. a.state = "open" /\ s[i].seq = a.next /\ s[i].fence = a.fence
                <5> HIDE DEF A, a
                <5> QED BY <1>2, <1>5, <1>9, <3>3
            <4>3. a.next - 1 \in 1 .. a.next - 1
                <5> HIDE DEF a
                <5> QED BY <1>2, <2>1, <4>2
            <4>4. PICK j \in DOMAIN ints : /\ OnWire(ints[j]) /\ ints[j].fence = a.fence
                                          /\ ints[j].seq = a.next - 1
                BY <4>2, <4>3 DEF LedgerInv, Whole
            <4>5. j < i
                <5>1. ints[j].seq > 0
                    BY <4>4 DEF OnWire
                <5> QED BY <4>1, <5>1 DEF LedgerInv, WaitingIsLast
            <4>6. j \in 1 .. i - 1
                BY <1>1, <1>11, <4>5
            <4>7. s[j] = ints[j] /\ OnWire(s[j])
                <5> HIDE DEF A
                <5> QED BY <1>19, <4>4
            <4> HIDE DEF a
            <4> QED BY <4>2, <4>4, <4>6, <4>7
        <3>4. i \in A => Rank(i, A) = 1 \/ Rank(i, A) > 1
            <4> HIDE DEF A
            <4> QED BY <1>4, <1>9
        <3> QED BY <3>1, <3>2, <3>3, <3>4
    <2> QED BY <2>1 DEF NoGap
<1>21. Whole(b, s)
    <2>1. ASSUME b.state = "open", NEW q \in 1 .. b.next - 1
          PROVE  \E j \in DOMAIN s : OnWire(s[j]) /\ s[j].fence = b.fence /\ s[j].seq = q
        <3>1. a.state = "open" /\ b.fence = a.fence /\ n = Cardinality(A)
            <4> HIDE DEF A, a
            <4> QED BY <1>7, <1>12, <2>1
        <3>2. CASE q <= a.next - 1
            <4>1. q \in 1 .. a.next - 1
                BY <1>2, <3>2
            <4>2. PICK j \in DOMAIN ints : OnWire(ints[j]) /\ ints[j].fence = a.fence /\ ints[j].seq = q
                BY <3>1, <4>1 DEF LedgerInv, Whole
            <4>3. s[j] = ints[j] /\ OnWire(s[j])
                <5> HIDE DEF A
                <5> QED BY <1>19, <4>2
            <4> QED BY <1>11, <3>1, <4>2, <4>3
        <3>3. CASE q > a.next - 1
            <4>1. A \subseteq 1 .. Len(ints)
                BY <1>3
            <4> HIDE DEF A, a
            <4>2. q - (a.next - 1) \in 1 .. Cardinality(A)
                BY <1>2, <1>4, <1>12, <2>1, <3>3
            <4>3. PICK j \in A : Rank(j, A) = q - (a.next - 1)
                BY <1>1, <4>1, <4>2, EveryRankIsHeld
            <4>4. Rank(j, A) <= n
                BY <1>4, <3>1, <4>2, <4>3
            <4>5. j \in DOMAIN ints /\ OnWire(s[j]) /\ s[j].fence = a.fence /\ s[j].seq = q
                BY <1>2, <1>9, <4>3, <4>4
            <4> QED BY <1>11, <3>1, <4>5
        <3>4. q \in Int /\ a.next \in Int
            BY <1>2
        <3> HIDE DEF a
        <3> QED BY <3>2, <3>3, <3>4
    <2> QED BY <2>1 DEF Whole
<1>22. Proven(b, s)
    <2>1. ASSUME b.state = "open", NEW i \in DOMAIN s, s[i].seq > 0, s[i].fence = b.fence
          PROVE  s[i].phase = "sent" \/ s[i].result \in {"written", "duplicate", "rejected"}
        <3>1. a.state = "open" /\ b.fence = a.fence /\ n = Cardinality(A)
            <4> HIDE DEF A, a
            <4> QED BY <1>7, <1>12, <2>1
        <3>2. CASE i \in A
            <4> HIDE DEF A
            <4> QED BY <1>4, <1>9, <3>1, <3>2
        <3>3. CASE i \notin A
            <4>1. s[i] = ints[i]
                <5> HIDE DEF A, P
                <5> QED BY <1>10, <1>11, <2>1, <3>3
            <4> QED BY <1>11, <2>1, <3>1, <4>1 DEF LedgerInv, Proven
        <3> QED BY <3>2, <3>3
    <2> QED BY <2>1 DEF Proven
<1>23. LedgerInv(b, s)
    BY <1>13, <1>15, <1>16, <1>17, <1>18, <1>20, <1>21, <1>22 DEF LedgerInv
<1>24. \A i \in DOMAIN ints : ints[i].phase = "done" => s[i] = ints[i]
    <2>1. \A i \in DOMAIN ints : ints[i].phase = "done" => i \notin P
        BY DEF InPhase
    <2>2. \A i \in DOMAIN ints : i \in A => i \in P
        BY <1>3
    <2> HIDE DEF A, P
    <2> QED BY <1>10, <2>1, <2>2
<1>25. Types' /\ \A d \in Clients \ {c} : authority'[d] = authority[d] /\ intents'[d] = intents[d]
    <2>1. out \in Seq(Intent) /\ b \in Authority
        BY <1>8, <1>11, <1>12
    <2>2. authority' = [authority EXCEPT ![c] = b] /\ intents' = [intents EXCEPT ![c] = out]
        BY <1>8
    <2> QED BY <1>8, <2>1, <2>2 DEF Types
<1> QED BY <1>23, <1>24, <1>25 DEF Keeps, b, s
-----------------------------------------------------------------------------
(* The steps of one browser *)

LEMMA KeptLedger ==
    ASSUME InputInv, NEW c \in Clients
    PROVE  /\ LedgerInv(authority[c], intents[c])
           /\ intents[c] \in Seq(Intent) /\ authority[c] \in Authority
           /\ DOMAIN intents[c] = 1 .. Len(intents[c]) /\ Len(intents[c]) \in Nat
           /\ \A i \in DOMAIN intents[c] :
                 /\ intents[c][i] \in Intent
                 /\ intents[c][i].phase = "done" <=> intents[c][i].result # "none"
                 /\ intents[c][i].phase = "pre" => intents[c][i].seq = 0
<1>1. LedgerInv(authority[c], intents[c]) /\ intents[c] \in Seq(Intent) /\ authority[c] \in Authority
    BY DEF InputInv, Types
<1>2. DOMAIN intents[c] = 1 .. Len(intents[c]) /\ Len(intents[c]) \in Nat
    BY <1>1, PhasesAreFinite
<1>3. \A i \in DOMAIN intents[c] : intents[c][i] \in Intent
    BY <1>1, <1>2
<1> QED BY <1>1, <1>2, <1>3 DEF LedgerInv, LedgerTypes, WaitingIsLast, InPhase

LEMMA Kept ==
    ASSUME InputInv, NEW c \in Clients, NEW b, NEW ends, NEW adm \in [Clients -> BOOLEAN],
           authority' = [authority EXCEPT ![c] = b],
           intents' = [intents EXCEPT ![c] = ends], admitting' = adm,
           LedgerInv(b, ends),
           \A i \in DOMAIN intents[c] : intents[c][i].phase = "done" => ends[i] = intents[c][i]
    PROVE  Keeps(c, intents[c])
<1>1. b \in Authority /\ ends \in Seq(Intent)
    BY DEF LedgerInv, LedgerTypes
<1>2. authority'[c] = b /\ intents'[c] = ends
    BY DEF InputInv, Types
<1>3. Types'
    BY <1>1 DEF InputInv, Types
<1>4. \A d \in Clients \ {c} : authority'[d] = authority[d] /\ intents'[d] = intents[d]
    BY DEF InputInv, Types
<1> QED BY <1>2, <1>3, <1>4 DEF Keeps

\* The intents end as they may, and the authority goes no further.
LEMMA KeptEnds ==
    ASSUME InputInv, NEW c \in Clients, NEW b, NEW ends,
           authority' = [authority EXCEPT ![c] = b],
           intents' = [intents EXCEPT ![c] = ends], UNCHANGED admitting,
           AllEnd(intents[c], ends), Demoted(authority[c], b), Proven(b, ends)
    PROVE  Keeps(c, intents[c])
<1>1. LedgerInv(authority[c], intents[c])
    BY KeptLedger
<1>2. LedgerInv(b, ends)
      /\ \A i \in DOMAIN intents[c] : intents[c][i].phase = "done" => ends[i] = intents[c][i]
    BY <1>1, LedgerEnds
<1>3. admitting \in [Clients -> BOOLEAN]
    BY DEF InputInv, Types
<1> QED BY <1>2, <1>3, Kept

LEMMA SealDemotes ==
    ASSUME NEW a \in Authority, NEW replace \in BOOLEAN
    PROVE  /\ Demoted(a, Seal(a, replace)) /\ Seal(a, replace).state # "open"
           /\ Demoted(a, [Seal(a, replace) EXCEPT !.lease = 0])
           /\ [Seal(a, replace) EXCEPT !.lease = 0].state # "open"
<1>1. CASE Attached(a)
    <2>1. Seal(a, replace) = [a EXCEPT !.state = "sealed", !.replace = @ \/ replace]
        BY <1>1 DEF Seal, Attached
    <2>2. [a EXCEPT !.state = "sealed", !.replace = @ \/ replace] \in Authority
        BY DEF Authority
    <2>3. /\ Seal(a, replace).state = "sealed" /\ Seal(a, replace).fence = a.fence
          /\ Seal(a, replace).next = a.next /\ Seal(a, replace).highest = a.highest
        BY <2>1 DEF Authority
    <2>4. 0 \in 0 .. MaxFence
        BY BrowserInputAssumption
    <2>5. \A x \in Authority : LET y == [x EXCEPT !.lease = 0]
                             IN  /\ y \in Authority /\ y.state = x.state /\ y.fence = x.fence
                                 /\ y.next = x.next /\ y.highest = x.highest
        BY <2>4 DEF Authority
    <2> QED BY <1>1, <2>1, <2>2, <2>3, <2>5 DEF Demoted, Attached
<1>2. CASE ~Attached(a)
    <2>1. Seal(a, replace) = a /\ a.state # "open"
        BY <1>2 DEF Seal, Attached
    <2>2. 0 \in 0 .. MaxFence
        BY BrowserInputAssumption
    <2>3. LET y == [a EXCEPT !.lease = 0]
          IN  y \in Authority /\ y.state = a.state /\ y.highest = a.highest
        BY <2>2 DEF Authority
    <2> QED BY <1>2, <2>1, <2>3 DEF Demoted, Attached
<1> QED BY <1>1, <1>2

LEMMA DetachDemotes ==
    ASSUME NEW a \in Authority
    PROVE  /\ Demoted(a, Detached(a.highest)) /\ Detached(a.highest).state # "open"
           /\ Demoted(a, [Detached(a.highest) EXCEPT !.state = "read-only"])
           /\ [Detached(a.highest) EXCEPT !.state = "read-only"].state # "open"
<1>1. 0 \in 0 .. MaxFence /\ 0 \in 0 .. MaxIntents + 1 /\ a.highest \in 0 .. MaxFence
    BY BrowserInputAssumption DEF Authority
<1>2. Detached(a.highest) \in Authority
    BY <1>1 DEF Detached, Authority
<1>3. [Detached(a.highest) EXCEPT !.state = "read-only"] \in Authority
    BY <1>2 DEF Authority
<1> QED BY <1>2, <1>3 DEF Demoted, Attached, Detached

LEMMA Unopen == ASSUME NEW a, NEW ints, a.state # "open" PROVE Proven(a, ints)
BY DEF Proven

\* Settling a transport ends what waits, and what was sent waits for a proof or is given up.
LEMMA SettleEnds ==
    ASSUME NEW ints, NEW reason
    PROVE  AllEnd(ints, Settle(ints, reason))
<1> DEFINE unsent == Finish(ints, InPhase(ints, "pre"), "not-sent")
<1>1. /\ DOMAIN unsent = DOMAIN ints
      /\ \A i \in DOMAIN ints :
            unsent[i] = IF ints[i].phase = "pre"
                        THEN [ints[i] EXCEPT !.phase = "done", !.result = "not-sent"] ELSE ints[i]
    BY DEF Finish, InPhase
<1> HIDE DEF unsent
<1>2. CASE reason = "closed"
    <2>1. Settle(ints, reason) = Finish(unsent, PendingIn(ints), "uncertain")
        BY <1>2 DEF Settle, unsent
    <2>2. "uncertain" \in Results \ {"none", "not-sent"}
        BY DEF Results
    <2>3. ASSUME NEW i \in DOMAIN ints PROVE Ends(ints[i], Settle(ints, reason)[i])
        <3>1. CASE ints[i].phase \in {"sent", "terminating"}
            <4>1. unsent[i] = ints[i] /\ i \in PendingIn(ints)
                BY <1>1, <3>1 DEF PendingIn, InPhase
            <4>2. Settle(ints, reason)[i] = [ints[i] EXCEPT !.phase = "done", !.result = "uncertain"]
                BY <1>1, <2>1, <4>1 DEF Finish
            <4> QED BY <2>2, <3>1, <4>2 DEF Ends
        <3>2. CASE ints[i].phase \notin {"sent", "terminating"}
            <4>1. Settle(ints, reason)[i] = unsent[i]
                BY <1>1, <2>1, <3>2 DEF Finish, PendingIn, InPhase
            <4> QED BY <1>1, <4>1 DEF Ends
        <3> QED BY <3>1, <3>2
    <2> QED BY <1>1, <2>1, <2>3 DEF AllEnd, Finish
<1>3. CASE reason # "closed"
    <2>1. Settle(ints, reason) = BeginTermination(unsent, InPhase(ints, "sent"))
        BY <1>3 DEF Settle, unsent
    <2>2. ASSUME NEW i \in DOMAIN ints PROVE Ends(ints[i], Settle(ints, reason)[i])
        <3>1. CASE ints[i].phase = "sent"
            <4>1. Settle(ints, reason)[i] = [ints[i] EXCEPT !.phase = "terminating"]
                BY <1>1, <2>1, <3>1 DEF BeginTermination, InPhase
            <4> QED BY <3>1, <4>1 DEF Ends
        <3>2. CASE ints[i].phase # "sent"
            <4>1. Settle(ints, reason)[i] = unsent[i]
                BY <1>1, <2>1, <3>2 DEF BeginTermination, InPhase
            <4> QED BY <1>1, <4>1 DEF Ends
        <3> QED BY <3>1, <3>2
    <2> QED BY <1>1, <2>1, <2>2 DEF AllEnd, BeginTermination
<1> QED BY <1>2, <1>3

LEMMA ConsumeRefusedKeeps ==
    ASSUME InputInv, NEW c \in Clients, NEW kind \in Kinds, ConsumeRefused(c, kind)
    PROVE  Keeps(c, intents[c])
<1> DEFINE late == [New(kind) EXCEPT !.phase = "done", !.result = "not-sent"]
<1>1. late \in Intent /\ late.seq = 0 /\ late.fence = 0 /\ late.phase = "done" /\ late.result # "none"
    BY NewIntents
<1>2. /\ Len(intents[c]) < MaxIntents /\ UNCHANGED admitting
      /\ intents' = [intents EXCEPT ![c] = Append(intents[c], late)]
      /\ authority' = [authority EXCEPT ![c] = authority[c]]
    BY DEF ConsumeRefused, InputInv, Types
<1> HIDE DEF late
<1>3. LedgerInv(authority[c], Append(intents[c], late))
    BY <1>1, <1>2, KeptLedger, Appended
<1>4. \A i \in DOMAIN intents[c] : Append(intents[c], late)[i] = intents[c][i]
    BY <1>1, KeptLedger, AppendProperties
<1>5. admitting \in [Clients -> BOOLEAN]
    BY DEF InputInv, Types
<1> QED BY <1>2, <1>3, <1>4, <1>5, Kept

LEMMA KeptConsumed ==
    ASSUME InputInv, NEW c \in Clients, NEW kind \in Kinds, Len(intents[c]) < MaxIntents
    PROVE  LET more == Consumed(intents[c], kind)
           IN  /\ LedgerInv(authority[c], more) /\ Len(more) = Len(intents[c]) + 1
               /\ \A i \in DOMAIN intents[c] :
                     intents[c][i].phase = "done" => more[i] = intents[c][i]
<1> DEFINE a == authority[c]
           ints == intents[c]
<1>1. LedgerInv(a, ints) /\ Len(ints) < MaxIntents
    BY KeptLedger
<1> HIDE DEF a, ints
<1>2. /\ LedgerInv(a, Consumed(ints, kind))
      /\ Len(Consumed(ints, kind)) = Len(ints) + 1
      /\ \A i \in DOMAIN ints : ints[i].phase = "done" => Consumed(ints, kind)[i] = ints[i]
    BY <1>1, ConsumedLedger
<1> QED BY <1>2 DEF a, ints

LEMMA ConsumeStateKeeps ==
    ASSUME InputInv, NEW c \in Clients, NEW kind \in Kinds, ConsumeState(c, kind)
    PROVE  Keeps(c, intents[c])
<1>1. /\ Len(intents[c]) < MaxIntents
      /\ intents' = [intents EXCEPT ![c] = Consumed(intents[c], kind)]
      /\ authority' = [authority EXCEPT ![c] = authority[c]]
      /\ admitting' \in [Clients -> BOOLEAN]
    BY DEF ConsumeState, InputInv, Types
<1>2. /\ LedgerInv(authority[c], Consumed(intents[c], kind))
      /\ \A i \in DOMAIN intents[c] : intents[c][i].phase = "done" =>
            Consumed(intents[c], kind)[i] = intents[c][i]
    BY <1>1, KeptConsumed
<1> QED BY <1>1, <1>2, Kept

LEMMA ConsumeKeyKeeps ==
    ASSUME InputInv, NEW c \in Clients, NEW cut, NEW n, NEW how \in SendDecisions,
           ConsumeKey(c, cut, n, how)
    PROVE  Keeps(c, intents[c])
<1> DEFINE ints == Consumed(intents[c], "key")
<1>1. /\ LedgerInv(authority[c], ints) /\ Len(ints) = Len(intents[c]) + 1
      /\ \A i \in DOMAIN intents[c] : intents[c][i].phase = "done" => ints[i] = intents[c][i]
    BY KeptConsumed, BrowserInputAssumption DEF ConsumeKey
<1>2. CASE ints[Len(ints)].phase = "pre"
    <2>1. AdmitAndSend(c, ints, cut, n, how)
        BY <1>2 DEF ConsumeKey
    <2>2. Types
        BY DEF InputInv
    <2>3. \A i \in DOMAIN intents[c] : i \in DOMAIN ints
        <3>1. DOMAIN ints = 1 .. Len(ints)
            BY <1>1, PhasesAreFinite DEF LedgerInv, LedgerTypes
        <3> HIDE DEF ints
        <3> QED BY <1>1, <3>1, KeptLedger
    <2> HIDE DEF ints
    <2>4. Keeps(c, ints)
        BY <1>1, <2>1, <2>2, AdmissionKeeps
    <2> QED BY <1>1, <2>3, <2>4 DEF Keeps
<1>3. CASE ints[Len(ints)].phase # "pre"
    <2>1. /\ intents' = [intents EXCEPT ![c] = ints] /\ UNCHANGED admitting
          /\ authority' = [authority EXCEPT ![c] = authority[c]]
          /\ admitting \in [Clients -> BOOLEAN]
        BY <1>3 DEF ConsumeKey, InputInv, Types
    <2> HIDE DEF ints
    <2> QED BY <1>1, <2>1, Kept
<1> QED BY <1>2, <1>3

LEMMA AdmissionTaskKeeps ==
    ASSUME InputInv, NEW c \in Clients, NEW cut, NEW n, NEW how \in SendDecisions,
           AdmissionTask(c, cut, n, how)
    PROVE  Keeps(c, intents[c])
BY KeptLedger, AdmissionKeeps DEF InputInv, AdmissionTask

LEMMA AcknowledgementKeeps ==
    ASSUME InputInv, NEW c \in Clients, NEW fence, NEW seq,
           NEW status \in {"written", "duplicate", "rejected", "uncertain"},
           AcceptAcknowledgement(c, fence, seq, status)
    PROVE  Keeps(c, intents[c])
<1> DEFINE a == authority[c]
           ids == Matches(c, fence, seq)
           ends == Finish(intents[c], ids, status)
           b == IF status = "uncertain" /\ ids # {} THEN SealEpochOf(a, fence) ELSE a
<1>1. /\ intents' = [intents EXCEPT ![c] = ends] /\ authority' = [authority EXCEPT ![c] = b]
      /\ UNCHANGED admitting
    BY DEF AcceptAcknowledgement, InputInv, Types
<1>2. /\ DOMAIN ends = DOMAIN intents[c] /\ ends = [i \in DOMAIN intents[c] |-> ends[i]]
      /\ \A i \in DOMAIN intents[c] :
            ends[i] = IF i \in ids THEN [intents[c][i] EXCEPT !.phase = "done", !.result = status]
                      ELSE intents[c][i]
    BY DEF Finish
<1>3. status \in Results \ {"none", "not-sent"}
    BY DEF Results
<1>4. \A i \in ids : /\ i \in DOMAIN intents[c] /\ intents[c][i].fence = fence
                     /\ intents[c][i].phase \in {"sent", "terminating"}
    BY Zenon DEF Matches, Awaits
<1>5. AllEnd(intents[c], ends)
    <2> HIDE DEF ids, ends
    <2> QED BY <1>2, <1>3, <1>4 DEF AllEnd, Ends
<1>6. a \in Authority
    BY KeptLedger
<1>7. Demoted(a, a)
    BY <1>6 DEF Demoted
<1>8. Demoted(a, b)
    <2>1. Demoted(a, SealEpochOf(a, fence))
        BY <1>6, <1>7, SealDemotes DEF SealEpochOf
    <2> QED BY <1>7, <2>1
<1>9. Proven(b, ends)
    <2>1. ASSUME b.state = "open", NEW i \in DOMAIN ends, ends[i].seq > 0, ends[i].fence = b.fence
          PROVE  ends[i].phase = "sent" \/ ends[i].result \in {"written", "duplicate", "rejected"}
        <3>1. a.state = "open" /\ b.fence = a.fence
            BY <1>8, <2>1 DEF Demoted, Attached
        <3>2. /\ intents[c][i] \in Intent /\ ends[i].seq = intents[c][i].seq
              /\ ends[i].fence = intents[c][i].fence
              /\ i \in ids => ends[i].result = status
              /\ i \notin ids => ends[i] = intents[c][i]
            <4>1. intents[c][i] \in Intent /\ i \in DOMAIN intents[c]
                BY <1>2, <2>1, KeptLedger
            <4> HIDE DEF ids, ends
            <4> QED BY <1>2, <4>1 DEF Intent
        <3>3. CASE i \in ids
            <4>1. fence = a.fence
                BY <1>4, <2>1, <3>1, <3>2, <3>3
            <4>2. status # "uncertain"
                <5>1. SealEpochOf(a, a.fence) = Seal(a, TRUE)
                    BY <3>1 DEF SealEpochOf
                <5>2. Seal(a, TRUE).state # "open"
                    BY <1>6, SealDemotes
                <5>3. status = "uncertain" => b = SealEpochOf(a, fence)
                    BY <3>3
                <5> HIDE DEF a, b, ids
                <5> QED BY <2>1, <4>1, <5>1, <5>2, <5>3
            <4> QED BY <3>2, <3>3, <4>2
        <3>4. CASE i \notin ids
            <4>1. LedgerInv(a, intents[c])
                BY KeptLedger
            <4> HIDE DEF ids, ends, b, a
            <4> QED BY <1>2, <2>1, <3>1, <3>2, <3>4, <4>1 DEF LedgerInv, Proven
        <3> QED BY <3>3, <3>4
    <2> QED BY <2>1 DEF Proven
<1> HIDE DEF ends, b
<1> QED BY <1>1, <1>5, <1>8, <1>9, KeptEnds

LEMMA ExpirePreKeeps ==
    ASSUME InputInv, NEW c \in Clients, ExpirePre(c) PROVE Keeps(c, intents[c])
<1>1. PICK i \in InPhase(intents[c], "pre") :
          /\ intents' = [intents EXCEPT ![c] = Finish(intents[c], {i}, "not-sent")]
          /\ UNCHANGED <<authority, admitting>>
    BY DEF ExpirePre
<1>2. /\ LedgerInv(authority[c], Finish(intents[c], {i}, "not-sent"))
      /\ \A j \in DOMAIN intents[c] : intents[c][j].phase = "done" =>
            Finish(intents[c], {i}, "not-sent")[j] = intents[c][j]
    <2>1. {i} \subseteq InPhase(intents[c], "pre")
        BY <1>1
    <2> QED BY <2>1, KeptLedger, FinishWaiting, SettlesNothing
<1>3. authority' = [authority EXCEPT ![c] = authority[c]] /\ admitting \in [Clients -> BOOLEAN]
    BY <1>1 DEF InputInv, Types
<1> QED BY <1>1, <1>2, <1>3, Kept

LEMMA ExpireSentKeeps ==
    ASSUME InputInv, NEW c \in Clients, ExpireSent(c) PROVE Keeps(c, intents[c])
<1> DEFINE a == authority[c]
<1>1. PICK i \in InPhase(intents[c], "sent") :
          /\ intents' = [intents EXCEPT ![c] = BeginTermination(intents[c], {i})]
          /\ authority' = [authority EXCEPT ![c] = SealEpochOf(authority[c], intents[c][i].fence)]
          /\ UNCHANGED admitting
    BY DEF ExpireSent, InputInv, Types
<1> DEFINE ends == BeginTermination(intents[c], {i})
           b == SealEpochOf(a, intents[c][i].fence)
<1>2. /\ DOMAIN ends = DOMAIN intents[c] /\ ends = [j \in DOMAIN intents[c] |-> ends[j]]
      /\ \A j \in DOMAIN intents[c] :
            ends[j] = IF j = i THEN [intents[c][j] EXCEPT !.phase = "terminating"] ELSE intents[c][j]
    BY DEF BeginTermination
<1>3. i \in DOMAIN intents[c] /\ intents[c][i].phase = "sent" /\ intents[c][i] \in Intent
    BY KeptLedger, Zenon DEF InPhase
<1>4. AllEnd(intents[c], ends)
    <2> HIDE DEF ends
    <2> QED BY <1>2, <1>3 DEF AllEnd, Ends
<1>5. a \in Authority /\ LedgerInv(a, intents[c])
    BY KeptLedger
<1>6. Demoted(a, b)
    <2>1. Demoted(a, a)
        BY <1>5 DEF Demoted
    <2> QED BY <1>5, <2>1, SealDemotes DEF SealEpochOf
<1>7. Proven(b, ends)
    <2>1. ASSUME b.state = "open", NEW j \in DOMAIN ends, ends[j].seq > 0, ends[j].fence = b.fence
          PROVE  ends[j].phase = "sent" \/ ends[j].result \in {"written", "duplicate", "rejected"}
        <3>1. a.state = "open" /\ b.fence = a.fence
            BY <1>6, <2>1 DEF Demoted, Attached
        <3>2. j # i
            <4>1. ends[i].fence = intents[c][i].fence
                <5> HIDE DEF ends
                <5> QED BY <1>2, <1>3 DEF Intent
            <4>2. SealEpochOf(a, a.fence) = Seal(a, TRUE) /\ Seal(a, TRUE).state # "open"
                BY <1>5, <3>1, SealDemotes DEF SealEpochOf
            <4> QED BY <2>1, <3>1, <4>1, <4>2
        <3>3. ends[j] = intents[c][j]
            <4> HIDE DEF ends
            <4> QED BY <1>2, <2>1, <3>2
        <3> HIDE DEF ends, b, a
        <3> QED BY <1>2, <1>5, <2>1, <3>1, <3>3 DEF LedgerInv, Proven
    <2> QED BY <2>1 DEF Proven
<1> HIDE DEF ends, b
<1> QED BY <1>1, <1>4, <1>6, <1>7, KeptEnds DEF ends, b

LEMMA ExpireTerminatingKeeps ==
    ASSUME InputInv, NEW c \in Clients, ExpireTerminating(c) PROVE Keeps(c, intents[c])
<1> DEFINE a == authority[c]
<1>1. PICK i \in InPhase(intents[c], "terminating") :
          /\ intents' = [intents EXCEPT ![c] = Finish(intents[c], {i}, "uncertain")]
          /\ UNCHANGED <<authority, admitting>>
    BY DEF ExpireTerminating, Terminating
<1> DEFINE ends == Finish(intents[c], {i}, "uncertain")
<1>2. /\ DOMAIN ends = DOMAIN intents[c] /\ ends = [j \in DOMAIN intents[c] |-> ends[j]]
      /\ \A j \in DOMAIN intents[c] :
            ends[j] = IF j = i THEN [intents[c][j] EXCEPT !.phase = "done", !.result = "uncertain"]
                      ELSE intents[c][j]
    BY DEF Finish
<1>3. /\ i \in DOMAIN intents[c] /\ intents[c][i].phase = "terminating"
      /\ intents[c][i] \in Intent /\ intents[c][i].result = "none"
    BY KeptLedger, Zenon DEF InPhase
<1>4. AllEnd(intents[c], ends)
    <2>1. "uncertain" \in Results \ {"none", "not-sent"}
        BY DEF Results
    <2> HIDE DEF ends
    <2> QED BY <1>2, <1>3, <2>1 DEF AllEnd, Ends
<1>5. a \in Authority /\ LedgerInv(a, intents[c])
    BY KeptLedger
<1>6. Demoted(a, a)
    BY <1>5 DEF Demoted
<1>7. Proven(a, ends)
    <2>1. ASSUME a.state = "open", NEW j \in DOMAIN ends, ends[j].seq > 0, ends[j].fence = a.fence
          PROVE  ends[j].phase = "sent" \/ ends[j].result \in {"written", "duplicate", "rejected"}
        <3>1. j # i
            <4>1. ends[i].fence = intents[c][i].fence /\ ends[i].seq = intents[c][i].seq
                <5> HIDE DEF ends
                <5> QED BY <1>2, <1>3 DEF Intent
            <4>2. ~(intents[c][i].seq > 0 /\ intents[c][i].fence = a.fence)
                BY <1>3, <1>5, <2>1 DEF LedgerInv, Proven
            <4> QED BY <2>1, <4>1, <4>2
        <3>2. ends[j] = intents[c][j]
            <4> HIDE DEF ends
            <4> QED BY <1>2, <2>1, <3>1
        <3> HIDE DEF ends, a
        <3> QED BY <1>2, <1>5, <2>1, <3>2 DEF LedgerInv, Proven
    <2> QED BY <2>1 DEF Proven
<1>8. authority' = [authority EXCEPT ![c] = authority[c]] /\ UNCHANGED admitting
    BY <1>1 DEF InputInv, Types
<1> HIDE DEF ends
<1> QED BY <1>1, <1>4, <1>6, <1>7, <1>8, KeptEnds DEF ends

LEMMA DetachKeeps ==
    ASSUME InputInv, NEW c \in Clients, NEW reason, Detach(c, reason)
    PROVE  Keeps(c, intents[c])
<1> DEFINE b == Detached(authority[c].highest)
<1>1. /\ authority' = [authority EXCEPT ![c] = b] /\ UNCHANGED admitting
      /\ intents' = [intents EXCEPT ![c] = Settle(intents[c], reason)]
    BY DEF Detach, InputInv, Types
<1>2. Demoted(authority[c], b) /\ Proven(b, Settle(intents[c], reason))
    BY KeptLedger, DetachDemotes, Unopen
<1> HIDE DEF b
<1> QED BY <1>1, <1>2, SettleEnds, KeptEnds

LEMMA RevokeKeeps ==
    ASSUME InputInv, NEW c \in Clients, Revoke(c) PROVE Keeps(c, intents[c])
<1> DEFINE b == [Seal(authority[c], FALSE) EXCEPT !.lease = 0]
<1>1. /\ authority' = [authority EXCEPT ![c] = b] /\ UNCHANGED admitting
      /\ intents' = [intents EXCEPT ![c] = Settle(intents[c], "control-replaced")]
    BY DEF Revoke, InputInv, Types
<1>2. Demoted(authority[c], b) /\ Proven(b, Settle(intents[c], "control-replaced"))
    BY KeptLedger, SealDemotes, Unopen
<1> HIDE DEF b
<1> QED BY <1>1, <1>2, SettleEnds, KeptEnds

LEMMA ResettledEnds == ASSUME NEW c \in Clients, InputInv PROVE AllEnd(intents[c], Resettled(c))
<1>1. AllEnd(intents[c], intents[c])
    BY KeptLedger DEF AllEnd, Ends
<1> QED BY <1>1, SettleEnds DEF Resettled

LEMMA WelcomeWaitingKeeps ==
    ASSUME InputInv, NEW c \in Clients, WelcomeWaiting(c) PROVE Keeps(c, intents[c])
<1> DEFINE a == authority[c]
           b == IF a.state \in {"open", "sealed"} THEN [Seal(a, FALSE) EXCEPT !.lease = 0]
                ELSE [Detached(a.highest) EXCEPT !.state = "read-only"]
<1>1. /\ authority' = [authority EXCEPT ![c] = b] /\ UNCHANGED admitting
      /\ intents' = [intents EXCEPT ![c] = Resettled(c)]
    BY DEF WelcomeWaiting, InputInv, Types
<1>2. Demoted(a, b) /\ Proven(b, Resettled(c))
    <2>1. a \in Authority
        BY KeptLedger
    <2>2. CASE a.state \in {"open", "sealed"}
        <3>1. b = [Seal(a, FALSE) EXCEPT !.lease = 0]
            BY <2>2
        <3> HIDE DEF a, b
        <3> QED BY <2>1, <3>1, SealDemotes, Unopen
    <2>3. CASE a.state \notin {"open", "sealed"}
        <3>1. b = [Detached(a.highest) EXCEPT !.state = "read-only"]
            BY <2>3
        <3> HIDE DEF a, b
        <3> QED BY <2>1, <3>1, DetachDemotes, Unopen
    <2> QED BY <2>2, <2>3
<1> HIDE DEF b
<1> QED BY <1>1, <1>2, ResettledEnds, KeptEnds

\* A new epoch has no identity yet, because its fence is higher than any before.
LEMMA OpenedLedger ==
    ASSUME NEW a, NEW ints, LedgerInv(a, ints), NEW fence \in 1 .. MaxFence, fence > a.highest
    PROVE  LedgerInv(Opened(fence), ints)
<1> DEFINE b == Opened(fence)
<1>1. ints \in Seq(Intent) /\ DOMAIN ints = 1 .. Len(ints) /\ Len(ints) \in Nat
    BY PhasesAreFinite DEF LedgerInv, LedgerTypes
<1>2. /\ b \in Authority /\ b.next = 1 /\ b.fence = fence /\ b.highest = fence
      /\ b.state = "open"
    BY BrowserInputAssumption DEF Opened, Authority
<1>3. a.highest \in Nat /\ \A i \in DOMAIN ints : ints[i].fence <= a.highest /\ ints[i].fence \in Nat
    <2>1. a \in Authority /\ \A i \in DOMAIN ints : ints[i].fence <= a.highest /\ ints[i] \in Intent
        BY <1>1 DEF LedgerInv, LedgerTypes, Fenced
    <2>2. a.highest \in 0 .. MaxFence
        BY <2>1 DEF Authority
    <2>3. \A i \in DOMAIN ints : ints[i].fence \in 0 .. MaxFence
        BY <2>1 DEF Intent
    <2> QED BY <2>1, <2>2, <2>3, BrowserInputAssumption
<1>4. \A i \in DOMAIN ints : ints[i].fence < fence
    BY <1>3
<1> HIDE DEF b
<1>5. LedgerTypes(b, ints)
    BY <1>2 DEF LedgerInv, LedgerTypes
<1>6. HasRoom(b, ints)
    <2>1. Cardinality(InPhase(ints, "pre")) <= Len(ints) /\ Cardinality(InPhase(ints, "pre")) \in Nat
        BY <1>1, PhasesAreFinite
    <2> QED BY <1>1, <1>2, <2>1 DEF HasRoom
<1>7. Fenced(b, ints)
    BY <1>2, <1>3, <1>4 DEF Fenced
<1>8. Whole(b, ints)
    BY <1>2 DEF Whole
<1>9. Proven(b, ints)
    BY <1>2, <1>3, <1>4 DEF Proven
<1> QED BY <1>5, <1>6, <1>7, <1>8, <1>9 DEF LedgerInv, b

LEMMA WelcomeWriterKeeps ==
    ASSUME InputInv, NEW c \in Clients, NEW fence \in 1 .. MaxFence, WelcomeWriter(c, fence)
    PROVE  Keeps(c, intents[c])
<1> DEFINE a == authority[c]
           settled == Resettled(c)
<1>1. fence > a.highest /\ authority' = [authority EXCEPT ![c] = Opened(fence)]
    BY DEF WelcomeWriter
<1>2. a \in Authority /\ LedgerInv(a, intents[c])
    BY KeptLedger
<1>3. /\ LedgerInv(Detached(a.highest), settled)
      /\ \A i \in DOMAIN intents[c] : intents[c][i].phase = "done" => settled[i] = intents[c][i]
    <2>1. Demoted(a, Detached(a.highest)) /\ Proven(Detached(a.highest), settled)
        BY <1>2, DetachDemotes, Unopen
    <2>2. AllEnd(intents[c], settled)
        BY ResettledEnds
    <2> HIDE DEF a, settled
    <2> QED BY <1>2, <2>1, <2>2, LedgerEnds
<1>4. LedgerInv(Opened(fence), settled)
    <2>1. fence > Detached(a.highest).highest
        BY <1>1 DEF Detached
    <2> QED BY <1>3, <2>1, OpenedLedger
<1>5. DOMAIN settled = DOMAIN intents[c] /\ Len(settled) = Len(intents[c])
    <2>1. DOMAIN settled = DOMAIN intents[c]
        BY ResettledEnds DEF AllEnd
    <2>2. settled \in Seq(Intent)
        BY <1>3 DEF LedgerInv, LedgerTypes
    <2> HIDE DEF settled
    <2> QED BY <2>1, <2>2, KeptLedger, LenProperties
<1>6. CASE HasResized(c) /\ Len(intents[c]) < MaxIntents
    <2>1. "resize" \in Kinds
        BY <1>6, KeptLedger DEF HasResized, Intent
    <2>2. /\ LedgerInv(Opened(fence), Consumed(settled, "resize"))
          /\ \A i \in DOMAIN settled : settled[i].phase = "done" =>
                Consumed(settled, "resize")[i] = settled[i]
        <3> HIDE DEF settled
        <3> QED BY <1>4, <1>5, <1>6, <2>1, ConsumedLedger
    <2>3. /\ intents' = [intents EXCEPT ![c] = Consumed(settled, "resize")]
          /\ admitting' \in [Clients -> BOOLEAN]
        BY <1>6 DEF WelcomeWriter, InputInv, Types
    <2> HIDE DEF settled
    <2>4. \A i \in DOMAIN intents[c] : intents[c][i].phase = "done" =>
              Consumed(settled, "resize")[i] = intents[c][i]
        BY <1>3, <1>5, <2>2
    <2> QED BY <1>1, <2>2, <2>3, <2>4, Kept
<1>7. CASE ~(HasResized(c) /\ Len(intents[c]) < MaxIntents)
    <2>1. intents' = [intents EXCEPT ![c] = settled] /\ admitting' \in [Clients -> BOOLEAN]
        BY <1>7 DEF WelcomeWriter, InputInv, Types
    <2> HIDE DEF settled
    <2> QED BY <1>1, <1>3, <1>4, <2>1, Kept
<1> QED BY <1>6, <1>7

-----------------------------------------------------------------------------
(* The specification *)

LEMMA StepKeeps == ASSUME InputInv, BrowserNext PROVE \E c \in Clients : Keeps(c, intents[c])
<1>1. PICK c \in Clients : BrowserStep(c) \/ RelayStep(c)
    BY DEF BrowserNext
<1>2. Keeps(c, intents[c])
    <2>1. ASSUME NEW kind \in Kinds, ConsumeRefused(c, kind) \/ ConsumeState(c, kind)
          PROVE  Keeps(c, intents[c])
        BY <2>1, ConsumeRefusedKeeps, ConsumeStateKeeps
    <2>2. ASSUME NEW cut, NEW n, NEW how \in SendDecisions,
                 ConsumeKey(c, cut, n, how) \/ AdmissionTask(c, cut, n, how)
          PROVE  Keeps(c, intents[c])
        BY <2>2, ConsumeKeyKeeps, AdmissionTaskKeeps
    <2>3. CASE ExpirePre(c) \/ ExpireSent(c) \/ ExpireTerminating(c)
        BY <2>3, ExpirePreKeeps, ExpireSentKeeps, ExpireTerminatingKeeps
    <2>4. CASE ReplaceConnection(c)
        BY <2>4, DetachKeeps DEF ReplaceConnection
    <2>5. ASSUME NEW fence, NEW seq, NEW status \in {"written", "duplicate", "rejected", "uncertain"},
                 AcceptAcknowledgement(c, fence, seq, status)
          PROVE  Keeps(c, intents[c])
        BY <2>5, AcknowledgementKeeps
    <2>6. ASSUME NEW fence \in 1 .. MaxFence, WelcomeWriter(c, fence) PROVE Keeps(c, intents[c])
        BY <2>6, WelcomeWriterKeeps
    <2>7. CASE WelcomeWaiting(c)
        BY <2>7, WelcomeWaitingKeeps
    <2>8. CASE Revoke(c) \/ Detach(c, "control-replaced") \/ Detach(c, "closed")
        BY <2>8, RevokeKeeps, DetachKeeps
    <2> QED BY <1>1, <2>1, <2>2, <2>3, <2>4, <2>5, <2>6, <2>7, <2>8 DEF BrowserStep, RelayStep
<1> QED BY <1>2

LEMMA InitialLedger == BrowserInit => InputInv
<1> SUFFICES ASSUME BrowserInit PROVE InputInv
    OBVIOUS
<1>1. 0 \in 0 .. MaxFence /\ 0 \in 0 .. MaxIntents + 1
    BY BrowserInputAssumption
<1>2. /\ Detached(0) \in Authority /\ Detached(0).state = "detached" /\ ~Attached(Detached(0))
    BY <1>1 DEF Detached, Authority, Attached
<1>3. <<>> \in Seq(Intent) /\ Len(<<>>) = 0 /\ DOMAIN <<>> = {}
    BY EmptySeq
<1>4. InPhase(<<>>, "pre") = {} /\ PendingIn(<<>>) = {}
    BY <1>3 DEF PendingIn, InPhase
<1>5. Cardinality(InPhase(<<>>, "pre")) = 0 /\ Cardinality(PendingIn(<<>>)) = 0
    BY <1>4, FS_EmptySet
<1>6. LedgerInv(Detached(0), <<>>)
    <2>1. LedgerTypes(Detached(0), <<>>)
        BY <1>2, <1>3, BrowserInputAssumption DEF LedgerTypes
    <2>2. WaitingIsLast(<<>>) /\ NoGap(<<>>) /\ Fenced(Detached(0), <<>>)
        BY <1>2, <1>3, <1>4 DEF WaitingIsLast, NoGap, Fenced
    <2>3. Limits(<<>>) /\ HasRoom(Detached(0), <<>>)
        BY <1>2, <1>5, BrowserInputAssumption DEF Limits, HasRoom
    <2>4. Whole(Detached(0), <<>>) /\ Proven(Detached(0), <<>>)
        BY <1>2 DEF Whole, Proven
    <2> QED BY <2>1, <2>2, <2>3, <2>4 DEF LedgerInv
<1>7. Types
    BY <1>2, <1>3 DEF BrowserInit, Types
<1> QED BY <1>6, <1>7 DEF BrowserInit, InputInv

LEMMA NextKeeps == InputInv /\ [BrowserNext]_browserVars => InputInv'
<1>1. ASSUME InputInv, BrowserNext PROVE InputInv'
    <2>1. PICK c \in Clients : Keeps(c, intents[c])
        BY <1>1, StepKeeps
    <2>2. \A d \in Clients : LedgerInv(authority'[d], intents'[d])
        BY <1>1, <2>1 DEF Keeps, InputInv
    <2> QED BY <2>1, <2>2 DEF Keeps, InputInv
<1>2. ASSUME InputInv, UNCHANGED browserVars PROVE InputInv'
    BY <1>2 DEF InputInv, Types, browserVars
<1> QED BY <1>1, <1>2

\* The ledger of every browser, through consumption, admission, results, deadlines, epochs.
THEOREM LedgerInvariant == BrowserSpec => []InputInv
BY InitialLedger, NextKeeps, PTL DEF BrowserSpec

\* BrowserTypeOK: the types of the dispatcher, the ledger and the authority.
THEOREM BrowserInputTypes == BrowserSpec => []BrowserTypeOK
<1>1. InputInv => BrowserTypeOK
    <2> SUFFICES ASSUME InputInv PROVE BrowserTypeOK
        OBVIOUS
    <2>1. \A c \in Clients : \A i \in DOMAIN intents[c] :
              intents[c][i].phase = "done" <=> intents[c][i].result # "none"
        BY KeptLedger
    <2> QED BY <2>1 DEF InputInv, Types, BrowserTypeOK
<1> QED BY <1>1, LedgerInvariant, PTL

\* WireHasNoGap: on the wire an epoch starts at 1 and goes on by 1 in the order of
\* consumption, whatever was refused, superseded, expired or given up.
THEOREM WireIsGapless == BrowserSpec => []WireHasNoGap
<1>1. InputInv => WireHasNoGap
    BY DEF InputInv, LedgerInv, NoGap, WireHasNoGap
<1> QED BY <1>1, LedgerInvariant, PTL

\* LedgerWithinLimits: neither the identities without a result nor the intents that wait
\* exceed their limits, through any number of epochs.
THEOREM LimitsHold == BrowserSpec => []LedgerWithinLimits
<1>1. InputInv => LedgerWithinLimits
    BY DEF InputInv, LedgerInv, Limits, LedgerWithinLimits
<1> QED BY <1>1, LedgerInvariant, PTL

\* OpenEpochIsProven: an epoch does not go on after an input whose fate is not known.
THEOREM OpenEpochsAreProven == BrowserSpec => []OpenEpochIsProven
<1>1. InputInv => OpenEpochIsProven
    BY DEF InputInv, LedgerInv, Proven, OpenEpochIsProven
<1> QED BY <1>1, LedgerInvariant, PTL

\* ResultsAreFinal: a terminal result is never rewritten by a late acknowledgement, a
\* deadline or the settlement of a transport.
THEOREM ResultsStayFinal == BrowserSpec => ResultsAreFinal
<1>1. InputInv /\ [BrowserNext]_browserVars =>
          [\A c \in Clients : \A i \in DOMAIN intents[c] :
              intents[c][i].phase = "done" => intents'[c][i] = intents[c][i]]_browserVars
    <2>1. ASSUME InputInv, BrowserNext, NEW c \in Clients, NEW i \in DOMAIN intents[c],
                 intents[c][i].phase = "done"
          PROVE  intents'[c][i] = intents[c][i]
        <3>1. PICK d \in Clients : Keeps(d, intents[d])
            BY <2>1, StepKeeps
        <3> QED BY <2>1, <3>1 DEF Keeps
    <2> QED BY <2>1
<1> QED BY <1>1, LedgerInvariant, PTL DEF BrowserSpec, ResultsAreFinal
=============================================================================
