-------------------------- MODULE UsageStatsProofs --------------------------
(***************************************************************************)
(* Proofs about UsageStats, for any models, events, retention, batches and *)
(* times: the details that are gone are below the cutoff on record, the    *)
(* hourly rows tell every event, an exact report is exact, and pages tell  *)
(* one snapshot.                                                           *)
(***************************************************************************)
EXTENDS UsageStats, FiniteSetTheorems, SequenceTheorems, TLAPS

-----------------------------------------------------------------------------
(* A set of finite sets has one that contains no other of them.            *)
LEMMA SmallestSet ==
    ASSUME NEW T, T # {}, \A S \in T : IsFiniteSet(S)
    PROVE  \E S \in T : \A U \in T : U \subseteq S => U = S
<1> PICK S0 \in T : TRUE
  OBVIOUS
<1> DEFINE R == StrictSubsetOrdering(S0)
           below == {U \in T : U \subseteq S0}
<1>1. IsWellFoundedOn(R, FiniteSubsetsOf(S0))
  BY FS_StrictSubsetOrderingWellFounded
<1>2. below \subseteq FiniteSubsetsOf(S0) /\ below # {}
  BY DEF FiniteSubsetsOf
<1>3. \E S \in below : \A U \in below : <<U, S>> \notin R
  <2> HIDE DEF R, below
  <2> QED BY <1>1, <1>2, WFMin
<1>4. PICK S \in below : \A U \in below : <<U, S>> \notin R
  BY <1>3
<1>5. ASSUME NEW U \in T, U \subseteq S PROVE U = S
  <2>1. U \in below
    BY <1>5
  <2>2. <<U, S>> \in (SUBSET S0) \X (SUBSET S0)
    BY <2>1
  <2>3. <<U, S>> \notin R
    BY <1>4, <2>1
  <2>4. QED
    BY <1>5, <2>2, <2>3 DEF StrictSubsetOrdering
<1>6. QED
  BY <1>5

(* What Sum chooses: the function that adds the elements of a set one by   *)
(* one.                                                                    *)
Adds(g, f, S) ==
    g = [s \in SUBSET S |-> IF s = {} THEN 0
                            ELSE f[CHOOSE x \in s : TRUE] + g[s \ {CHOOSE x \in s : TRUE}]]

(* The sum over a set is the value of the function chosen there.           *)
LEMMA SumChooses ==
    ASSUME NEW f, NEW S
    PROVE  Sum(f, S) = (CHOOSE g : Adds(g, f, S))[S]
BY DEF Sum, FoldFunctionOnSet, MapThenFoldSet, Adds

(* Two such functions agree where both are defined.                        *)
LEMMA AddsAgree ==
    ASSUME NEW f, NEW S, IsFiniteSet(S), NEW T \in SUBSET S, NEW g, NEW h,
           Adds(g, f, S), Adds(h, f, T)
    PROVE  \A s \in SUBSET T : g[s] = h[s]
<1> DEFINE differ == {s \in SUBSET T : g[s] # h[s]}
<1> SUFFICES ASSUME differ # {} PROVE FALSE
  OBVIOUS
<1>1. \A s \in differ : IsFiniteSet(s)
  BY FS_Subset
<1>2. PICK s \in differ : \A u \in differ : u \subseteq s => u = s
  <2> HIDE DEF differ
  <2> QED BY <1>1, SmallestSet
<1>3. s \in SUBSET T /\ s \in SUBSET S
  OBVIOUS
<1>4. CASE s = {}
  BY <1>3, <1>4 DEF Adds
<1>5. CASE s # {}
  <2> DEFINE x == CHOOSE x \in s : TRUE
             rest == s \ {x}
  <2>1. x \in s
    BY <1>5
  <2>2. rest \in SUBSET T /\ rest \in SUBSET S /\ rest # s
    BY <1>3, <2>1
  <2>3. g[rest] = h[rest]
    BY <1>2, <2>2
  <2>4. g[s] = f[x] + g[rest] /\ h[s] = f[x] + h[rest]
    BY <1>3, <1>5 DEF Adds
  <2>5. QED
    BY <2>3, <2>4
<1>6. QED
  BY <1>4, <1>5

(* There is one for every finite set.                                      *)
LEMMA AddsExists ==
    ASSUME NEW f, NEW S, IsFiniteSet(S)
    PROVE  \E g : Adds(g, f, S)
<1> DEFINE without == {T \in SUBSET S : ~\E g : Adds(g, f, T)}
<1> SUFFICES ASSUME without # {} PROVE FALSE
  BY FS_Subset
<1>1. \A T \in without : IsFiniteSet(T)
  BY FS_Subset
<1>2. PICK T \in without : \A U \in without : U \subseteq T => U = T
  <2> HIDE DEF without
  <2> QED BY <1>1, SmallestSet
<1>3. T \in SUBSET S /\ IsFiniteSet(T)
  BY <1>1
<1>4. ASSUME NEW U \in SUBSET T, U # T
      PROVE  Adds(CHOOSE g : Adds(g, f, U), f, U)
  <2>1. \E g : Adds(g, f, U)
    BY <1>2, <1>3, <1>4
  <2>2. QED
    BY <2>1
<1> DEFINE G(U) == CHOOSE g : Adds(g, f, U)
           x(s) == CHOOSE x \in s : TRUE
           g == [s \in SUBSET T |-> IF s = {} THEN 0
                                    ELSE f[x(s)] + G(s \ {x(s)})[s \ {x(s)}]]
<1>5. ASSUME NEW s \in SUBSET T, s # {}, s # T
      PROVE  G(s)[s] = g[s]
  <2> DEFINE rest == s \ {x(s)}
  <2>1. x(s) \in s
    BY <1>5
  <2>2. rest \in SUBSET T /\ rest # T /\ rest \in SUBSET s
    BY <2>1
  <2>3. Adds(G(s), f, s) /\ Adds(G(rest), f, rest)
    BY <1>4, <1>5, <2>2
  <2>4. IsFiniteSet(s)
    BY <1>3, FS_Subset
  <2>5. G(s)[s] = f[x(s)] + G(s)[rest]
    BY <1>5, <2>3 DEF Adds
  <2>6. G(s)[rest] = G(rest)[rest]
    <3> HIDE DEF G, rest
    <3> QED BY <2>2, <2>3, <2>4, AddsAgree
  <2>7. QED
    BY <1>5, <2>5, <2>6
<1>6. ASSUME {} # T PROVE G({})[{}] = g[{}]
  <2>1. Adds(G({}), f, {})
    BY <1>4, <1>6
  <2>2. QED
    BY <2>1 DEF Adds
<1>7. ASSUME NEW s \in SUBSET T, s # {}
      PROVE  g[s] = f[x(s)] + g[s \ {x(s)}]
  <2> DEFINE rest == s \ {x(s)}
  <2>1. x(s) \in s
    BY <1>7
  <2>2. rest \in SUBSET T /\ rest # T
    BY <2>1
  <2>3. g[rest] = G(rest)[rest]
    BY <1>5, <1>6, <2>2
  <2>4. QED
    BY <1>7, <2>3
<1>8. /\ g = [s \in SUBSET T |-> g[s]] /\ g[{}] = 0
      /\ \A s \in SUBSET T : s # {} => g[s] = f[x(s)] + g[s \ {x(s)}]
  <2>1. g[{}] = 0
    OBVIOUS
  <2>2. g = [s \in SUBSET T |-> g[s]]
    <3> DEFINE y(s) == IF s = {} THEN 0 ELSE f[x(s)] + G(s \ {x(s)})[s \ {x(s)}]
    <3>1. g = [s \in SUBSET T |-> y(s)]
      OBVIOUS
    <3> HIDE DEF y, g
    <3>2. QED
      BY <3>1
  <2> HIDE DEF g
  <2>3. QED
    BY <1>7, <2>1, <2>2
<1> HIDE DEF g
<1>9. Adds(g, f, T)
  BY <1>8, Zenon DEF Adds
<1>10. QED
  BY <1>9

(* The sum of nothing, and the sum of a set from that of one less.         *)
LEMMA SumStep ==
    ASSUME NEW f, NEW S, IsFiniteSet(S)
    PROVE  /\ S = {} => Sum(f, S) = 0
           /\ S # {} => LET x == CHOOSE x \in S : TRUE
                        IN Sum(f, S) = f[x] + Sum(f, S \ {x})
<1> DEFINE G(U) == CHOOSE g : Adds(g, f, U)
           x == CHOOSE x \in S : TRUE
           rest == S \ {x}
<1>1. IsFiniteSet(rest)
  BY FS_Subset
<1>2. Adds(G(S), f, S) /\ Adds(G(rest), f, rest)
  <2> HIDE DEF rest
  <2> QED BY <1>1, AddsExists
<1>3. Sum(f, S) = G(S)[S] /\ Sum(f, rest) = G(rest)[rest]
  BY SumChooses
<1>4. G(S)[rest] = G(rest)[rest]
  <2>1. rest \in SUBSET S /\ rest \in SUBSET rest
    OBVIOUS
  <2> HIDE DEF G, rest
  <2> QED BY <1>2, <2>1, AddsAgree
<1>5. S = {} => G(S)[S] = 0
  BY <1>2 DEF Adds
<1>6. S # {} => G(S)[S] = f[x] + G(S)[rest]
  BY <1>2 DEF Adds
<1>7. QED
  BY <1>3, <1>4, <1>5, <1>6
(* Any element may be taken first.                                         *)
LEMMA SumOfMore ==
    ASSUME NEW K, NEW f \in [K -> Nat], NEW S \in SUBSET K, IsFiniteSet(S)
    PROVE  /\ Sum(f, S) \in Nat
           /\ \A y \in S : Sum(f, S) = f[y] + Sum(f, S \ {y})
<1> DEFINE Good(U) == /\ Sum(f, U) \in Nat
                      /\ \A y \in U : Sum(f, U) = f[y] + Sum(f, U \ {y})
           bad == {U \in SUBSET S : ~Good(U)}
<1> SUFFICES ASSUME bad # {} PROVE FALSE
  OBVIOUS
<1>1. \A U \in bad : IsFiniteSet(U)
  BY FS_Subset
<1>2. PICK U \in bad : \A V \in bad : V \subseteq U => V = U
  <2> HIDE DEF bad
  <2> QED BY <1>1, SmallestSet
<1>3. U \in SUBSET S /\ IsFiniteSet(U)
  BY <1>1
<1>4. ASSUME NEW V \in SUBSET U, V # U PROVE Good(V)
  <2>1. V \in SUBSET S /\ V \notin bad
    BY <1>2, <1>3, <1>4
  <2> HIDE DEF Good
  <2> QED BY <2>1
<1>5. CASE U = {}
  <2>1. Sum(f, U) = 0
    BY <1>3, <1>5, SumStep
  <2>2. Good(U)
    BY <1>5, <2>1
  <2>3. QED
    BY <2>2
<1>6. CASE U # {}
  <2> DEFINE x == CHOOSE x \in U : TRUE
             rest == U \ {x}
  <2>1. x \in U /\ x \in K
    BY <1>3, <1>6
  <2>2. Sum(f, U) = f[x] + Sum(f, rest)
    BY <1>3, <1>6, SumStep
  <2>3. Good(rest)
    BY <1>4, <2>1
  <2> HIDE DEF x, rest
  <2>4. Sum(f, U) \in Nat
    BY <2>1, <2>2, <2>3
  <2>5. ASSUME NEW y \in U, y # x
        PROVE  Sum(f, U) = f[y] + Sum(f, U \ {y})
    <3>1. y \in rest /\ x \in U \ {y} /\ rest \ {y} = (U \ {y}) \ {x}
      BY <2>1, <2>5 DEF rest
    <3>2. Good(U \ {y}) /\ Good(rest \ {y})
      <4>1. U \ {y} # U /\ rest \ {y} # U /\ rest \ {y} \subseteq U
        BY <2>1, <2>5 DEF rest
      <4> HIDE DEF Good
      <4> QED BY <4>1, <1>4
    <3>3. Sum(f, rest) = f[y] + Sum(f, rest \ {y})
      BY <2>3, <3>1
    <3>4. Sum(f, U \ {y}) = f[x] + Sum(f, rest \ {y})
      BY <3>1, <3>2
    <3>5. f[x] \in Nat /\ f[y] \in Nat /\ Sum(f, rest \ {y}) \in Nat
      BY <1>3, <2>1, <3>2
    <3>6. QED
      BY <2>2, <3>3, <3>4, <3>5
  <2>6. Good(U)
    BY <2>2, <2>4, <2>5 DEF rest
  <2>7. QED
    BY <2>6
<1>7. QED
  BY <1>5, <1>6

(* Counts of finitely many events are numbers.                             *)
LEMMA CountsTyped ==
    ASSUME NEW E, IsFiniteSet(E)
    PROVE  /\ Counts(E) \in [Keys -> Nat]
           /\ \A k \in Keys : Counts(E)[k] = Cardinality({e \in E : KeyOf(e) = k})
<1>1. ASSUME NEW k \in Keys PROVE Cardinality({e \in E : KeyOf(e) = k}) \in Nat
  BY FS_Subset, FS_CardinalityType
<1>2. QED
  BY <1>1 DEF Counts

(* Rows that count events sum up to the events of these rows.              *)
LEMMA SumOfCounts ==
    ASSUME NEW E, IsFiniteSet(E), NEW R \in SUBSET Keys, IsFiniteSet(R)
    PROVE  Sum(Counts(E), R) = Cardinality({e \in E : KeyOf(e) \in R})
<1> DEFINE In(U) == {e \in E : KeyOf(e) \in U}
           bad == {U \in SUBSET R : Sum(Counts(E), U) # Cardinality(In(U))}
<1> SUFFICES ASSUME bad # {} PROVE FALSE
  OBVIOUS
<1>1. \A U \in bad : IsFiniteSet(U)
  BY FS_Subset
<1>2. PICK U \in bad : \A V \in bad : V \subseteq U => V = U
  <2> HIDE DEF bad
  <2> QED BY <1>1, SmallestSet
<1>3. U \in SUBSET Keys /\ U \in SUBSET R /\ IsFiniteSet(U)
  BY <1>1
<1>4. CASE U = {}
  BY <1>3, <1>4, SumStep, FS_EmptySet
<1>5. ASSUME NEW k \in U PROVE FALSE
  <2> DEFINE V == U \ {k}
             one == {e \in E : KeyOf(e) = k}
  <2>1. Sum(Counts(E), V) = Cardinality(In(V))
    <3>1. V \in SUBSET R /\ V \subseteq U /\ V # U
      BY <1>3
    <3> QED BY <1>2, <3>1
  <2>2. Sum(Counts(E), U) = Counts(E)[k] + Sum(Counts(E), V)
    BY <1>3, CountsTyped, SumOfMore
  <2>3. Counts(E)[k] = Cardinality(one)
    BY <1>3, CountsTyped
  <2>4. /\ IsFiniteSet(one) /\ IsFiniteSet(In(V)) /\ IsFiniteSet(one \cap In(V))
        /\ In(U) = one \cup In(V) /\ one \cap In(V) = {}
    <3>1. one \subseteq E /\ In(V) \subseteq E
      OBVIOUS
    <3>2. In(U) = one \cup In(V) /\ one \cap In(V) = {}
      OBVIOUS
    <3> HIDE DEF one, In
    <3> QED BY <3>1, <3>2, FS_Subset, FS_EmptySet
  <2> HIDE DEF one, In, V
  <2>5. Cardinality(In(U)) = Cardinality(one) + Cardinality(In(V)) - Cardinality(one \cap In(V))
    BY <2>4, FS_Union
  <2>6. /\ Cardinality(one) \in Nat /\ Cardinality(In(V)) \in Nat
        /\ Cardinality(one \cap In(V)) = 0
    BY <2>4, FS_CardinalityType, FS_EmptySet
  <2>7. Sum(Counts(E), U) = Cardinality(In(U))
    BY <2>1, <2>2, <2>3, <2>5, <2>6
  <2>8. QED
    BY <2>7
<1>6. QED
  BY <1>4, <1>5
-----------------------------------------------------------------------------
(* The tables of a database.                                               *)
Tables(d) ==
    d \in [version : {d.version}, details : {d.details}, hourly : {d.hourly},
          latency : {d.latency}, known : {d.known}, cutoff : {d.cutoff},
          sequence : {d.sequence}]

(* The retention manager holds the clock it read.                          *)
Retentions ==
    {Off} \union [at : {"startup", "waiting", "cleaning", "ended"}, now : Nat,
                  stopping : BOOLEAN]

(* Until the upgrade nothing has happened to the old database: no manager  *)
(* runs, and it holds what it held at first.                               *)
NotUpgraded ==
    db.version = 3 =>
        /\ retention = Off
        /\ \E history \in Histories, cutoff \in Int \union {None} :
              /\ recorded = Recorded(history)
              /\ \E kept \in Remains(history, cutoff) :
                    db = VersionThree(history, kept, cutoff)

(* Times are numbers.                                                      *)
Timed ==
    /\ now \in Nat
    /\ \A e \in recorded : e.at \in Int

(* What every step preserves; it implies DeletedBelowCutoff.               *)
DetailInv ==
    /\ Tables(db) /\ db.version \in {3, 4} /\ db.cutoff \in Int \union {None}
    /\ retention \in Retentions
    /\ Timed /\ NotUpgraded /\ DeletedBelowCutoff

(* What a row is after the bucket is replaced.                             *)
LEMMA Rebucketed ==
    ASSUME NEW history \in Histories, NEW e \in history, NEW b
    PROVE  [e EXCEPT !.bucket = b].at = e.at /\ e.at \in Nat
BY HistoriesAreOld, UsageAssumption

(* The tables of the two databases there are at first.                     *)
LEMMA FirstTables ==
    /\ Tables(Empty) /\ Empty.version = 4 /\ Empty.cutoff = None /\ Empty.details = {}
    /\ Empty.hourly = Counts({}) /\ Empty.latency = Counts({})
    /\ Empty.known = {} /\ Empty.sequence = 0
    /\ \A history, kept, cutoff :
          LET d == VersionThree(history, kept, cutoff) IN
          /\ Tables(d)
          /\ d.version = 3 /\ d.cutoff = cutoff /\ d.details = kept
          /\ d.hourly = Counts(history) /\ d.latency = Counts(Successes(history))
          /\ d.known = {} /\ d.sequence = Cardinality(history)
BY DEF Tables, Empty, VersionThree

(* The models known at the upgrade are those that have succeeded.          *)
LEMMA KnownHaveSucceeded ==
    ASSUME NEW history \in Histories, NEW kept, NEW cutoff
    PROVE  KnownAtUpgrade(VersionThree(history, kept, cutoff))
             = {f.bucket : f \in Successes(history)}
<1> DEFINE d == VersionThree(history, kept, cutoff)
<1>1. d.hourly = Counts(history)
  BY FirstTables
<1>2. ASSUME NEW k \in Keys
      PROVE  Counts(history)[k] > 0 <=> \E e \in history : KeyOf(e) = k
  <2> DEFINE E == {e \in history : KeyOf(e) = k}
  <2>1. IsFiniteSet(E)
    BY HistoriesAreOld, FS_Subset
  <2>2. Cardinality(E) \in Nat /\ (Cardinality(E) = 0 <=> E = {})
    BY <2>1, FS_CardinalityType, FS_EmptySet
  <2>3. Counts(history)[k] = Cardinality(E)
    BY DEF Counts
  <2>4. Counts(history)[k] > 0 <=> E # {}
    BY <2>2, <2>3
  <2>5. QED
    BY <2>4
<1>3. ASSUME NEW f \in history PROVE KeyOf(f) \in Keys
  BY HistoriesAreOld DEF KeyOf, Keys, Hours, Buckets
<1>4. \A k \in Keys : d.hourly[k] > 0 <=> \E e \in history : KeyOf(e) = k
  BY <1>1, <1>2
<1>5. ASSUME NEW f \in history
      PROVE  KeyOf(f).bucket = f.bucket /\ KeyOf(f).outcome = f.outcome
  BY DEF KeyOf
<1>6. ASSUME NEW b
      PROVE  b \in KnownAtUpgrade(d) <=> \E f \in Successes(history) : f.bucket = b
  BY <1>3, <1>4, <1>5 DEF KnownAtUpgrade, Successes
<1>7. QED
  BY <1>6 DEF KnownAtUpgrade

(* What the transactions leave of the details and the cutoff.              *)
LEMMA UpgradedTables ==
    ASSUME NEW d, Tables(d)
    PROVE  /\ Tables(Upgraded(d)) /\ Upgraded(d).version = 4
           /\ Upgraded(d).cutoff = d.cutoff
           /\ Upgraded(d).details =
                {[e EXCEPT !.bucket = UpgradedBucket(KnownAtUpgrade(d), e)] :
                    e \in d.details}
           /\ Upgraded(d).hourly = UpgradedRows(KnownAtUpgrade(d), d.hourly)
           /\ Upgraded(d).latency = UpgradedRows(KnownAtUpgrade(d), d.latency)
           /\ Upgraded(d).known = KnownAtUpgrade(d)
           /\ Upgraded(d).sequence = d.sequence
BY DEF Tables, Upgraded

(* An event adds a detail.                                                 *)
LEMMA EventTables ==
    ASSUME NEW d, Tables(d), NEW e, NEW listed
    PROVE  /\ Tables(WithEvent(d, e, listed))
           /\ WithEvent(d, e, listed).version = d.version
           /\ WithEvent(d, e, listed).cutoff = d.cutoff
           /\ WithEvent(d, e, listed).details = d.details \union {e}
BY DEF Tables, WithEvent

(* It is the last one, one more in its row and, a success, in the          *)
(* histogram, and its model may become known.                              *)
LEMMA EventSequence ==
    ASSUME NEW d, Tables(d), NEW e, NEW listed
    PROVE  WithEvent(d, e, listed).sequence = e.id
BY DEF Tables, WithEvent

(* It counts once in its row.                                              *)
LEMMA EventHourly ==
    ASSUME NEW d, Tables(d), NEW e, NEW listed
    PROVE  WithEvent(d, e, listed).hourly = [d.hourly EXCEPT ![KeyOf(e)] = @ + 1]
BY DEF Tables, WithEvent

(* A success is a sample of the histogram.                                 *)
LEMMA EventLatency ==
    ASSUME NEW d, Tables(d), NEW e, NEW listed
    PROVE  WithEvent(d, e, listed).latency
             = [d.latency EXCEPT ![KeyOf(e)] = IF e.outcome = "success" THEN @ + 1 ELSE @]
BY DEF Tables, WithEvent

(* Its model may become known.                                             *)
LEMMA EventKnown ==
    ASSUME NEW d, Tables(d), NEW e, NEW listed
    PROVE  WithEvent(d, e, listed).known
             = IF Registers(e, listed) THEN d.known \union {e.bucket} ELSE d.known
BY DEF Tables, WithEvent

(* A batch takes details and moves the cutoff on.                          *)
LEMMA CleanedTables ==
    ASSUME NEW d, Tables(d), NEW cutoff
    PROVE  /\ Tables(CleanedUp(d, cutoff))
           /\ CleanedUp(d, cutoff).version = d.version
           /\ CleanedUp(d, cutoff).cutoff = Later(d.cutoff, cutoff)
           /\ CleanedUp(d, cutoff).details = d.details \ Batch(d, cutoff)
           /\ CleanedUp(d, cutoff).hourly = d.hourly
           /\ CleanedUp(d, cutoff).latency = d.latency
           /\ CleanedUp(d, cutoff).known = d.known
           /\ CleanedUp(d, cutoff).sequence = d.sequence
BY DEF Tables, CleanedUp

(* What the upgrade makes of the details E.                                *)
Renamed(known, E) == {[e EXCEPT !.bucket = UpgradedBucket(known, e)] : e \in E}

(* The upgrade gives every detail the bucket of its hourly row.            *)
LEMMA UpgradeKeepsDetails ==
    ASSUME NEW history \in Histories, NEW kept, NEW cutoff,
           NEW d, d = VersionThree(history, kept, cutoff)
    PROVE  /\ Upgraded(d).details = Renamed(KnownAtUpgrade(d), kept)
           /\ Recorded(history) = Renamed(KnownAtUpgrade(d), history)
<1> DEFINE known == KnownAtUpgrade(d)
<1>1. Tables(d) /\ d.details = kept
  BY FirstTables
<1>2. known = {f.bucket : f \in Successes(history)}
  BY KnownHaveSucceeded
<1>3. ASSUME NEW e \in history
      PROVE  UpgradedBucket(known, e) =
               IF e.outcome = "success"
                    \/ \E f \in Successes(history) : f.bucket = e.bucket
               THEN e.bucket ELSE Other
  BY <1>2 DEF UpgradedBucket
<1>4. Upgraded(d).details = Renamed(known, kept)
  BY <1>1, UpgradedTables DEF Renamed
<1>5. Recorded(history) = Renamed(known, history)
  <2> HIDE DEF known
  <2> QED BY <1>3 DEF Recorded, Renamed
<1>6. QED
  BY <1>4, <1>5

-----------------------------------------------------------------------------
(* At first what was deleted was deleted by an older program.              *)
LEMMA DetailInit == Init => DetailInv
<1> SUFFICES ASSUME Init PROVE DetailInv
  OBVIOUS
<1>1. now \in Nat
  BY UsageAssumption DEF Init
<1>2. retention \in Retentions
  BY DEF Init, Retentions
<1>3. CASE db = Empty /\ recorded = {}
  BY <1>1, <1>2, <1>3, FirstTables DEF DetailInv, Timed, NotUpgraded, DeletedBelowCutoff
<1>4. ASSUME NEW history \in Histories,
             NEW cutoff \in {None} \union {t - Retention : t \in 0..now},
             NEW kept \in Remains(history, cutoff),
             db = VersionThree(history, kept, cutoff), recorded = Recorded(history)
      PROVE  DetailInv
  <2>1. /\ Tables(db) /\ db.version = 3 /\ db.cutoff = cutoff
        /\ cutoff \in Int \union {None}
    BY <1>1, <1>4, FirstTables, UsageAssumption
  <2>2. ASSUME NEW e \in recorded PROVE e.at \in Int
    <3>1. PICK f \in history : \E b : e = [f EXCEPT !.bucket = b]
      BY <1>4 DEF Recorded
    <3>2. e.at \in Nat
      BY <3>1, Rebucketed
    <3>3. QED
      BY <3>2
  <2>3. NotUpgraded
    BY <1>4, <2>1 DEF NotUpgraded, Init
  <2>4. QED
    BY <1>1, <1>2, <2>1, <2>2, <2>3 DEF DetailInv, Timed, DeletedBelowCutoff
<1>5. QED
  BY <1>3, <1>4 DEF Init

(* A step of the retention manager that deletes nothing.                   *)
LEMMA ManagerKeeps ==
    ASSUME DetailInv, UNCHANGED <<now, db, recorded>>, retention' \in Retentions,
           db.version = 4
    PROVE  DetailInv'
BY DEF DetailInv, Timed, NotUpgraded, DeletedBelowCutoff

(* A batch: what it deletes is below the cutoff it leaves on record.       *)
LEMMA BatchKeeps ==
    ASSUME DetailInv, CleanUpBatch
    PROVE  DetailInv'
<1> DEFINE cutoff == retention.now - Retention
<1>1. db.version = 4
  BY DEF DetailInv, NotUpgraded, CleanUpBatch, Cleaning, Off
<1>2. retention \in [at : {"startup", "waiting", "cleaning", "ended"}, now : Nat,
                     stopping : BOOLEAN]
  BY DEF DetailInv, Retentions, CleanUpBatch, Cleaning, Off
<1>3. cutoff \in Int
  BY <1>2, UsageAssumption
<1>4. db' = CleanedUp(db, cutoff) /\ UNCHANGED <<now, recorded>>
  BY DEF CleanUpBatch
<1>5. retention' \in Retentions
  BY <1>2 DEF CleanUpBatch, Retentions
<1>6. /\ Tables(db') /\ db'.version = 4 /\ db'.cutoff = Later(db.cutoff, cutoff)
      /\ db'.details = db.details \ Batch(db, cutoff)
  BY <1>1, <1>4, CleanedTables DEF DetailInv
<1> HIDE DEF cutoff
<1>7. /\ db'.cutoff \in Int /\ cutoff <= db'.cutoff
      /\ db.cutoff # None => db.cutoff <= db'.cutoff
  BY <1>3, <1>6 DEF DetailInv, Later
<1>8. db'.details \subseteq recorded
  BY <1>1, <1>6 DEF DetailInv, DeletedBelowCutoff
<1>9. ASSUME NEW e \in recorded, e \notin db'.details
      PROVE  e.at < db'.cutoff
  <2>1. e.at \in Int
    BY DEF DetailInv, Timed
  <2>2. CASE e \in db.details
    <3>1. e.at < cutoff
      BY <1>6, <1>9, <2>2 DEF Batch
    <3>2. QED
      BY <1>3, <1>7, <2>1, <3>1
  <2>3. CASE e \notin db.details
    <3>1. db.cutoff # None /\ e.at < db.cutoff
      BY <1>1, <2>3 DEF DetailInv, DeletedBelowCutoff
    <3>2. db.cutoff \in Int
      BY <3>1 DEF DetailInv
    <3>3. QED
      BY <1>7, <2>1, <3>1, <3>2
  <2>4. QED
    BY <2>2, <2>3
<1>10. db'.cutoff # None
  BY <1>7, UsageAssumption
<1>11. DeletedBelowCutoff'
  BY <1>4, <1>8, <1>9, <1>10 DEF DeletedBelowCutoff
<1>12. QED
  BY <1>4, <1>5, <1>6, <1>7, <1>11 DEF DetailInv, Timed, NotUpgraded

(* Every step preserves DetailInv.                                         *)
LEMMA DetailStep == DetailInv /\ [Next]_vars => DetailInv'
<1> SUFFICES ASSUME DetailInv, [Next]_vars PROVE DetailInv'
  OBVIOUS
<1>1. CASE Upgrade
  <2>1. PICK history \in Histories, cutoff \in Int \union {None} :
           /\ recorded = Recorded(history)
           /\ \E kept \in Remains(history, cutoff) :
                 db = VersionThree(history, kept, cutoff)
    BY <1>1 DEF Upgrade, DetailInv, NotUpgraded
  <2>2. PICK kept \in Remains(history, cutoff) :
           db = VersionThree(history, kept, cutoff)
    BY <2>1
  <2>3. db' = Upgraded(db) /\ UNCHANGED <<now, recorded, retention>>
    BY <1>1 DEF Upgrade
  <2> DEFINE known == KnownAtUpgrade(db)
             R(e) == [e EXCEPT !.bucket = UpgradedBucket(known, e)]
  <2>4. /\ kept \in SUBSET history
        /\ \A e \in history \ kept : cutoff # None /\ e.at < cutoff
    BY DEF Remains
  <2>5. /\ db'.details = {R(e) : e \in kept}
        /\ recorded = {R(e) : e \in history}
    <3>1. /\ db'.details = Renamed(known, kept)
          /\ recorded = Renamed(known, history)
      BY <2>1, <2>2, <2>3, UpgradeKeepsDetails
    <3>2. QED
      BY <3>1 DEF Renamed
  <2>6. /\ Tables(db') /\ db'.version = 4 /\ db'.cutoff = cutoff
    BY <2>2, <2>3, UpgradedTables, FirstTables DEF DetailInv
  <2>7. \A e \in history : R(e).at = e.at
    BY Rebucketed
  <2> HIDE DEF R
  <2>8. DeletedBelowCutoff'
    BY <2>3, <2>4, <2>5, <2>6, <2>7 DEF DeletedBelowCutoff
  <2>9. QED
    BY <2>3, <2>6, <2>8 DEF DetailInv, Timed, NotUpgraded
<1>2. CASE Tick
  BY <1>2 DEF Tick, DetailInv, Timed, NotUpgraded, DeletedBelowCutoff
<1>3. ASSUME NEW at \in Recent, NEW model \in Models, NEW outcome \in Outcomes,
             NEW listed \in BOOLEAN, RecordEvent(at, model, outcome, listed)
      PROVE  DetailInv'
  <2>1. PICK e : /\ e.at = at
                 /\ db' = WithEvent(db, e, listed)
                 /\ recorded' = recorded \union {e}
    BY <1>3 DEF RecordEvent
  <2>2. UNCHANGED <<now, retention>> /\ db.version = 4
    BY <1>3 DEF RecordEvent
  <2>3. at \in Int
    BY UsageAssumption DEF Recent
  <2>4. /\ Tables(db') /\ db'.version = 4 /\ db'.cutoff = db.cutoff
        /\ db'.details = db.details \union {e}
    BY <2>1, <2>2, EventTables DEF DetailInv
  <2>5. QED
    BY <2>1, <2>2, <2>3, <2>4 DEF DetailInv, Timed, NotUpgraded, DeletedBelowCutoff
<1>4. ASSUME Startup \/ CleanUpFails \/ WaitElapses \/ Shutdown \/ TaskReturns \/ Crash
      PROVE  DetailInv'
  <2>1. UNCHANGED <<now, db, recorded>>
    BY <1>4 DEF Startup, CleanUpFails, WaitElapses, Shutdown, TaskReturns, Crash
  <2>2. db.version = 4
    BY <1>4 DEF DetailInv, NotUpgraded, Startup, CleanUpFails, Cleaning, WaitElapses,
                Shutdown, Up, TaskReturns, Crash, Off
  <2>3. retention' \in Retentions
    <3> DEFINE Held == [at : {"startup", "waiting", "cleaning", "ended"}, now : Nat,
                        stopping : BOOLEAN]
    <3>1. now \in Nat /\ retention \in Held \union {Off} /\ Off.at = "off"
      BY DEF DetailInv, Timed, Retentions, Off
    <3>2. ASSUME NEW h \in Held
          PROVE  /\ [h EXCEPT !.at = "waiting", !.now = 0] \in Held
                 /\ [h EXCEPT !.at = "cleaning", !.now = now] \in Held
                 /\ [h EXCEPT !.stopping = TRUE] \in Held
      BY <3>1
    <3>3. [at |-> "startup", now |-> now, stopping |-> FALSE] \in Held
      BY <3>1
    <3>4. retention \in Held \/ retention = Off
      BY <3>1
    <3> HIDE DEF Held
    <3>5. CASE Startup \/ TaskReturns \/ Crash
      BY <3>3, <3>5 DEF Startup, TaskReturns, Crash, Retentions, Held
    <3>6. CASE CleanUpFails \/ WaitElapses \/ Shutdown
      <4>1. retention \in Held
        BY <3>1, <3>4, <3>6 DEF CleanUpFails, Cleaning, WaitElapses, Shutdown, Up
      <4>2. retention' \in Held \union {Off}
        BY <3>2, <3>6, <4>1 DEF CleanUpFails, WaitElapses, Shutdown
      <4>3. QED
        BY <4>2 DEF Retentions, Held
    <3>7. QED
      BY <1>4, <3>5, <3>6
  <2>4. QED
    BY <2>1, <2>2, <2>3, ManagerKeeps
<1>5. CASE CleanUpBatch
  BY <1>5, BatchKeeps
<1>6. CASE UNCHANGED <<now, db, recorded, retention>>
  BY <1>6 DEF DetailInv, Timed, NotUpgraded, DeletedBelowCutoff
<1>7. ASSUME NEW r \in Readers,
             \/ \E list \in {"values", "events"}, range \in Ranges, clock \in Soon :
                   FirstPage(r, list, range, clock)
             \/ NextPage(r) \/ PageRefused(r) \/ LeavePages(r)
      PROVE  UNCHANGED <<now, db, recorded, retention>>
  BY <1>7 DEF FirstPage, NextPage, PageRefused, LeavePages
<1>8. QED
  BY <1>1, <1>2, <1>3, <1>4, <1>5, <1>6, <1>7 DEF Next, vars

(* Whatever batches a crash or a failure cuts short, an event is either    *)
(* among the details or below the cutoff on record (cleanup_expired_batch  *)
(* deletes and moves the cutoff in one transaction).                       *)
THEOREM CutoffTells == Spec => []DeletedBelowCutoff
<1>1. Init => DetailInv
  BY DetailInit
<1>2. DetailInv /\ [Next]_vars => DetailInv'
  BY DetailStep
<1>3. DetailInv => DeletedBelowCutoff
  BY DEF DetailInv
<1>4. QED
  BY <1>1, <1>2, <1>3, PTL DEF Spec
(* The keys of the hourly rows are finitely many.                          *)
LEMMA KeysFinite == IsFiniteSet(Keys)
<1>1. IsFiniteSet(Hours)
  <2> DEFINE f == [t \in 0..MaxTime |-> HourOf(t)]
  <2>1. f \in Surjection(0..MaxTime, Hours)
    BY DEF Surjection, Hours
  <2>2. IsFiniteSet(0..MaxTime)
    BY FS_Interval, UsageAssumption
  <2>3. QED
    BY <2>1, <2>2, FS_Surjection
<1>2. IsFiniteSet(Buckets)
  <2>1. IsFiniteSet(Models \union OldModels)
    BY UsageAssumption, FS_Union
  <2>2. IsFiniteSet({Other})
    BY FS_Singleton
  <2>3. QED
    BY <2>1, <2>2, FS_Union DEF Buckets
<1>3. IsFiniteSet(Outcomes)
  <2>1. IsFiniteSet({"success"}) /\ IsFiniteSet({"failure"})
    BY FS_Singleton
  <2>2. Outcomes = {"success"} \union {"failure"}
    BY DEF Outcomes
  <2>3. QED
    BY <2>1, <2>2, FS_Union
<1> DEFINE P == Hours \X (Buckets \X Outcomes)
           f == [p \in P |-> [hour |-> p[1], bucket |-> p[2][1], outcome |-> p[2][2]]]
<1>4. IsFiniteSet(P)
  BY <1>1, <1>2, <1>3, FS_Product
<1>5. f \in Surjection(P, Keys)
  <2>1. f \in [P -> Keys]
    BY DEF Keys
  <2>2. ASSUME NEW k \in Keys PROVE \E p \in P : f[p] = k
    <3>1. <<k.hour, <<k.bucket, k.outcome>>>> \in P
      BY DEF Keys
    <3>2. f[<<k.hour, <<k.bucket, k.outcome>>>>] = k
      BY <3>1 DEF Keys
    <3>3. QED
      BY <3>1, <3>2
  <2> HIDE DEF f, P
  <2>3. QED
    BY <2>1, <2>2 DEF Surjection
<1>6. QED
  <2> HIDE DEF f, P
  <2> QED BY <1>4, <1>5, FS_Surjection

(* Two events of a history have two numbers.                               *)
LEMMA Numbered ==
    ASSUME NEW history \in Histories, NEW e \in history, NEW g \in history,
           e.id = g.id
    PROVE  e = g
<1> DEFINE n == Cardinality(history)
           f == [x \in history |-> x.id]
<1>1. IsFiniteSet(history) /\ n \in Nat
  BY HistoriesAreOld, FS_CardinalityType
<1>2. {x.id : x \in history} = 1..n
  BY HistoriesAreOld
<1>3. f \in Surjection(history, 1..n)
  BY <1>2 DEF Surjection
<1>4. Cardinality(history) = Cardinality(1..n)
  BY <1>1, FS_Interval
<1>5. f \in Injection(history, 1..n)
  <2> HIDE DEF f
  <2> QED BY <1>1, <1>3, <1>4, FS_SurjSameCardinalityImpliesInj
<1>6. QED
  BY <1>5 DEF Injection, IsInjective

(* An upgraded row counts the events whose bucket has become its own.      *)
LEMMA UpgradedCounts ==
    ASSUME NEW history \in Histories, NEW E \in SUBSET history, NEW known
    PROVE  UpgradedRows(known, Counts(E)) = Counts(Renamed(known, E))
<1> DEFINE R(e) == [e EXCEPT !.bucket = UpgradedBucket(known, e)]
           img == {R(e) : e \in E}
<1>1. IsFiniteSet(E)
  BY HistoriesAreOld, FS_Subset
<1>2. ASSUME NEW e \in E
      PROVE  /\ R(e).id = e.id /\ R(e).at = e.at /\ R(e).outcome = e.outcome
             /\ R(e).bucket = UpgradedBucket(known, e)
             /\ KeyOf(e) \in Keys
             /\ UpgradedBucket(known, KeyOf(e)) = UpgradedBucket(known, e)
  <2>1. e \in [id : Nat, at : 0..MaxTime, bucket : OldModels, outcome : Outcomes]
    BY HistoriesAreOld
  <2>2. KeyOf(e) \in Keys /\ KeyOf(e).bucket = e.bucket /\ KeyOf(e).outcome = e.outcome
    BY <2>1 DEF KeyOf, Keys, Hours, Buckets
  <2>3. QED
    BY <2>1, <2>2 DEF UpgradedBucket
<1>3. ASSUME NEW k \in Keys
      PROVE  UpgradedRows(known, Counts(E))[k] = Counts(img)[k]
  <2> DEFINE old == {row \in Keys : /\ row.hour = k.hour
                                    /\ row.outcome = k.outcome
                                    /\ UpgradedBucket(known, row) = k.bucket}
             from == {e \in E : KeyOf(e) \in old}
             to == {g \in img : KeyOf(g) = k}
             f == [e \in from |-> R(e)]
  <2>1. UpgradedRows(known, Counts(E))[k] = Sum(Counts(E), old)
    BY DEF UpgradedRows
  <2>2. Sum(Counts(E), old) = Cardinality(from)
    <3>1. old \in SUBSET Keys /\ IsFiniteSet(old)
      BY KeysFinite, FS_Subset
    <3> HIDE DEF old
    <3> QED BY <1>1, <3>1, SumOfCounts
  <2>3. Counts(img)[k] = Cardinality(to)
    BY DEF Counts
  <2>4. ASSUME NEW e \in E PROVE e \in from <=> KeyOf(R(e)) = k
    <3>1. KeyOf(e) \in Keys /\ KeyOf(e).hour = HourOf(e.at) /\ KeyOf(e).outcome = e.outcome
      BY <1>2 DEF KeyOf
    <3>2. KeyOf(R(e)) = [hour |-> HourOf(e.at), bucket |-> UpgradedBucket(known, e),
                         outcome |-> e.outcome]
      BY <1>2 DEF KeyOf
    <3>3. k = [hour |-> k.hour, bucket |-> k.bucket, outcome |-> k.outcome]
      BY DEF Keys
    <3>4. e \in from <=> /\ HourOf(e.at) = k.hour /\ e.outcome = k.outcome
                         /\ UpgradedBucket(known, e) = k.bucket
      BY <1>2, <3>1
    <3>5. QED
      BY <3>2, <3>3, <3>4
  <2>5. f \in Bijection(from, to)
    <3>1. f \in [from -> to]
      BY <2>4
    <3>2. ASSUME NEW e \in from, NEW g \in from, f[e] = f[g] PROVE e = g
      <4>1. R(e) = R(g) /\ e \in E /\ g \in E
        BY <3>2
      <4>2. e.id = g.id
        BY <1>2, <4>1
      <4>3. QED
        BY <4>1, <4>2, Numbered
    <3>3. ASSUME NEW g \in to PROVE \E e \in from : f[e] = g
      BY <2>4
    <3> HIDE DEF f, from, to
    <3>4. QED
      BY <3>1, <3>2, <3>3 DEF Bijection, Injection, IsInjective, Surjection
  <2>6. Cardinality(to) = Cardinality(from)
    <3>1. IsFiniteSet(from)
      BY <1>1, FS_Subset
    <3>2. ExistsBijection(from, to)
      BY <2>5 DEF ExistsBijection
    <3> HIDE DEF from, to
    <3> QED BY <3>1, <3>2, FS_Bijection
  <2>7. QED
    BY <2>1, <2>2, <2>3, <2>6
<1>4. UpgradedRows(known, Counts(E)) = [k \in Keys |-> UpgradedRows(known, Counts(E))[k]]
  BY DEF UpgradedRows
<1>5. Counts(img) = [k \in Keys |-> Counts(img)[k]]
  BY DEF Counts
<1>6. img = Renamed(known, E)
  BY DEF Renamed
<1> HIDE DEF img
<1>7. QED
  BY <1>3, <1>4, <1>5, <1>6

(* What recorded is before and at the upgrade.                             *)
LEMMA RecordedRows ==
    ASSUME NEW history \in Histories
    PROVE  /\ IsFiniteSet(Recorded(history)) /\ Recorded(history) \subseteq Rows
           /\ Cardinality(Recorded(history)) = Cardinality(history)
           /\ \A g \in Recorded(history) : g.id \in 1..Cardinality(history)
<1> DEFINE R(e) == [e EXCEPT !.bucket =
                       IF e.outcome = "success"
                            \/ \E f \in Successes(history) : f.bucket = e.bucket
                       THEN @ ELSE Other]
           f == [e \in history |-> R(e)]
           img == Recorded(history)
<1>1. img = {R(e) : e \in history}
  BY DEF Recorded
<1>2. ASSUME NEW e \in history
      PROVE  R(e) \in Rows /\ R(e).id = e.id /\ e.id \in 1..Cardinality(history)
  <2>1. e \in [id : Nat, at : 0..MaxTime, bucket : OldModels, outcome : Outcomes]
    BY HistoriesAreOld
  <2>2. e.id \in 1..Cardinality(history)
    BY HistoriesAreOld
  <2>3. QED
    BY <2>1, <2>2 DEF Rows, Buckets
<1>3. f \in Bijection(history, img)
  <2>1. f \in [history -> img]
    BY <1>1
  <2>2. ASSUME NEW e \in history, NEW g \in history, f[e] = f[g] PROVE e = g
    <3>1. R(e) = R(g)
      BY <2>2
    <3>2. e.id = R(e).id /\ g.id = R(g).id
      BY <1>2
    <3> HIDE DEF R
    <3>3. QED
      BY <3>1, <3>2, Numbered
  <2>3. ASSUME NEW g \in img PROVE \E e \in history : f[e] = g
    BY <1>1
  <2> HIDE DEF f, img
  <2>4. QED
    BY <2>1, <2>2, <2>3 DEF Bijection, Injection, IsInjective, Surjection
<1>4. IsFiniteSet(img) /\ Cardinality(img) = Cardinality(history)
  <2>1. ExistsBijection(history, img)
    BY <1>3 DEF ExistsBijection
  <2>2. IsFiniteSet(history)
    BY HistoriesAreOld
  <2> HIDE DEF img
  <2> QED BY <2>1, <2>2, FS_Bijection
<1>5. ASSUME NEW g \in img PROVE g \in Rows /\ g.id \in 1..Cardinality(history)
  <2>1. PICK e \in history : g = R(e)
    BY <1>1
  <2> HIDE DEF R
  <2>2. QED
    BY <1>2, <2>1
<1>6. QED
  BY <1>4, <1>5

(* The successes of the upgraded history are those of the history.         *)
LEMMA SuccessesUpgraded ==
    ASSUME NEW history \in Histories, NEW known
    PROVE  Successes(Renamed(known, history)) = Renamed(known, Successes(history))
<1>1. ASSUME NEW e \in history
      PROVE  [e EXCEPT !.bucket = UpgradedBucket(known, e)].outcome = e.outcome
  BY HistoriesAreOld
<1>2. QED
  BY <1>1 DEF Successes, Renamed

(* One more event is one more in its row.                                  *)
LEMMA CountsWithOne ==
    ASSUME NEW E, IsFiniteSet(E), NEW e, e \notin E, KeyOf(e) \in Keys
    PROVE  Counts(E \union {e}) = [Counts(E) EXCEPT ![KeyOf(e)] = @ + 1]
<1>1. Counts(E) \in [Keys -> Nat]
  BY CountsTyped
<1>2. IsFiniteSet(E \union {e})
  BY FS_AddElement
<1>3. Counts(E \union {e}) \in [Keys -> Nat]
  BY <1>2, CountsTyped
<1>4. ASSUME NEW k \in Keys
      PROVE  Counts(E \union {e})[k]
               = IF k = KeyOf(e) THEN Counts(E)[k] + 1 ELSE Counts(E)[k]
  <2> DEFINE old == {x \in E : KeyOf(x) = k}
             new == {x \in E \union {e} : KeyOf(x) = k}
  <2>1. Counts(E)[k] = Cardinality(old) /\ Counts(E \union {e})[k] = Cardinality(new)
    BY DEF Counts
  <2>2. IsFiniteSet(old) /\ e \notin old
    BY FS_Subset
  <2>3. new = IF k = KeyOf(e) THEN old \union {e} ELSE old
    OBVIOUS
  <2> HIDE DEF old, new
  <2>4. QED
    BY <2>1, <2>2, <2>3, FS_AddElement
<1>5. QED
  BY <1>1, <1>3, <1>4

-----------------------------------------------------------------------------
(* With the details, the rows.                                             *)
HourlyInv == DetailInv /\ HourlyTellsAll /\ IsFiniteSet(recorded)

(* It holds at first, in an old database as in a new one.                  *)
LEMMA HourlyInit == Init => HourlyInv
<1> SUFFICES ASSUME Init PROVE HourlyInv
  OBVIOUS
<1>1. DetailInv
  BY DetailInit
<1>2. now \in 0..MaxTime
  BY UsageAssumption DEF Init
<1>3. Successes({}) = {} /\ IsFiniteSet({}) /\ Cardinality({}) = 0
  BY FS_EmptySet DEF Successes
<1>4. CASE db = Empty /\ recorded = {}
  <2>1. Counts({}) \in [Keys -> Nat]
    BY <1>3, CountsTyped
  <2>2. /\ db.version = 4 /\ db.cutoff = None /\ db.known = {} /\ db.sequence = 0
        /\ db.hourly = Counts({}) /\ db.latency = Counts({})
    BY <1>4, FirstTables
  <2>3. QED
    BY <1>1, <1>2, <1>3, <1>4, <2>1, <2>2 DEF HourlyInv, HourlyTellsAll, TypeOK
<1>5. ASSUME NEW history \in Histories, NEW kept, NEW cutoff,
             db = VersionThree(history, kept, cutoff), recorded = Recorded(history)
      PROVE  HourlyInv
  <2>1. /\ db.version = 3 /\ db.cutoff \in Int \union {None} /\ db.known = {}
        /\ db.sequence = Cardinality(history)
        /\ db.hourly = Counts(history) /\ db.latency = Counts(Successes(history))
    BY <1>1, <1>5, FirstTables DEF DetailInv
  <2>2. IsFiniteSet(history) /\ IsFiniteSet(Successes(history))
    <3>1. Successes(history) \in SUBSET history
      BY DEF Successes
    <3>2. QED
      BY <3>1, HistoriesAreOld, FS_Subset
  <2>3. db.hourly \in [Keys -> Nat] /\ db.latency \in [Keys -> Nat]
    BY <2>1, <2>2, CountsTyped
  <2>4. QED
    BY <1>1, <1>2, <1>5, <2>1, <2>3, RecordedRows DEF HourlyInv, HourlyTellsAll, TypeOK
<1>6. QED
  BY <1>4, <1>5 DEF Init

(* The upgrade brings the rows in line with the upgraded details.          *)
LEMMA UpgradeKeepsRows ==
    ASSUME HourlyInv, Upgrade
    PROVE  HourlyInv'
<1>1. DetailInv'
  BY DetailStep DEF HourlyInv, Next
<1>2. PICK history \in Histories, cutoff \in Int \union {None} :
         /\ recorded = Recorded(history)
         /\ \E kept \in Remains(history, cutoff) :
               db = VersionThree(history, kept, cutoff)
  BY DEF Upgrade, HourlyInv, DetailInv, NotUpgraded
<1>3. PICK kept \in SUBSET history : db = VersionThree(history, kept, cutoff)
  BY <1>2 DEF Remains
<1>4. db' = Upgraded(db) /\ UNCHANGED <<now, recorded>>
  BY DEF Upgrade
<1> DEFINE known == KnownAtUpgrade(db)
           S == Successes(history)
<1>5. /\ Tables(db) /\ db.hourly = Counts(history) /\ db.latency = Counts(S)
      /\ db.sequence = Cardinality(history)
  BY <1>3, FirstTables
<1>6. /\ db'.version = 4 /\ db'.cutoff = db.cutoff /\ db'.known = known
      /\ db'.sequence = db.sequence
      /\ db'.hourly = UpgradedRows(known, Counts(history))
      /\ db'.latency = UpgradedRows(known, Counts(S))
  BY <1>4, <1>5, UpgradedTables
<1>7. Renamed(known, history) = recorded
  BY <1>2, <1>3, UpgradeKeepsDetails
<1>8. Renamed(known, S) = Successes(recorded)
  BY <1>7, SuccessesUpgraded
<1>9. S \in SUBSET history
  BY DEF Successes
<1>10. db'.hourly = Counts(recorded) /\ db'.latency = Counts(Successes(recorded))
  <2> HIDE DEF S, known
  <2>1. UpgradedRows(known, Counts(history)) = Counts(Renamed(known, history))
    BY UpgradedCounts
  <2>2. UpgradedRows(known, Counts(S)) = Counts(Renamed(known, S))
    BY <1>9, UpgradedCounts, ZenonT(60)
  <2>3. QED
    BY <1>6, <1>7, <1>8, <2>1, <2>2, Zenon
<1>11. IsFiniteSet(recorded) /\ IsFiniteSet(Successes(recorded))
  <2>1. Successes(recorded) \in SUBSET recorded
    BY DEF Successes
  <2>2. QED
    BY <2>1, FS_Subset DEF HourlyInv
<1>12. db'.hourly \in [Keys -> Nat] /\ db'.latency \in [Keys -> Nat]
  BY <1>10, <1>11, CountsTyped
<1>13. known \subseteq OldModels
  <2>1. known = {f.bucket : f \in S}
    BY <1>3, KnownHaveSucceeded
  <2>2. \A f \in S : f.bucket \in OldModels
    BY <1>9, HistoriesAreOld
  <2> HIDE DEF S, known
  <2>3. QED
    BY <2>1, <2>2
<1> HIDE DEF known, S
<1>14. QED
  BY <1>1, <1>4, <1>6, <1>10, <1>11, <1>12, <1>13 DEF HourlyInv, HourlyTellsAll, TypeOK

(* A recorded event is a new row of the details and one more in its hour.  *)
LEMMA EventKeepsRows ==
    ASSUME HourlyInv,
           NEW at \in Recent, NEW model \in Models, NEW outcome \in Outcomes,
           NEW listed \in BOOLEAN, RecordEvent(at, model, outcome, listed)
    PROVE  HourlyInv'
<1>1. DetailInv'
  BY DetailStep DEF HourlyInv, Next
<1> DEFINE New(e, bucket) ==
             /\ e = [id |-> db.sequence + 1, at |-> at, bucket |-> bucket, outcome |-> outcome]
             /\ db' = WithEvent(db, e, listed)
             /\ recorded' = recorded \union {e}
<1>0. PICK bucket \in ResolvedBuckets(db, model, listed) : \E e : New(e, bucket)
  BY DEF RecordEvent
<1>2. PICK e : New(e, bucket)
  BY <1>0
<1>3. UNCHANGED now /\ db.version = 4 /\ Tables(db)
  BY DEF RecordEvent, HourlyInv, DetailInv
<1>4. TypeOK /\ db.hourly = Counts(recorded) /\ db.latency = Counts(Successes(recorded))
  BY <1>3 DEF HourlyInv, HourlyTellsAll
<1>5. /\ db'.version = 4 /\ db'.cutoff = db.cutoff /\ db'.sequence = e.id
      /\ db'.hourly = [db.hourly EXCEPT ![KeyOf(e)] = @ + 1]
      /\ db'.latency = [db.latency EXCEPT ![KeyOf(e)] =
                           IF e.outcome = "success" THEN @ + 1 ELSE @]
      /\ db'.known = IF Registers(e, listed) THEN db.known \union {e.bucket} ELSE db.known
  <2>1. db' = WithEvent(db, e, listed) /\ Tables(db)
    BY <1>2, <1>3
  <2>2. db'.version = 4 /\ db'.cutoff = db.cutoff
    BY <1>3, <2>1, EventTables
  <2>3. db'.sequence = e.id
    BY <2>1, EventSequence
  <2>4. db'.hourly = [db.hourly EXCEPT ![KeyOf(e)] = @ + 1]
    BY <2>1, EventHourly
  <2>5. db'.latency = [db.latency EXCEPT ![KeyOf(e)] =
                          IF e.outcome = "success" THEN @ + 1 ELSE @]
    BY <2>1, EventLatency
  <2>6. db'.known = IF Registers(e, listed) THEN db.known \union {e.bucket} ELSE db.known
    BY <2>1, EventKnown
  <2>7. QED
    BY <2>2, <2>3, <2>4, <2>5, <2>6
<1>6. db.sequence \in Nat /\ IsFiniteSet(recorded)
  BY <1>4, FS_CardinalityType DEF TypeOK, HourlyInv
<1>7. /\ bucket \in Models \union OldModels \union {Other}
      /\ at \in 0..MaxTime
  BY <1>4 DEF ResolvedBuckets, TypeOK, Recent
<1>8. e \in Rows /\ KeyOf(e) \in Keys
  BY <1>2, <1>6, <1>7 DEF Rows, Buckets, KeyOf, Keys, Hours
<1>9. e \notin recorded
  <2>1. e.id = db.sequence + 1
    BY <1>2
  <2>2. \A g \in recorded : g.id <= db.sequence
    BY <1>4, <1>6 DEF TypeOK
  <2>3. QED
    BY <1>6, <2>1, <2>2
<1>10. Cardinality(recorded') = db'.sequence
  <2>1. Cardinality(recorded \union {e}) = Cardinality(recorded) + 1
    BY <1>6, <1>9, FS_AddElement
  <2>2. e.id = db.sequence + 1 /\ Cardinality(recorded) = db.sequence
    BY <1>2, <1>4 DEF TypeOK
  <2>3. QED
    BY <1>2, <1>5, <2>1, <2>2
<1>11. \A g \in recorded' : g.id \in 1..db'.sequence
  <2>1. e.id = db.sequence + 1 /\ db'.sequence = db.sequence + 1
    BY <1>2, <1>5
  <2>2. \A g \in recorded : g.id \in 1..db.sequence
    BY <1>4 DEF TypeOK
  <2>3. ASSUME NEW g \in recorded' PROVE g.id \in 1..db'.sequence
    BY <1>2, <1>6, <2>1, <2>2
  <2>4. QED
    BY <2>3
<1>12. db'.hourly = Counts(recorded')
  <2>1. Counts(recorded \union {e}) = [Counts(recorded) EXCEPT ![KeyOf(e)] = @ + 1]
    BY <1>6, <1>8, <1>9, CountsWithOne
  <2>2. QED
    BY <1>2, <1>4, <1>5, <2>1
<1>13. db'.latency = Counts(Successes(recorded'))
  <2>1. IsFiniteSet(Successes(recorded)) /\ e \notin Successes(recorded)
    <3>1. Successes(recorded) \in SUBSET recorded
      BY DEF Successes
    <3>2. QED
      BY <1>6, <1>9, <3>1, FS_Subset
  <2>2. CASE e.outcome = "success"
    <3>1. Successes(recorded') = Successes(recorded) \union {e}
      BY <1>2, <2>2 DEF Successes
    <3>2. Counts(Successes(recorded) \union {e})
            = [Counts(Successes(recorded)) EXCEPT ![KeyOf(e)] = @ + 1]
      BY <1>8, <2>1, CountsWithOne
    <3>3. db'.latency = [db.latency EXCEPT ![KeyOf(e)] = @ + 1]
      BY <1>5, <2>2
    <3>4. QED
      BY <1>4, <3>1, <3>2, <3>3
  <2>3. CASE e.outcome # "success"
    <3>1. Successes(recorded') = Successes(recorded)
      BY <1>2, <2>3 DEF Successes
    <3>2. db.latency \in [Keys -> Nat]
      BY <1>4 DEF TypeOK
    <3>3. QED
      BY <1>4, <1>5, <1>8, <2>3, <3>1, <3>2
  <2>4. QED
    BY <2>2, <2>3
<1>14. IsFiniteSet(recorded') /\ IsFiniteSet(Successes(recorded'))
  <2>1. IsFiniteSet(recorded')
    BY <1>2, <1>6, FS_AddElement
  <2>2. Successes(recorded') \in SUBSET recorded'
    BY DEF Successes
  <2>3. QED
    BY <2>1, <2>2, FS_Subset
<1>15. db'.hourly \in [Keys -> Nat] /\ db'.latency \in [Keys -> Nat]
  BY <1>12, <1>13, <1>14, CountsTyped
<1>16. db'.known \subseteq Models \union OldModels
  BY <1>2, <1>4, <1>5, <1>7 DEF Registers, TypeOK
<1>17. recorded' \subseteq Rows
  BY <1>2, <1>4, <1>8 DEF TypeOK
<1>18. now' \in 0..MaxTime /\ db'.cutoff \in Int \union {None}
  BY <1>3, <1>4, <1>5 DEF TypeOK
<1>19. TypeOK'
  BY <1>5, <1>10, <1>11, <1>15, <1>16, <1>17, <1>18 DEF TypeOK
<1>20. QED
  BY <1>1, <1>12, <1>13, <1>14, <1>19 DEF HourlyInv, HourlyTellsAll

(* What adds no event leaves the rows alone.                               *)
LEMMA RowsStay ==
    ASSUME HourlyInv, DetailInv', UNCHANGED recorded, now' \in 0..MaxTime,
           db'.version = db.version, db'.hourly = db.hourly,
           db'.latency = db.latency, db'.known = db.known, db'.sequence = db.sequence,
           db'.cutoff \in Int \union {None}
    PROVE  HourlyInv'
<1>1. TypeOK'
  BY DEF HourlyInv, HourlyTellsAll, TypeOK
<1>2. QED
  BY <1>1 DEF HourlyInv, HourlyTellsAll

(* Every step preserves HourlyInv.                                         *)
LEMMA HourlyStep == HourlyInv /\ [Next]_vars => HourlyInv'
<1> SUFFICES ASSUME HourlyInv, [Next]_vars PROVE HourlyInv'
  OBVIOUS
<1>1. DetailInv' /\ DetailInv
  BY DetailStep DEF HourlyInv
<1>2. TypeOK /\ now \in 0..MaxTime /\ db'.cutoff \in Int \union {None}
  BY <1>1 DEF HourlyInv, HourlyTellsAll, TypeOK, DetailInv
<1>3. CASE Upgrade
  BY <1>3, UpgradeKeepsRows
<1>4. CASE Tick
  <2>1. now' \in 0..MaxTime
    BY <1>2, <1>4, UsageAssumption DEF Tick
  <2>2. UNCHANGED <<db, recorded>>
    BY <1>4 DEF Tick
  <2>3. QED
    BY <1>1, <1>2, <2>1, <2>2, RowsStay
<1>5. ASSUME NEW at \in Recent, NEW model \in Models, NEW outcome \in Outcomes,
             NEW listed \in BOOLEAN, RecordEvent(at, model, outcome, listed)
      PROVE  HourlyInv'
  BY <1>5, EventKeepsRows
<1>6. CASE CleanUpBatch
  <2>1. /\ UNCHANGED <<now, recorded>> /\ Tables(db)
        /\ db' = CleanedUp(db, retention.now - Retention)
    BY <1>1, <1>6 DEF CleanUpBatch, DetailInv
  <2>2. /\ db'.version = db.version /\ db'.hourly = db.hourly
        /\ db'.latency = db.latency /\ db'.known = db.known
        /\ db'.sequence = db.sequence
    BY <2>1, CleanedTables
  <2>3. QED
    BY <1>1, <1>2, <2>1, <2>2, RowsStay
<1>7. ASSUME UNCHANGED <<now, db, recorded>> PROVE HourlyInv'
  BY <1>1, <1>2, <1>7, RowsStay
<1>8. CASE Startup \/ CleanUpFails \/ WaitElapses \/ Shutdown \/ TaskReturns \/ Crash
  BY <1>7, <1>8 DEF Startup, CleanUpFails, WaitElapses, Shutdown, TaskReturns, Crash
<1>9. ASSUME NEW r \in Readers,
             \/ \E list \in {"values", "events"}, range \in Ranges, clock \in Soon :
                   FirstPage(r, list, range, clock)
             \/ NextPage(r) \/ PageRefused(r) \/ LeavePages(r)
      PROVE  HourlyInv'
  BY <1>7, <1>9 DEF FirstPage, NextPage, PageRefused, LeavePages
<1>10. CASE UNCHANGED vars
  BY <1>7, <1>10 DEF vars
<1>11. QED
  BY <1>3, <1>4, <1>5, <1>6, <1>8, <1>9, <1>10 DEF Next

(* "UTC hourly totals are kept for ever".                                  *)
THEOREM HourlyTotalsKept == Spec => []HourlyTellsAll
<1>1. Init => HourlyInv
  BY HourlyInit
<1>2. HourlyInv /\ [Next]_vars => HourlyInv'
  BY HourlyStep
<1>3. HourlyInv => HourlyTellsAll
  BY DEF HourlyInv
<1>4. QED
  BY <1>1, <1>2, <1>3, PTL DEF Spec

(* An hour begins at its first moment and ends before the next.            *)
LEMMA HourOfTime ==
    ASSUME NEW t \in Nat
    PROVE  /\ HourOf(t) \in Nat /\ HourOf(t) <= t /\ t < HourOf(t) + Hour
           /\ Fractional(t) <=> HourOf(t) < t
<1>1. Hour \in Nat /\ Hour > 0
  BY UsageAssumption
<1>2. /\ t \div Hour \in Nat /\ t % Hour \in 0..(Hour - 1)
      /\ t = Hour * (t \div Hour) + (t % Hour)
  BY <1>1
<1>3. HourOf(t) = Hour * (t \div Hour)
  BY <1>1, <1>2 DEF HourOf
<1>4. HourOf(t) \in Nat
  BY <1>1, <1>2, <1>3
<1>5. QED
  BY <1>1, <1>2, <1>3, <1>4 DEF Fractional

(* Hours do not overlap.                                                   *)
LEMMA HoursApart ==
    ASSUME NEW s \in Nat, NEW t \in Nat
    PROVE  /\ s <= t => HourOf(s) <= HourOf(t)
           /\ HourOf(s) < HourOf(t) => HourOf(s) + Hour <= HourOf(t)
           /\ HourOf(s) <= t /\ t < HourOf(s) + Hour => HourOf(t) = HourOf(s)
<1>1. Hour \in Nat /\ Hour > 0
  BY UsageAssumption
<1>2. s \div Hour \in Nat /\ t \div Hour \in Nat
  BY <1>1
<1>3. HourOf(s) = (s \div Hour) * Hour /\ HourOf(t) = (t \div Hour) * Hour
  BY DEF HourOf
<1>4. \A a, b \in Nat : a < b => a * Hour + Hour <= b * Hour
  <2> SUFFICES ASSUME NEW a \in Nat, NEW b \in Nat, a < b
               PROVE  a * Hour + Hour <= b * Hour
    OBVIOUS
  <2>1. PICK d \in Nat : b = a + 1 + d
    <3>1. b - a - 1 \in Nat
      OBVIOUS
    <3>2. QED
      BY <3>1
  <2>2. b * Hour = a * Hour + Hour + d * Hour
    BY <1>1, <2>1
  <2>3. d * Hour \in Nat /\ a * Hour \in Nat /\ b * Hour \in Nat
    BY <1>1
  <2>4. QED
    BY <1>1, <2>2, <2>3
<1>5. HourOf(s) < HourOf(t) => HourOf(s) + Hour <= HourOf(t)
  <2>1. s \div Hour < t \div Hour \/ s \div Hour = t \div Hour \/ t \div Hour < s \div Hour
    BY <1>2
  <2>2. QED
    BY <1>1, <1>2, <1>3, <1>4, <2>1, HourOfTime
<1>6. HourOf(t) < HourOf(s) => HourOf(t) + Hour <= HourOf(s)
  <2>1. s \div Hour < t \div Hour \/ s \div Hour = t \div Hour \/ t \div Hour < s \div Hour
    BY <1>2
  <2>2. QED
    BY <1>1, <1>2, <1>3, <1>4, <2>1, HourOfTime
<1>7. QED
  BY <1>1, <1>5, <1>6, HourOfTime

(* The hours that the range or a midnight cuts.                            *)
CutHours(range, clock, midnights) ==
    {HourOf(t) : t \in {t \in {range.from, range.to} : Fractional(t)}}
    \union {HourOf(b) : b \in {b \in midnights :
                /\ Fractional(b)
                /\ Larger(range.from, clock - Retention) < b
                /\ b < Smaller(range.to, clock + 1)}}

(* What is cut from an hour is all of it that is in the range.             *)
LEMMA WholeFields ==
    ASSUME NEW h \in Nat, NEW range \in Ranges
    PROVE  /\ Whole(h, range).hour = h
           /\ Whole(h, range).from = Larger(h, range.from)
           /\ Whole(h, range).to = Smaller(h + Hour, range.to)
           /\ Whole(h, range).from \in Nat /\ Whole(h, range).to \in Nat
BY UsageAssumption, SMTT(30) DEF Whole, Larger, Smaller

(* Whole hours merge into themselves.                                      *)
LEMMA MergedWhole ==
    ASSUME NEW H \in SUBSET Nat, NEW range \in Ranges
    PROVE  Merged({Whole(h, range) : h \in H}) = {Whole(h, range) : h \in H}
<1> DEFINE S == {Whole(h, range) : h \in H}
           M(h) == [hour |-> h, from |-> Min({s.from : s \in {s \in S : s.hour = h}}),
                    to |-> Max({s.to : s \in {s \in S : s.hour = h}})]
<1>1. {s.hour : s \in S} = H
  BY WholeFields, ZenonT(60)
<1>2. ASSUME NEW h \in H PROVE M(h) = Whole(h, range)
  <2> DEFINE w == Whole(h, range)
  <2>1. {s \in S : s.hour = h} = {w}
    BY WholeFields
  <2>2. {s.from : s \in {w}} = {w.from} /\ {s.to : s \in {w}} = {w.to}
    OBVIOUS
  <2>3. w.from \in Nat /\ w.to \in Nat /\ w.hour = h
    BY WholeFields
  <2>4. Min({w.from}) = w.from /\ Max({w.to}) = w.to
    <3> HIDE DEF w
    <3> QED BY <2>3 DEF Min, Max
  <2>5. w = [hour |-> w.hour, from |-> w.from, to |-> w.to]
    BY WholeFields DEF Whole
  <2> HIDE DEF w, S
  <2>6. QED
    BY <2>1, <2>2, <2>3, <2>4, <2>5 DEF w
<1>3. Merged(S) = {M(h) : h \in {s.hour : s \in S}}
  BY DEF Merged
<1> HIDE DEF M
<1>4. QED
  BY <1>1, <1>2, <1>3

(* The plan reads the whole of the cut hours whose details are kept.       *)
LEMMA PlanOf ==
    ASSUME NEW range \in Ranges, NEW clock \in Nat, NEW midnights \in SUBSET Nat,
           NEW plan, plan = BoundaryDetailPlan(range, clock, midnights)
    PROVE  /\ plan.replaced = {h \in CutHours(range, clock, midnights) :
                                  Larger(h, range.from) >= clock - Retention}
           /\ plan.segments = {Whole(h, range) : h \in plan.replaced}
           /\ plan.replaced \subseteq Nat
           /\ plan.exact => /\ plan.replaced = CutHours(range, clock, midnights)
                            /\ ~OldMidnight(range, clock, midnights)
<1> DEFINE H == CutHours(range, clock, midnights)
           S == {Whole(h, range) : h \in H}
           kept == {s \in S : s.from >= clock - Retention}
<1>1. range.from \in Nat /\ range.to \in Nat
  BY UsageAssumption
<1>2. H \in SUBSET Nat
  BY <1>1, HourOfTime DEF CutHours
<1>3. EndSegments(range) \union MidnightSegments(range, clock, midnights) = S
  BY DEF EndSegments, MidnightSegments, CutHours
<1>4. Merged(S) = S
  <2> HIDE DEF H
  <2> QED BY <1>2, MergedWhole
<1>5. plan = [segments |-> kept, replaced |-> {s.hour : s \in kept},
              exact |-> kept = S /\ ~OldMidnight(range, clock, midnights)]
  BY <1>3, <1>4 DEF BoundaryDetailPlan
<1>6. /\ plan.segments = kept /\ plan.replaced = {s.hour : s \in kept}
      /\ plan.exact = (kept = S /\ ~OldMidnight(range, clock, midnights))
  <2> HIDE DEF kept, S
  <2> QED BY <1>5
<1>7. \A h \in H : Whole(h, range).hour = h /\ Whole(h, range).from = Larger(h, range.from)
  BY <1>2, WholeFields
<1>8. {s.hour : s \in kept} = {h \in H : Larger(h, range.from) >= clock - Retention}
  <2> HIDE DEF H
  <2> QED BY <1>7
<1>9. kept = {Whole(h, range) : h \in {s.hour : s \in kept}}
  <2> HIDE DEF H
  <2> QED BY <1>7
<1>10. {s.hour : s \in S} = H
  <2> HIDE DEF H
  <2> QED BY <1>7
<1> HIDE DEF kept, S
<1>11. QED
  BY <1>2, <1>6, <1>8, <1>9, <1>10

(* An hour that is not cut is in the range as a whole.                     *)
LEMMA WholeInRange ==
    ASSUME NEW range \in Ranges, NEW clock, NEW midnights, NEW t \in Nat,
           HourOf(t) \notin CutHours(range, clock, midnights)
    PROVE  InHours(HourOf(t), range) <=> InRange(t, range)
<1> DEFINE h == HourOf(t)
<1>1. range.from \in Nat /\ range.to \in Nat /\ h \in Nat /\ Hour \in Nat
  BY UsageAssumption, HourOfTime, SMTT(30)
<1>2. h <= t /\ t < h + Hour
  BY HourOfTime
<1>3. ASSUME NEW x \in {range.from, range.to}, HourOf(x) = h PROVE x = h
  <2>1. ~Fractional(x)
    BY <1>3 DEF CutHours
  <2>2. QED
    BY <1>1, <1>3, <2>1, HourOfTime, SMTT(30)
<1>4. InRange(t, range) => InHours(h, range)
  BY <1>1, <1>2, HoursApart DEF InRange, InHours
<1>5. ASSUME InHours(h, range) PROVE range.from <= t
  <2>1. HourOf(range.from) <= h
    BY <1>5 DEF InHours
  <2>2. CASE HourOf(range.from) = h
    BY <1>1, <1>2, <1>3, <2>2
  <2>3. CASE HourOf(range.from) < h
    <3>1. HourOf(range.from) + Hour <= h /\ range.from < HourOf(range.from) + Hour
      BY <1>1, <2>3, HoursApart, HourOfTime
    <3>2. HourOf(range.from) \in Nat
      BY <1>1, HourOfTime
    <3>3. QED
      BY <1>1, <1>2, <3>1, <3>2, SMTT(30)
  <2>4. QED
    BY <1>1, <2>1, <2>2, <2>3, HourOfTime, SMTT(30)
<1>6. ASSUME InHours(h, range) PROVE t < range.to
  <2>1. h < range.to
    BY <1>6 DEF InHours
  <2>2. HourOf(range.to) # h
    BY <1>3, <2>1, <1>1
  <2>3. ~(range.to < h + Hour)
    BY <1>1, <2>1, <2>2, HoursApart
  <2>4. QED
    BY <1>1, <1>2, <2>3
<1>7. QED
  BY <1>4, <1>5, <1>6 DEF InRange

(* No midnight cuts it either, but one that the report could not know of.  *)
LEMMA WholeInPeriod ==
    ASSUME NEW range \in Ranges, NEW clock \in Nat, NEW t \in Nat,
           HourOf(t) \notin CutHours(range, clock, Midnights),
           InRange(t, range),
           ~OldMidnight(range, clock, Midnights), ~MidnightAtCutoff(range, clock),
           ~ \E b \in Midnights : Fractional(b) /\ clock < b /\ b <= t
    PROVE  PeriodOf(HourOf(t)) = PeriodOf(t)
<1> DEFINE h == HourOf(t)
           cutoff == clock - Retention
<1>1. range.from \in Nat /\ range.to \in Nat /\ h \in Nat /\ Hour \in Nat /\ cutoff \in Int
  BY UsageAssumption, HourOfTime
<1>2. h <= t /\ t < h + Hour /\ range.from <= t /\ t < range.to
  BY HourOfTime DEF InRange
<1>3. ASSUME NEW b \in Midnights, h < b, b <= t PROVE FALSE
  <2>1. b \in Nat
    BY UsageAssumption
  <2>2. HourOf(b) = h /\ Fractional(b)
    <3>1. HourOf(b) = h
      BY <1>1, <1>2, <1>3, <2>1, HoursApart
    <3>2. QED
      BY <1>3, <2>1, <3>1, HourOfTime
  <2>3. ~(Larger(range.from, cutoff) < b /\ b < Smaller(range.to, clock + 1))
    BY <2>2 DEF CutHours
  <2>4. b <= clock
    BY <1>3, <2>1, <2>2
  <2>5. b < range.to
    BY <1>1, <1>2, <1>3, <2>1
  <2>6. ~(Larger(range.from, cutoff) < b)
    BY <1>1, <2>1, <2>3, <2>4, <2>5 DEF Smaller
  <2>7. CASE b <= range.from
    <3>1. HourOf(range.from) = h /\ range.from > h
      BY <1>1, <1>2, <1>3, <2>1, <2>7, HoursApart
    <3>2. Fractional(range.from)
      BY <1>1, <3>1, HourOfTime
    <3>3. h \in CutHours(range, clock, Midnights)
      BY <3>1, <3>2 DEF CutHours
    <3>4. QED
      BY <3>3
  <2>8. CASE range.from < b
    <3>1. b <= cutoff
      BY <1>1, <2>1, <2>6, <2>8 DEF Larger
    <3>2. b # cutoff
      BY <2>2, <2>8 DEF MidnightAtCutoff
    <3>3. b < Smaller(range.to, cutoff)
      BY <1>1, <2>1, <2>5, <3>1, <3>2 DEF Smaller
    <3>4. OldMidnight(range, clock, Midnights)
      BY <2>2, <2>8, <3>3 DEF OldMidnight
    <3>5. QED
      BY <3>4
  <2>9. QED
    BY <1>1, <2>1, <2>7, <2>8
<1>4. {p \in Periods : p <= t} = {p \in Periods : p <= h}
  <2>1. ASSUME NEW p \in Periods PROVE p <= t <=> p <= h
    <3>1. p \in Nat /\ (p \in Midnights \/ p = 0)
      BY UsageAssumption DEF Periods
    <3>2. QED
      BY <1>1, <1>2, <1>3, <3>1
  <2>2. QED
    BY <2>1
<1>5. QED
  BY <1>4 DEF PeriodOf

-----------------------------------------------------------------------------
(* Some of the rows, without the events since and with those of the cut    *)
(* hours, are a number of events.                                          *)
LEMMA CountMinusPlus ==
    ASSUME NEW A, IsFiniteSet(A), NEW after \in SUBSET A, NEW cut, IsFiniteSet(cut),
           cut \cap A = {}
    PROVE  Cardinality((A \ after) \union cut)
             = Cardinality(A) - Cardinality(after) + Cardinality(cut)
<1> DEFINE rest == A \ after
<1>1. IsFiniteSet(rest) /\ IsFiniteSet(after)
  BY FS_Subset
<1>2. Cardinality(rest) = Cardinality(A) - Cardinality(after)
  <2>1. A \cap after = after
    OBVIOUS
  <2>2. QED
    BY <2>1, FS_Difference
<1>3. rest \cap cut = {} /\ Cardinality({}) = 0
  BY FS_EmptySet
<1>4. Cardinality(rest \union cut) = Cardinality(rest) + Cardinality(cut) - 0
  <2> HIDE DEF rest
  <2>1. Cardinality(rest \union cut)
          = Cardinality(rest) + Cardinality(cut) - Cardinality(rest \cap cut)
    BY <1>1, FS_Union
  <2>2. QED
    BY <1>3, <2>1
<1>5. /\ Cardinality(A) \in Nat /\ Cardinality(after) \in Nat
      /\ Cardinality(cut) \in Nat
  BY <1>1, FS_CardinalityType
<1>6. QED
  <2> HIDE DEF rest
  <2>1. Cardinality(rest \union cut) = Cardinality(A) - Cardinality(after) + Cardinality(cut)
    BY <1>2, <1>4, <1>5
  <2>2. QED
    BY <2>1 DEF rest

(* The events a report counts: those of whole hours, as of the snapshot,   *)
(* and those of the cut hours that are in the range.                       *)
Told(range, plan, sequence, times, buckets) ==
    {e \in Upto(sequence, recorded) :
        /\ e.bucket \in buckets
        /\ IF HourOf(e.at) \in plan.replaced
           THEN InRange(e.at, range) /\ e.at \in times
           ELSE InHours(HourOf(e.at), range) /\ HourOf(e.at) \in times}

(* A moment of a cut hour is in the segment of that hour.                  *)
LEMMA InWhole ==
    ASSUME NEW h \in Nat, NEW range \in Ranges, NEW t \in Nat
    PROVE  InRange(t, Whole(h, range)) <=>
             InRange(t, range) /\ h <= t /\ t < h + Hour
<1>1. range.from \in Nat /\ range.to \in Nat /\ Hour \in Nat
  BY UsageAssumption
<1>2. QED
  BY <1>1, WholeFields DEF InRange, Larger, Smaller

(* A report counts them, as long as the details it reads are kept.         *)
LEMMA TallyTells ==
    ASSUME HourlyInv, db.version = 4,
           NEW range \in Ranges, NEW plan, NEW sequence \in Int, NEW times,
           NEW buckets \in SUBSET Buckets,
           plan.replaced \in SUBSET {HourOf(t) : t \in Nat},
           plan.segments = {Whole(h, range) : h \in plan.replaced},
           \A e \in recorded :
              /\ e.id > sequence /\ InHours(HourOf(e.at), range) => e \in db.details
              /\ InRange(e.at, range) /\ HourOf(e.at) \in plan.replaced => e \in db.details
    PROVE  LET told == Told(range, plan, sequence, times, buckets)
           IN Tally(db, range, plan, sequence, times, buckets)
                = [requests |-> Cardinality(told), samples |-> Cardinality(Successes(told))]
<1> DEFINE told == Told(range, plan, sequence, times, buckets)
           rows == {k \in Keys :
                       /\ InHours(k.hour, range) /\ k.hour \notin plan.replaced
                       /\ k.hour \in times /\ k.bucket \in buckets}
           after == {e \in PostSnapshotEvents(db, range, plan, sequence) :
                        HourOf(e.at) \in times /\ e.bucket \in buckets}
           cut == {e \in DetailRows(db, range, plan, sequence) :
                      e.at \in times /\ e.bucket \in buckets}
           A == {e \in recorded : KeyOf(e) \in rows}
<1>1. /\ IsFiniteSet(recorded) /\ recorded \subseteq Rows /\ db.details \subseteq recorded
      /\ db.hourly = Counts(recorded) /\ db.latency = Counts(Successes(recorded))
      /\ \A e \in recorded : e.id \in Int
  BY DEF HourlyInv, HourlyTellsAll, TypeOK, DetailInv, DeletedBelowCutoff
<1>2. \A e \in recorded : e.at \in Nat /\ KeyOf(e) \in Keys /\ KeyOf(e).hour = HourOf(e.at)
                         /\ KeyOf(e).bucket = e.bucket
  BY <1>1, UsageAssumption DEF Rows, KeyOf, Keys, Hours
<1>3. \A e \in recorded : e \in A <=> /\ InHours(HourOf(e.at), range)
                                     /\ HourOf(e.at) \notin plan.replaced
                                     /\ HourOf(e.at) \in times /\ e.bucket \in buckets
  BY <1>2
<1>4. \A e \in recorded : e \in after <=> e \in A /\ e.id > sequence
  <2> HIDE DEF A
  <2> QED BY <1>3 DEF PostSnapshotEvents
<1>5. ASSUME NEW e \in recorded
      PROVE  (\E s \in plan.segments : InRange(e.at, s)) /\ InRange(e.at, range)
                <=> InRange(e.at, range) /\ HourOf(e.at) \in plan.replaced
  <2>1. e.at \in Nat
    BY <1>2
  <2>2. ASSUME NEW h \in plan.replaced, InRange(e.at, Whole(h, range))
        PROVE  HourOf(e.at) = h
    <3>1. PICK t \in Nat : h = HourOf(t)
      OBVIOUS
    <3>2. h \in Nat
      BY <3>1, HourOfTime
    <3>3. QED
      BY <2>1, <2>2, <3>1, <3>2, InWhole, HoursApart
  <2>3. ASSUME HourOf(e.at) \in plan.replaced, InRange(e.at, range)
        PROVE  InRange(e.at, Whole(HourOf(e.at), range))
    BY <2>1, <2>3, InWhole, HourOfTime
  <2>4. QED
    BY <2>2, <2>3
<1>6. \A e \in recorded : e \in cut <=>
         /\ e.id <= sequence /\ InRange(e.at, range) /\ HourOf(e.at) \in plan.replaced
         /\ e.at \in times /\ e.bucket \in buckets
  BY <1>1, <1>5 DEF DetailRows, Upto
<1>7. after \subseteq A /\ cut \subseteq recorded /\ cut \cap A = {}
  <2>1. after \subseteq recorded /\ cut \subseteq recorded /\ A \subseteq recorded
    BY <1>1 DEF PostSnapshotEvents, DetailRows, Upto
  <2> HIDE DEF after, cut, A
  <2>2. QED
    BY <1>3, <1>4, <1>6, <2>1
<1>8. told = (A \ after) \union cut
  <2>1. told \subseteq recorded /\ A \subseteq recorded
    BY DEF Told, Upto
  <2>2. \A e \in recorded : e \in told <=>
          /\ e.id <= sequence /\ e.bucket \in buckets
          /\ IF HourOf(e.at) \in plan.replaced
             THEN InRange(e.at, range) /\ e.at \in times
             ELSE InHours(HourOf(e.at), range) /\ HourOf(e.at) \in times
    BY DEF Told, Upto
  <2> HIDE DEF told, after, cut, A
  <2>3. ASSUME NEW e \in recorded PROVE e \in told <=> e \in (A \ after) \union cut
    <3>1. e.id > sequence <=> ~(e.id <= sequence)
      BY <1>1
    <3>2. CASE HourOf(e.at) \in plan.replaced
      BY <1>3, <1>4, <1>6, <2>2, <3>1, <3>2
    <3>3. CASE HourOf(e.at) \notin plan.replaced
      BY <1>3, <1>4, <1>6, <2>2, <3>1, <3>3
    <3>4. QED
      BY <3>2, <3>3
  <2>4. QED
    BY <1>7, <2>1, <2>3
<1>9. rows \in SUBSET Keys /\ IsFiniteSet(rows)
  BY KeysFinite, FS_Subset
<1>10. Tally(db, range, plan, sequence, times, buckets) =
         [requests |-> Sum(db.hourly, rows) - Cardinality(after) + Cardinality(cut),
          samples |-> Sum(db.latency, rows) - Cardinality(Successes(after))
                                            + Cardinality(Successes(cut))]
  BY DEF Tally
<1>11. IsFiniteSet(A) /\ IsFiniteSet(cut) /\ A \subseteq recorded
  <2>1. A \subseteq recorded
    OBVIOUS
  <2> HIDE DEF A, cut
  <2>2. QED
    BY <1>1, <1>7, <2>1, FS_Subset
<1>12. IsFiniteSet(Successes(recorded)) /\ IsFiniteSet(Successes(A)) /\ IsFiniteSet(Successes(cut))
  <2>1. /\ Successes(recorded) \subseteq recorded /\ Successes(A) \subseteq A
        /\ Successes(cut) \subseteq cut
    BY DEF Successes
  <2> HIDE DEF A, cut
  <2>2. QED
    BY <1>1, <1>11, <2>1, FS_Subset
<1>13. Sum(db.hourly, rows) = Cardinality(A)
  <2> HIDE DEF rows
  <2> QED BY <1>1, <1>9, SumOfCounts
<1>14. Sum(db.latency, rows) = Cardinality(Successes(A))
  <2>1. {e \in Successes(recorded) : KeyOf(e) \in rows} = Successes(A)
    BY DEF Successes
  <2> HIDE DEF rows, A
  <2>2. Sum(Counts(Successes(recorded)), rows)
          = Cardinality({e \in Successes(recorded) : KeyOf(e) \in rows})
    BY <1>9, <1>12, SumOfCounts
  <2>3. QED
    BY <1>1, <2>1, <2>2
<1> HIDE DEF rows, after, cut, A, told
<1>15. Cardinality(told) = Cardinality(A) - Cardinality(after) + Cardinality(cut)
  BY <1>7, <1>8, <1>11, CountMinusPlus
<1>16. Cardinality(Successes(told)) = Cardinality(Successes(A)) - Cardinality(Successes(after))
                                        + Cardinality(Successes(cut))
  <2>1. Successes(told) = (Successes(A) \ Successes(after)) \union Successes(cut)
    BY <1>8 DEF Successes
  <2>2. Successes(after) \in SUBSET Successes(A) /\ Successes(cut) \cap Successes(A) = {}
    BY <1>7 DEF Successes
  <2>3. QED
    BY <1>12, <2>1, <2>2, CountMinusPlus
<1>17. QED
  BY <1>10, <1>13, <1>14, <1>15, <1>16 DEF told

(* Events are in the buckets, at times of the clock and in the sequence.   *)
LEMMA RecordedTyped ==
    ASSUME HourlyInv, NEW e \in recorded
    PROVE  /\ e.at \in 0..MaxTime /\ e.at \in Nat /\ e.bucket \in Buckets
           /\ e.id \in Nat /\ e.id <= db.sequence /\ HourOf(e.at) \in 0..MaxTime
<1>1. e \in Rows /\ e.id \in 1..db.sequence
  BY DEF HourlyInv, HourlyTellsAll, TypeOK
<1>2. e.at \in 0..MaxTime /\ e.at \in Nat
  BY <1>1, UsageAssumption DEF Rows
<1>3. HourOf(e.at) \in 0..MaxTime
  BY <1>2, HourOfTime, UsageAssumption
<1>4. QED
  BY <1>1, <1>2, <1>3 DEF Rows

(* The row of some events.                                                 *)
RowOf(E) == [requests |-> Cardinality(E), samples |-> Cardinality(Successes(E))]

(* A report counts the events of In[b] in each bucket b.                   *)
Counted(range, plan, sequence, In) ==
    \A b \in Buckets :
       /\ IsFiniteSet(In[b])
       /\ Tally(db, range, plan, sequence, 0..MaxTime, {b}) = RowOf(In[b])

(* Groups of counted events are the true ones.                             *)
LEMMA GroupsTell ==
    ASSUME NEW range, NEW plan, NEW sequence, NEW In,
           Counted(range, plan, sequence, In)
    PROVE  Groups(db, range, plan, sequence) = TrulyGrouped(In)
<1> DEFINE V(b) == Tally(db, range, plan, sequence, 0..MaxTime, {b})
           items == {[id |-> b, requests |-> V(b).requests, samples |-> V(b).samples] :
                        b \in Buckets}
           true(b) == [id |-> b, requests |-> Cardinality(In[b]),
                       samples |-> Cardinality(Successes(In[b]))]
           seen == {b \in Buckets : In[b] # {}}
<1>1. ASSUME NEW b \in Buckets
      PROVE  /\ [id |-> b, requests |-> V(b).requests, samples |-> V(b).samples] = true(b)
             /\ true(b).requests > 0 <=> In[b] # {}
  <2>1. V(b) = [requests |-> Cardinality(In[b]), samples |-> Cardinality(Successes(In[b]))]
    BY DEF RowOf, Counted
  <2>2. V(b).requests = Cardinality(In[b]) /\ V(b).samples = Cardinality(Successes(In[b]))
    <3> HIDE DEF V
    <3> QED BY <2>1
  <2>3. Cardinality(In[b]) \in Nat /\ (Cardinality(In[b]) = 0 <=> In[b] = {})
    BY FS_CardinalityType, FS_EmptySet DEF Counted
  <2> HIDE DEF V
  <2>4. QED
    BY <2>2, <2>3
<1>2. items = {true(b) : b \in Buckets}
  <2> HIDE DEF V, true
  <2> QED BY <1>1
<1>3. {i \in items : i.requests > 0} = {true(b) : b \in seen}
  <2> HIDE DEF items, true
  <2> QED BY <1>1, <1>2
<1>4. Groups(db, range, plan, sequence) = {i \in items : i.requests > 0}
  BY DEF Groups
<1>5. TrulyGrouped(In) = {true(b) : b \in seen}
  BY DEF TrulyGrouped
<1> HIDE DEF items, true, seen
<1>6. QED
  BY <1>3, <1>4, <1>5

(* An overview that calls itself exact tells what was recorded.            *)
LEMMA ExactOverview == HourlyInv => OverviewExact
<1> SUFFICES ASSUME HourlyInv, NEW range \in Ranges, NEW clock \in Recent,
                    db.version = 4, Overview(range, clock).exact,
                    ~Overtaken(db.cutoff, clock), ~MidnightPassed(clock),
                    ~MidnightAtCutoff(range, clock)
             PROVE  LET told == Overview(range, clock).told
                    IN /\ \A p \in Periods :
                             told.rows[p] =
                               [requests |-> Cardinality(TrulyIn(range, p)),
                                samples |-> Cardinality(Successes(TrulyIn(range, p)))]
                       /\ told.models = Ordered("values", TrulyGrouped(
                             [b \in Buckets |-> {e \in recorded : InRange(e.at, range)
                                                                   /\ e.bucket = b}]))
  BY DEF OverviewExact
<1> DEFINE plan == BoundaryDetailPlan(range, clock, Midnights)
           answer == ReadOverview(range, plan)
<1>1. clock \in Nat /\ Midnights \in SUBSET Nat /\ range.from \in Nat /\ range.to \in Nat
  BY UsageAssumption DEF Recent
<1>2. /\ Overview(range, clock).exact = plan.exact /\ Overview(range, clock).told = answer
  BY DEF Overview
<1>3. /\ plan.replaced = CutHours(range, clock, Midnights)
      /\ plan.replaced = {h \in CutHours(range, clock, Midnights) :
                            Larger(h, range.from) >= clock - Retention}
      /\ plan.segments = {Whole(h, range) : h \in plan.replaced}
      /\ ~OldMidnight(range, clock, Midnights)
  <2> HIDE DEF plan
  <2>1. plan.exact
    BY <1>2
  <2>2. plan = BoundaryDetailPlan(range, clock, Midnights)
    BY DEF plan
  <2>3. QED
    BY <1>1, <2>1, <2>2, PlanOf
<1> HIDE DEF plan
<1>4. plan.replaced \in SUBSET {HourOf(t) : t \in Nat}
  BY <1>1, <1>3 DEF CutHours
<1>5. ASSUME NEW e \in recorded
      PROVE  /\ ~(e.id > db.sequence)
             /\ InRange(e.at, range) /\ HourOf(e.at) \in plan.replaced => e \in db.details
  <2>1. e.at \in Nat /\ e.id \in Nat /\ e.id <= db.sequence
    BY RecordedTyped
  <2>2. db.sequence \in Int
    BY FS_CardinalityType DEF HourlyInv, HourlyTellsAll, TypeOK
  <2>3. ASSUME InRange(e.at, range), HourOf(e.at) \in plan.replaced, e \notin db.details
        PROVE  FALSE
    <3>1. db.cutoff # None /\ e.at < db.cutoff
      BY <2>3 DEF HourlyInv, DetailInv, DeletedBelowCutoff
    <3>2. db.cutoff \in Int
      BY <3>1 DEF HourlyInv, DetailInv
    <3>3. db.cutoff <= clock - Retention
      BY <1>1, <3>1, <3>2, UsageAssumption DEF Overtaken
    <3>4. Larger(HourOf(e.at), range.from) >= clock - Retention
      BY <1>3, <2>3
    <3>5. Larger(HourOf(e.at), range.from) <= e.at
      BY <1>1, <2>1, <2>3, HourOfTime DEF InRange, Larger
    <3>6. Larger(HourOf(e.at), range.from) \in Nat
      BY <1>1, <2>1, HourOfTime DEF Larger
    <3>7. QED
      BY <1>1, <2>1, <3>1, <3>2, <3>3, <3>4, <3>5, <3>6, UsageAssumption
  <2>4. QED
    BY <2>1, <2>2, <2>3
<1>6. ASSUME NEW times, NEW buckets \in SUBSET Buckets
      PROVE  LET told == Told(range, plan, db.sequence, times, buckets)
             IN Tally(db, range, plan, db.sequence, times, buckets)
                  = [requests |-> Cardinality(told), samples |-> Cardinality(Successes(told))]
  <2>1. db.sequence \in Int
    BY FS_CardinalityType DEF HourlyInv, HourlyTellsAll, TypeOK
  <2>2. QED
    BY <1>3, <1>4, <1>5, <2>1, TallyTells
<1>7. ASSUME NEW e \in recorded
      PROVE  /\ e \in Upto(db.sequence, recorded)
             /\ HourOf(e.at) \notin plan.replaced =>
                  (InHours(HourOf(e.at), range) <=> InRange(e.at, range))
             /\ HourOf(e.at) \notin plan.replaced /\ InRange(e.at, range) =>
                  PeriodOf(HourOf(e.at)) = PeriodOf(e.at)
  <2>1. e.at \in Nat /\ e.id <= db.sequence
    BY RecordedTyped
  <2>2. ~ \E b \in Midnights : Fractional(b) /\ clock < b /\ b <= e.at
    BY DEF MidnightPassed
  <2>3. e \in Upto(db.sequence, recorded)
    BY <2>1 DEF Upto
  <2>4. ASSUME HourOf(e.at) \notin plan.replaced
        PROVE  InHours(HourOf(e.at), range) <=> InRange(e.at, range)
    <3>1. HourOf(e.at) \notin CutHours(range, clock, Midnights)
      BY <1>3, <2>4
    <3>2. QED
      BY <2>1, <3>1, WholeInRange
  <2>5. ASSUME HourOf(e.at) \notin plan.replaced, InRange(e.at, range)
        PROVE  PeriodOf(HourOf(e.at)) = PeriodOf(e.at)
    <3>1. HourOf(e.at) \notin CutHours(range, clock, Midnights)
      BY <1>3, <2>5
    <3>2. ~OldMidnight(range, clock, Midnights)
      BY <1>3
    <3>3. QED
      BY <1>1, <2>1, <2>2, <2>5, <3>1, <3>2, WholeInPeriod
  <2>6. QED
    BY <2>3, <2>4, <2>5
<1>8. ASSUME NEW p \in Periods
      PROVE  Told(range, plan, db.sequence, TimesIn(p), Buckets) = TrulyIn(range, p)
  <2>1. ASSUME NEW e \in recorded
        PROVE  /\ e.at \in TimesIn(p) <=> PeriodOf(e.at) = p
               /\ HourOf(e.at) \in TimesIn(p) <=> PeriodOf(HourOf(e.at)) = p
    BY RecordedTyped DEF TimesIn
  <2>2. ASSUME NEW e \in recorded
        PROVE  e \in Told(range, plan, db.sequence, TimesIn(p), Buckets) <=>
                 InRange(e.at, range) /\ PeriodOf(e.at) = p
    <3>1. e.bucket \in Buckets
      BY RecordedTyped
    <3>2. CASE HourOf(e.at) \in plan.replaced
      BY <1>7, <2>1, <3>1, <3>2 DEF Told
    <3>3. CASE HourOf(e.at) \notin plan.replaced
      BY <1>7, <2>1, <3>1, <3>3 DEF Told
    <3>4. QED
      BY <3>2, <3>3
  <2>3. Told(range, plan, db.sequence, TimesIn(p), Buckets) \subseteq recorded
    BY DEF Told, Upto
  <2>4. QED
    BY <2>2, <2>3 DEF TrulyIn
<1> DEFINE InBucket == [b \in Buckets |-> {e \in recorded : InRange(e.at, range) /\ e.bucket = b}]
<1>9. ASSUME NEW b \in Buckets
      PROVE  Told(range, plan, db.sequence, 0..MaxTime, {b}) = InBucket[b]
  <2>1. ASSUME NEW e \in recorded
        PROVE  e \in Told(range, plan, db.sequence, 0..MaxTime, {b}) <=>
                 InRange(e.at, range) /\ e.bucket = b
    <3>1. e.at \in 0..MaxTime /\ HourOf(e.at) \in 0..MaxTime
      BY RecordedTyped
    <3>2. CASE HourOf(e.at) \in plan.replaced
      BY <1>7, <3>1, <3>2 DEF Told
    <3>3. CASE HourOf(e.at) \notin plan.replaced
      BY <1>7, <3>1, <3>3 DEF Told
    <3>4. QED
      BY <3>2, <3>3
  <2>2. Told(range, plan, db.sequence, 0..MaxTime, {b}) \subseteq recorded
    BY DEF Told, Upto
  <2>3. QED
    BY <2>1, <2>2
<1>10. ASSUME NEW p \in Periods
       PROVE  answer.rows[p] = [requests |-> Cardinality(TrulyIn(range, p)),
                                samples |-> Cardinality(Successes(TrulyIn(range, p)))]
  <2>1. answer.rows[p] = Tally(db, range, plan, db.sequence, TimesIn(p), Buckets)
    BY DEF ReadOverview
  <2>2. QED
    BY <1>6, <1>8, <2>1
<1>11. answer.models = Ordered("values", TrulyGrouped(InBucket))
  <2>1. answer.models = Ordered("values", Groups(db, range, plan, db.sequence))
    BY DEF ReadOverview
  <2>2. ASSUME NEW b \in Buckets
        PROVE  /\ IsFiniteSet(InBucket[b])
               /\ Tally(db, range, plan, db.sequence, 0..MaxTime, {b})
                    = [requests |-> Cardinality(InBucket[b]),
                       samples |-> Cardinality(Successes(InBucket[b]))]
    <3>1. InBucket[b] \subseteq recorded /\ IsFiniteSet(recorded)
      BY DEF HourlyInv
    <3>2. {b} \in SUBSET Buckets
      OBVIOUS
    <3> HIDE DEF InBucket
    <3>3. IsFiniteSet(InBucket[b])
      BY <3>1, FS_Subset
    <3>4. QED
      BY ONLY <1>6, <1>9, <3>2, <3>3, b \in Buckets
  <2>3. Groups(db, range, plan, db.sequence) = TrulyGrouped(InBucket)
    <3>1. Counted(range, plan, db.sequence, InBucket)
      BY <2>2 DEF RowOf, Counted
    <3> HIDE DEF InBucket
    <3>2. QED
      BY <3>1, GroupsTell
  <2> HIDE DEF InBucket
  <2>4. QED
    BY <2>1, <2>3
<1>12. QED
  BY <1>2, <1>10, <1>11

(* A report that calls itself exact is.                                    *)
THEOREM ExactReports == Spec => []OverviewExact
<1>1. Init => HourlyInv
  BY HourlyInit
<1>2. HourlyInv /\ [Next]_vars => HourlyInv'
  BY HourlyStep
<1>3. HourlyInv => OverviewExact
  BY ExactOverview
<1>4. QED
  BY <1>1, <1>2, <1>3, PTL DEF Spec

-----------------------------------------------------------------------------
(* A list that can be put in order; how many come before one of them.      *)
Orders(list, S) ==
    /\ IsFiniteSet(S)
    /\ \A a \in S : ~Before(list, a, a)
    /\ \A a, b \in S : a = b \/ Before(list, a, b) \/ Before(list, b, a)
    /\ \A a, b, c \in S : Before(list, a, b) /\ Before(list, b, c) => Before(list, a, c)

Earlier(list, S, e) == {f \in S : Before(list, f, e)}
Rank(list, S, e) == Cardinality(Earlier(list, S, e))

(* An item that comes before another has a smaller rank.                   *)
LEMMA RankRises ==
    ASSUME NEW list, NEW S, Orders(list, S), NEW a \in S, NEW b \in S
    PROVE  /\ Rank(list, S, a) \in Nat /\ Rank(list, S, a) < Cardinality(S)
           /\ Before(list, a, b) => Rank(list, S, a) < Rank(list, S, b)
<1> DEFINE A == Earlier(list, S, a)
           B == Earlier(list, S, b)
<1>1. IsFiniteSet(S) /\ A \subseteq S /\ B \subseteq S /\ a \notin A
  BY DEF Orders, Earlier
<1>2. Before(list, a, b) => A \subseteq B /\ a \in B
  BY DEF Orders, Earlier
<1> HIDE DEF A, B
<1>3. IsFiniteSet(A) /\ IsFiniteSet(B)
  BY <1>1, FS_Subset
<1>4. /\ Cardinality(A) \in Nat /\ Cardinality(B) \in Nat /\ Cardinality(S) \in Nat
      /\ Cardinality(A) <= Cardinality(S)
      /\ Cardinality(S) = Cardinality(A) => S = A
  BY <1>1, <1>3, FS_CardinalityType, FS_Subset
<1>5. ASSUME Before(list, a, b) PROVE Cardinality(A) < Cardinality(B)
  <2>1. Cardinality(A) <= Cardinality(B) /\ (Cardinality(B) = Cardinality(A) => B = A)
    BY <1>2, <1>3, <1>5, FS_Subset
  <2>2. QED
    BY <1>1, <1>2, <1>4, <1>5, <2>1
<1>6. Rank(list, S, a) = Cardinality(A) /\ Rank(list, S, b) = Cardinality(B)
  BY DEF Rank, A, B
<1>7. QED
  BY <1>1, <1>4, <1>5, <1>6

(* Each rank below the number of items is that of one item.                *)
LEMMA RanksAll ==
    ASSUME NEW list, NEW S, Orders(list, S)
    PROVE  /\ \A a, b \in S : Rank(list, S, a) = Rank(list, S, b) => a = b
           /\ \A n \in 1..Cardinality(S) : \E e \in S : Rank(list, S, e) = n - 1
<1> DEFINE N == Cardinality(S)
           f == [e \in S |-> Rank(list, S, e) + 1]
<1>1. IsFiniteSet(S) /\ N \in Nat
  BY FS_CardinalityType DEF Orders
<1>2. \A a, b \in S : /\ Rank(list, S, a) \in Nat /\ Rank(list, S, a) < N
                      /\ Before(list, a, b) => Rank(list, S, a) < Rank(list, S, b)
  BY RankRises
<1>3. ASSUME NEW a \in S, NEW b \in S, Rank(list, S, a) = Rank(list, S, b) PROVE a = b
  <2>1. Rank(list, S, a) \in Nat /\ Rank(list, S, b) \in Nat
    BY <1>2
  <2>2. ~(Rank(list, S, a) < Rank(list, S, b)) /\ ~(Rank(list, S, b) < Rank(list, S, a))
    BY <1>3, <2>1
  <2>3. ~Before(list, a, b) /\ ~Before(list, b, a)
    BY <1>2, <2>2
  <2>4. QED
    BY <2>3 DEF Orders
<1> HIDE DEF N
<1>4. f \in [S -> 1..N]
  BY <1>1, <1>2
<1>5. \A a, b \in S : f[a] = f[b] => a = b
  BY <1>2, <1>3
<1>6. IsFiniteSet(1..N) /\ Cardinality(1..N) = N
  BY <1>1, FS_Interval
<1>7. f \in Injection(S, 1..N)
  <2> HIDE DEF f
  <2> QED BY <1>4, <1>5 DEF Injection, IsInjective
<1>8. f \in Surjection(S, 1..N)
  <2> HIDE DEF f
  <2> QED BY <1>6, <1>7, FS_Injection DEF N
<1>9. ASSUME NEW n \in 1..N PROVE \E e \in S : Rank(list, S, e) = n - 1
  <2>1. PICK e \in S : f[e] = n
    BY <1>8 DEF Surjection
  <2>2. QED
    BY <1>2, <2>1
<1>10. QED
  BY <1>3, <1>9 DEF N

(* In order each item is at its rank.                                      *)
LEMMA OrderedAt ==
    ASSUME NEW list, NEW S, Orders(list, S)
    PROVE  /\ Cardinality(S) \in Nat
           /\ Ordered(list, S) \in [1..Cardinality(S) -> S]
           /\ \A n \in 1..Cardinality(S) : Rank(list, S, Ordered(list, S)[n]) = n - 1
<1> DEFINE N == Cardinality(S)
           Item(n) == CHOOSE e \in S : Rank(list, S, e) = n - 1
<1>1. N \in Nat
  BY FS_CardinalityType DEF Orders
<1>2. Ordered(list, S) = [n \in 1..N |-> Item(n)]
  BY DEF Ordered, Rank, Earlier
<1>3. ASSUME NEW n \in 1..N PROVE Item(n) \in S /\ Rank(list, S, Item(n)) = n - 1
  <2>1. \E e \in S : Rank(list, S, e) = n - 1
    BY RanksAll
  <2>2. QED
    BY <2>1
<1> HIDE DEF Item, N
<1>4. QED
  BY <1>1, <1>2, <1>3 DEF N

(* What comes after the first m items is, in order, the rest of the list.  *)
LEMMA RestOrdered ==
    ASSUME NEW list, NEW S, Orders(list, S), NEW m \in 1..Cardinality(S),
           NEW R, R = {e \in S : Before(list, Ordered(list, S)[m], e)}
    PROVE  /\ Orders(list, R) /\ Cardinality(R) = Cardinality(S) - m
           /\ \A j \in 1..Cardinality(R) : Ordered(list, R)[j] = Ordered(list, S)[m + j]
<1> DEFINE A == Ordered(list, S)
           c == A[m]
           first == Earlier(list, S, c) \union {c}
<1>1. /\ Cardinality(S) \in Nat /\ A \in [1..Cardinality(S) -> S]
      /\ \A n \in 1..Cardinality(S) : Rank(list, S, A[n]) = n - 1
  BY OrderedAt
<1>2. c \in S /\ Rank(list, S, c) = m - 1
  BY <1>1
<1> HIDE DEF A
<1>3. R \subseteq S /\ IsFiniteSet(S) /\ IsFiniteSet(R)
  BY FS_Subset DEF Orders
<1>4. Orders(list, R)
  BY <1>3 DEF Orders
<1>5. first \subseteq S /\ IsFiniteSet(first) /\ Cardinality(first) = m
  <2>1. Earlier(list, S, c) \subseteq S /\ c \notin Earlier(list, S, c)
    BY <1>2 DEF Earlier, Orders
  <2>2. IsFiniteSet(Earlier(list, S, c)) /\ Cardinality(Earlier(list, S, c)) = m - 1
    BY <1>2, <1>3, <2>1, FS_Subset DEF Rank
  <2>3. Cardinality(first) = (m - 1) + 1
    BY <2>1, <2>2, FS_AddElement
  <2> HIDE DEF c
  <2>4. QED
    BY <1>1, <1>2, <1>3, <2>1, <2>2, <2>3, FS_Subset
<1>6. R = S \ first /\ S \cap first = first
  BY <1>2 DEF A, Earlier, Orders
<1>7. Cardinality(R) = Cardinality(S) - m
  <2> HIDE DEF first
  <2> QED BY <1>3, <1>5, <1>6, FS_Difference
<1>8. ASSUME NEW e \in R PROVE Rank(list, R, e) = Rank(list, S, e) - m
  <2> DEFINE E == Earlier(list, S, e)
  <2>1. e \in S /\ Before(list, c, e)
    BY DEF A
  <2>2. E \subseteq S /\ E \cap first = first
    BY <1>2, <2>1 DEF Earlier, Orders
  <2>3. Earlier(list, R, e) = E \ first
    BY <1>6 DEF Earlier
  <2>4. IsFiniteSet(E)
    <3> HIDE DEF E
    <3> QED BY <1>3, <2>2, FS_Subset
  <2>5. Cardinality(E \ first) = Cardinality(E) - m
    <3> HIDE DEF E, first
    <3> QED BY <1>5, <2>2, <2>4, FS_Difference
  <2>6. QED
    BY <2>3, <2>5, SMTT(30) DEF Rank
<1>9. ASSUME NEW j \in 1..Cardinality(R)
      PROVE  Ordered(list, R)[j] = A[m + j]
  <2> DEFINE e == Ordered(list, R)[j]
  <2>1. e \in R /\ Rank(list, R, e) = j - 1
    BY <1>4, OrderedAt, ZenonT(60)
  <2> HIDE DEF e
  <2>2. e \in S /\ Rank(list, S, e) \in Nat
    BY <1>3, <2>1, RankRises
  <2>3. Rank(list, S, e) = (m + j) - 1
    BY <1>8, <2>1, <2>2
  <2>4. m + j \in 1..Cardinality(S)
    BY <1>1, <1>7
  <2>5. A[m + j] \in S /\ Rank(list, S, A[m + j]) = (m + j) - 1
    BY <1>1, <2>4
  <2>6. e = A[m + j]
    BY <2>2, <2>3, <2>5, RanksAll
  <2>7. QED
    BY <2>6 DEF e
<1>10. QED
  BY <1>4, <1>7, <1>9 DEF A

(* The first m items of a list, and a page more.                           *)
First(list, S, m) == SubSeq(Ordered(list, S), 1, m)

(* In order the items are a sequence of them.                              *)
LEMMA OrderedSeq ==
    ASSUME NEW list, NEW S, Orders(list, S)
    PROVE  Ordered(list, S) \in Seq(S) /\ Len(Ordered(list, S)) = Cardinality(S)
<1>1. Cardinality(S) \in Nat /\ Ordered(list, S) \in [1..Cardinality(S) -> S]
  BY OrderedAt
<1> DEFINE N == Cardinality(S)
           A == Ordered(list, S)
<1> HIDE DEF N, A
<1>2. A \in Seq(S) /\ Len(A) = N
  BY <1>1 DEF N, A
<1>3. QED
  BY <1>2 DEF N, A

(* So are the first of them.                                               *)
LEMMA FirstItems ==
    ASSUME NEW list, NEW S, Orders(list, S), NEW m \in 0..Cardinality(S)
    PROVE  /\ First(list, S, m) \in Seq(S) /\ Len(First(list, S, m)) = m
           /\ \A i \in 1..m : /\ First(list, S, m)[i] = Ordered(list, S)[i]
                              /\ First(list, S, m)[i] \in S
<1> DEFINE A == Ordered(list, S)
<1>1. /\ A \in Seq(S) /\ Len(A) = Cardinality(S) /\ Cardinality(S) \in Nat
      /\ A \in [1..Cardinality(S) -> S]
  BY OrderedSeq, OrderedAt
<1> HIDE DEF A
<1>2. SubSeq(A, 1, m) = [i \in 1..m |-> A[i]]
  BY <1>1
<1>3. First(list, S, m) = SubSeq(A, 1, m)
  BY DEF First, A
<1>4. \A i \in 1..m : A[i] \in S
  BY <1>1
<1>5. QED
  BY <1>2, <1>3, <1>4 DEF A

(* A page after the first m items, by offset or by cursor, continues them. *)
LEMMA PageContinues ==
    ASSUME NEW list, NEW S, Orders(list, S), NEW m \in 0..Cardinality(S)
    PROVE  \E k \in m..Cardinality(S) :
              First(list, S, m) \o Page(Following(list, First(list, S, m), S))
                = First(list, S, k)
<1> DEFINE A == Ordered(list, S)
           N == Cardinality(S)
           shown == First(list, S, m)
           rest == Following(list, shown, S)
<1>1. A \in Seq(S) /\ Len(A) = N /\ N \in Nat /\ A \in [1..N -> S] /\ m \in 0..N
  BY OrderedSeq, OrderedAt
<1>2. shown \in Seq(S) /\ Len(shown) = m /\ \A i \in 1..m : shown[i] = A[i] /\ shown[i] \in S
  BY FirstItems
<1>3. rest \in Seq(S) /\ Len(rest) = N - m /\ \A j \in 1..(N - m) : rest[j] = A[m + j]
  <2> HIDE DEF A, N, shown
  <2>1. CASE list = "events"
    <3>1. rest = SubSeq(A, m + 1, N)
      BY <1>2, <2>1 DEF Following, A, N
    <3>2. SubSeq(A, m + 1, N) = [j \in 1..(N - m) |-> A[m + j]]
      <4>1. (N - (m + 1)) + 1 = N - m /\ \A j \in 1..(N - m) : (j + (m + 1)) - 1 = m + j
        BY <1>1
      <4>2. QED
        BY <1>1, <4>1
    <3>3. N - m \in Nat /\ \A j \in 1..(N - m) : A[m + j] \in S
      BY <1>1
    <3>4. rest \in [1..(N - m) -> S] /\ \A j \in 1..(N - m) : rest[j] = A[m + j]
      <4> HIDE DEF rest
      <4> QED BY <3>1, <3>2, <3>3
    <3>5. QED
      <4> HIDE DEF rest
      <4> QED BY <3>3, <3>4
  <2>2. CASE list # "events" /\ m = 0
    <3>1. shown = << >>
      BY <1>2, <2>2
    <3>2. {i \in S : shown = << >> \/ Higher(Last(shown), i)} = S
      BY <3>1
    <3>3. rest = A
      BY <2>2, <3>2 DEF Following, A
    <3>4. N - m = N /\ \A j \in 1..N : m + j = j
      BY <1>1, <2>2
    <3>5. QED
      BY <1>1, <3>3, <3>4
  <2>3. CASE list # "events" /\ m # 0
    <3> DEFINE R == {i \in S : Before(list, A[m], i)}
    <3>1. m \in 1..N
      BY <1>1, <2>3
    <3>2. shown # << >> /\ Last(shown) = A[m]
      BY <1>2, <3>1 DEF Last
    <3>3. {i \in S : shown = << >> \/ Higher(Last(shown), i)} = R
      BY <2>3, <3>2 DEF Before
    <3>4. rest = Ordered(list, R)
      BY <2>3, <3>3 DEF Following
    <3>5. /\ Orders(list, R) /\ Cardinality(R) = N - m
          /\ \A j \in 1..Cardinality(R) : Ordered(list, R)[j] = A[m + j]
      BY <3>1, RestOrdered DEF A, N
    <3> HIDE DEF R
    <3>6. Ordered(list, R) \in Seq(R) /\ Len(Ordered(list, R)) = N - m
      BY <3>5, OrderedSeq
    <3>7. Ordered(list, R) \in Seq(S)
      <4>1. R \subseteq S
        BY DEF R
      <4>2. QED
        BY <3>6, <4>1
    <3>8. QED
      BY <3>4, <3>5, <3>6, <3>7
  <2>4. QED
    BY <2>1, <2>2, <2>3
<1> DEFINE p == Smaller(PageSize, N - m)
<1>4. p \in 0..(N - m) /\ N - m \in Nat
  BY <1>1, UsageAssumption DEF Smaller
<1> HIDE DEF A, N, shown, rest
<1>5. Page(rest) = SubSeq(rest, 1, p)
  BY <1>3 DEF Page
<1> HIDE DEF p
<1>6. SubSeq(rest, 1, p) = [j \in 1..p |-> A[m + j]]
  BY <1>3, <1>4
<1>7. m + p \in m..N
  BY <1>1, <1>4 DEF N
<1>8. shown \o SubSeq(rest, 1, p) = SubSeq(A, 1, m + p)
  <2>1. SubSeq(rest, 1, p) \in Seq(S) /\ Len(SubSeq(rest, 1, p)) = p
    BY <1>3, <1>4
  <2>2. SubSeq(A, 1, m + p) \in Seq(S) /\ Len(SubSeq(A, 1, m + p)) = m + p
    BY <1>1, <1>4, <1>7
  <2> DEFINE left == shown \o SubSeq(rest, 1, p)
             right == SubSeq(A, 1, m + p)
  <2>3. left \in Seq(S) /\ Len(left) = m + p
    BY <1>2, <1>4, <2>1
  <2>4. ASSUME NEW i \in 1..(m + p) PROVE left[i] = right[i]
    <3>1. right[i] = A[i]
      BY <1>1, <1>4, <1>7
    <3>2. CASE i <= m
      <4>1. left[i] = shown[i] /\ i \in 1..m
        BY <1>2, <2>1, <3>2
      <4>2. QED
        BY <1>2, <3>1, <4>1
    <3>3. CASE i > m
      <4>1. i - m \in 1..p
        BY <1>4, <3>3
      <4>2. left[i] = SubSeq(rest, 1, p)[i - m]
        BY <1>2, <1>4, <2>1, <3>3
      <4>3. SubSeq(rest, 1, p)[i - m] = A[m + (i - m)] /\ m + (i - m) = i
        BY <1>1, <1>4, <1>6, <4>1
      <4>4. QED
        BY <3>1, <4>2, <4>3
    <3>4. i \in Int /\ m \in Int
      BY <1>1, <1>4
    <3>5. i <= m \/ i > m
      BY <3>4
    <3>6. QED
      BY <3>2, <3>3, <3>5
  <2>5. QED
    <3> HIDE DEF left, right
    <3>1. right \in Seq(S) /\ Len(right) = m + p
      BY <2>2 DEF right
    <3>2. left = right
      BY <2>3, <2>4, <3>1, SeqEqual
    <3>3. QED
      BY <3>2 DEF left, right
<1>9. QED
  <2>1. First(list, S, m + p) = SubSeq(A, 1, m + p)
    BY DEF First, A
  <2>2. shown \o Page(rest) = First(list, S, m + p)
    BY <1>5, <1>8, <2>1
  <2>3. QED
    BY <1>7, <2>2 DEF shown, rest, N

-----------------------------------------------------------------------------
(* Two events have two ids.                                                *)
Distinct == \A e, f \in recorded : e.id = f.id => e = f

(* Events are ordered by their ids.                                        *)
LEMMA EventsInOrder ==
    ASSUME HourlyInv, Distinct, NEW S \in SUBSET recorded
    PROVE  Orders("events", S)
<1>1. IsFiniteSet(S)
  BY FS_Subset DEF HourlyInv
<1>2. \A e \in S : e.id \in Nat
  BY RecordedTyped
<1>3. \A a, b \in S : Before("events", a, b) <=> a.id > b.id
  BY DEF Before
<1>4. \A a, b \in S : a.id = b.id => a = b
  BY DEF Distinct
<1>5. QED
  BY <1>1, <1>2, <1>3, <1>4 DEF Orders

(* Groups of events are ordered by their counts, then by their buckets.    *)
LEMMA GroupsInOrder ==
    ASSUME NEW In, \A b \in Buckets : IsFiniteSet(In[b])
    PROVE  Orders("values", TrulyGrouped(In))
<1> DEFINE group == [b \in Buckets |-> [id |-> b, requests |-> Cardinality(In[b]),
                                        samples |-> Cardinality(Successes(In[b]))]]
           seen == {b \in Buckets : In[b] # {}}
           S == TrulyGrouped(In)
<1>1. IsFiniteSet(Buckets) /\ Buckets \subseteq Nat
  <2>1. IsFiniteSet(Models \union OldModels)
    BY UsageAssumption, FS_Union
  <2>2. QED
    BY <2>1, UsageAssumption, FS_AddElement DEF Buckets
<1>2. S = {group[b] : b \in seen}
  BY DEF TrulyGrouped
<1>3. \A b \in Buckets : /\ group[b].id = b /\ group[b].requests = Cardinality(In[b])
                         /\ Cardinality(In[b]) \in Nat
  BY FS_CardinalityType
<1> HIDE DEF group
<1>4. IsFiniteSet(S)
  <2> DEFINE f == [b \in seen |-> group[b]]
  <2>1. IsFiniteSet(seen)
    BY <1>1, FS_Subset
  <2>2. f \in Surjection(seen, S)
    BY <1>2 DEF Surjection
  <2> HIDE DEF f, seen, S
  <2>3. QED
    BY <2>1, <2>2, FS_Surjection
<1> HIDE DEF S
<1>5. \A a \in S : a.id \in Nat /\ a.requests \in Nat /\ a = group[a.id]
  BY <1>1, <1>2, <1>3
<1>6. \A a, b \in S : Before("values", a, b) <=>
         a.requests > b.requests \/ (a.requests = b.requests /\ a.id < b.id)
  BY DEF Before, Higher
<1>7. \A a, b \in S : a.id = b.id => a = b
  BY <1>5
<1>8. QED
  BY <1>4, <1>5, <1>6, <1>7 DEF Orders, S

-----------------------------------------------------------------------------
(* What the pages of o are of, when E are the events of its snapshot.      *)
Counting(o, E, b) ==
    {e \in E :
        /\ e.bucket = b
        /\ IF HourOf(e.at) \in BoundaryDetailPlan(o.range, o.clock, {}).replaced
           THEN InRange(e.at, o.range)
           ELSE InHours(HourOf(e.at), o.range)}

Held(o, E) ==
    IF o.list = "events"
    THEN {e \in E : InRange(e.at, o.range) /\ e.at >= o.clock - Retention}
    ELSE TrulyGrouped([b \in Buckets |-> Counting(o, E, b)])

(* The snapshot of open pages is no later than the database, and what has  *)
(* been recorded since is not so old that its details may be gone while    *)
(* the snapshot is available.                                              *)
Open(o, d, E, t) ==
    /\ o = [list |-> o.list, range |-> o.range, clock |-> o.clock,
            sequence |-> o.sequence, shown |-> o.shown]
    /\ o.list \in {"values", "events"} /\ o.range \in Ranges
    /\ o.clock \in Nat /\ o.sequence \in Nat
    /\ d.version = 4 /\ o.sequence <= d.sequence /\ o.clock <= t + MaxDuration
    /\ \A e \in E : e.id > o.sequence => e.at >= o.clock - 2 * MaxDuration

(* They show the first items of what that snapshot held.                   *)
Shows(o, E) ==
    \E m \in 0..Cardinality(Held(o, Upto(o.sequence, E))) :
        o.shown = First(o.list, Held(o, Upto(o.sequence, E)), m)

(* What is listed can be put in order.                                     *)
LEMMA HeldInOrder ==
    ASSUME HourlyInv, Distinct, NEW o, o.list \in {"values", "events"},
           NEW E \in SUBSET recorded
    PROVE  Orders(o.list, Held(o, E))
<1>1. CASE o.list = "events"
  <2>1. Held(o, E) \in SUBSET recorded
    BY <1>1 DEF Held
  <2>2. QED
    BY <1>1, <2>1, EventsInOrder
<1>2. CASE o.list = "values"
  <2> DEFINE In == [b \in Buckets |-> Counting(o, E, b)]
  <2>1. \A b \in Buckets : In[b] \in SUBSET recorded
    BY DEF Counting
  <2>2. \A b \in Buckets : IsFiniteSet(In[b])
    <3> HIDE DEF In
    <3> QED BY <2>1, FS_Subset DEF HourlyInv
  <2>3. Held(o, E) = TrulyGrouped(In)
    BY <1>2 DEF Held
  <2> HIDE DEF In
  <2>4. QED
    BY <1>2, <2>2, <2>3, GroupsInOrder
<1>3. QED
  BY <1>1, <1>2

(* A snapshot that is available has its details: they are at or above the  *)
(* cutoff.                                                                 *)
LEMMA DetailsAvailable ==
    ASSUME HourlyInv, NEW o, o.clock \in Nat, db.version = 4, SnapshotAvailable(o),
           NEW e \in recorded, e.at >= o.clock - Retention
    PROVE  e \in db.details
<1> SUFFICES ASSUME e \notin db.details PROVE FALSE
  OBVIOUS
<1>1. db.cutoff # None /\ e.at < db.cutoff
  BY DEF HourlyInv, DetailInv, DeletedBelowCutoff
<1>2. db.cutoff \in Int /\ e.at \in Nat
  BY <1>1, RecordedTyped DEF HourlyInv, DetailInv
<1>3. db.cutoff <= o.clock - Retention
  BY <1>1, <1>2, UsageAssumption DEF SnapshotAvailable, Overtaken
<1>4. QED
  BY <1>1, <1>2, <1>3, UsageAssumption

(* Then the list is what the snapshot held.                                *)
LEMMA ListedTells ==
    ASSUME HourlyInv, NEW o, Open(o, db, recorded, now), SnapshotAvailable(o)
    PROVE  Listed(o.list, db, o.range, o.clock, o.sequence)
             = Held(o, Upto(o.sequence, recorded))
<1> DEFINE plan == BoundaryDetailPlan(o.range, o.clock, {})
           In == [b \in Buckets |-> Counting(o, Upto(o.sequence, recorded), b)]
<1>1. /\ o.range \in Ranges /\ o.clock \in Nat /\ o.sequence \in Int /\ db.version = 4
      /\ o.range.from \in Nat /\ o.range.to \in Nat /\ {} \in SUBSET Nat
  BY UsageAssumption DEF Open
<1>2. \A e \in recorded : e.at >= o.clock - Retention => e \in db.details
  BY <1>1, DetailsAvailable
<1>3. db.details \subseteq recorded
  BY <1>1 DEF HourlyInv, DetailInv, DeletedBelowCutoff
<1>4. CASE o.list = "events"
  BY <1>2, <1>3, <1>4 DEF Listed, Events, Held, Upto
<1>5. CASE o.list = "values"
  <2>1. /\ plan.replaced = {h \in CutHours(o.range, o.clock, {}) :
                               Larger(h, o.range.from) >= o.clock - Retention}
        /\ plan.segments = {Whole(h, o.range) : h \in plan.replaced}
    <3>1. plan = BoundaryDetailPlan(o.range, o.clock, {})
      BY DEF plan
    <3> HIDE DEF plan
    <3>2. QED
      BY <1>1, <3>1, PlanOf
  <2>2. plan.replaced \in SUBSET {HourOf(t) : t \in Nat}
    <3> HIDE DEF plan
    <3> QED BY <1>1, <2>1 DEF CutHours
  <2>3. ASSUME NEW e \in recorded
        PROVE  /\ e.id > o.sequence /\ InHours(HourOf(e.at), o.range) => e \in db.details
               /\ InRange(e.at, o.range) /\ HourOf(e.at) \in plan.replaced =>
                     e \in db.details
    <3> HIDE DEF plan
    <3>1. e.at \in Nat
      BY RecordedTyped
    <3>2. ASSUME e.id > o.sequence PROVE e \in db.details
      <4>1. e.at >= o.clock - 2 * MaxDuration
        BY <3>2 DEF Open
      <4>2. e.at >= o.clock - Retention
        BY <1>1, <3>1, <4>1, UsageAssumption
      <4>3. QED
        BY <1>2, <4>2
    <3>3. ASSUME InRange(e.at, o.range), HourOf(e.at) \in plan.replaced
          PROVE  e \in db.details
      <4>1. Larger(HourOf(e.at), o.range.from) >= o.clock - Retention
        BY <2>1, <3>3
      <4>2. /\ Larger(HourOf(e.at), o.range.from) <= e.at
            /\ Larger(HourOf(e.at), o.range.from) \in Nat
        BY <1>1, <3>1, <3>3, HourOfTime DEF InRange, Larger
      <4>3. e.at >= o.clock - Retention
        BY <1>1, <3>1, <4>1, <4>2, UsageAssumption
      <4>4. QED
        BY <1>2, <4>3
    <3>4. QED
      BY <3>2, <3>3
  <2>4. ASSUME NEW times, NEW buckets \in SUBSET Buckets
        PROVE  LET told == Told(o.range, plan, o.sequence, times, buckets)
               IN Tally(db, o.range, plan, o.sequence, times, buckets)
                    = [requests |-> Cardinality(told),
                       samples |-> Cardinality(Successes(told))]
    <3> HIDE DEF plan
    <3> QED BY <1>1, <2>1, <2>2, <2>3, TallyTells
  <2>5. ASSUME NEW b \in Buckets
        PROVE  In[b] = Told(o.range, plan, o.sequence, 0..MaxTime, {b})
    <3>1. \A e \in recorded : HourOf(e.at) \in 0..MaxTime /\ e.at \in 0..MaxTime
      BY RecordedTyped
    <3>2. Upto(o.sequence, recorded) \subseteq recorded
      BY DEF Upto
    <3>3. In[b] = Counting(o, Upto(o.sequence, recorded), b)
      OBVIOUS
    <3> HIDE DEF In
    <3>4. QED
      BY <3>1, <3>2, <3>3 DEF Told, Counting
  <2>6. ASSUME NEW b \in Buckets
        PROVE  IsFiniteSet(In[b])
               /\ Tally(db, o.range, plan, o.sequence, 0..MaxTime, {b}) = RowOf(In[b])
    <3>1. In[b] \in SUBSET recorded
      BY DEF Counting, Upto
    <3>2. {b} \in SUBSET Buckets
      OBVIOUS
    <3> HIDE DEF In, plan
    <3>3. Tally(db, o.range, plan, o.sequence, 0..MaxTime, {b})
            = RowOf(Told(o.range, plan, o.sequence, 0..MaxTime, {b}))
      <4> DEFINE told == Told(o.range, plan, o.sequence, 0..MaxTime, {b})
      <4>1. Tally(db, o.range, plan, o.sequence, 0..MaxTime, {b})
              = [requests |-> Cardinality(told), samples |-> Cardinality(Successes(told))]
        BY <2>4, <3>2
      <4> HIDE DEF told
      <4>2. QED
        BY <4>1 DEF RowOf, told
    <3>4. QED
      BY <2>5, <3>1, <3>3, FS_Subset DEF HourlyInv
  <2>7. Groups(db, o.range, plan, o.sequence) = TrulyGrouped(In)
    <3> HIDE DEF In, plan
    <3>1. Counted(o.range, plan, o.sequence, In)
      BY <2>6 DEF Counted
    <3>2. QED
      BY <3>1, GroupsTell
  <2>8. Listed(o.list, db, o.range, o.clock, o.sequence)
          = Groups(db, o.range, plan, o.sequence)
    BY <1>5 DEF Listed, DimensionValues
  <2>9. Held(o, Upto(o.sequence, recorded)) = TrulyGrouped(In)
    BY <1>5 DEF Held
  <2>10. QED
    BY <2>7, <2>8, <2>9
<1>6. QED
  BY <1>4, <1>5 DEF Open

(* No clean-up is ahead of the clock.                                      *)
Clocks ==
    /\ retention # Off => retention.now <= now
    /\ db.cutoff # None => db.cutoff <= now - Retention

(* What every step preserves; it implies PagesTellSnapshot.                *)
PagesInv ==
    /\ HourlyInv /\ Distinct /\ Clocks
    /\ reader = [r \in Readers |-> reader[r]]
    /\ \A r \in Readers :
          reader[r] # None => /\ Open(reader[r], db, recorded, now)
                              /\ Shows(reader[r], recorded)

(* It holds at first: no pages are open.                                   *)
LEMMA PagesInit == Init => PagesInv
<1> SUFFICES ASSUME Init PROVE PagesInv
  OBVIOUS
<1>1. HourlyInv
  BY HourlyInit
<1>2. reader = [r \in Readers |-> reader[r]] /\ \A r \in Readers : reader[r] = None
  BY DEF Init, NoReader
<1>3. retention = Off
  BY DEF Init
<1>4. db.cutoff # None => db.cutoff <= now - Retention
  <2>1. now \in Nat /\ Retention \in Nat
    BY <1>1, UsageAssumption DEF HourlyInv, DetailInv, Timed
  <2>2. QED
    BY <2>1, FirstTables DEF Init
<1>5. Distinct
  <2>1. CASE recorded = {}
    BY <2>1 DEF Distinct
  <2>2. ASSUME NEW history \in Histories, recorded = Recorded(history)
        PROVE  Distinct
    <3> DEFINE b(e) == IF e.outcome = "success"
                          \/ \E f \in Successes(history) : f.bucket = e.bucket
                       THEN e.bucket ELSE Other
               R(e) == [e EXCEPT !.bucket = b(e)]
    <3>1. recorded = {R(e) : e \in history}
      BY <2>2 DEF Recorded
    <3>2. \A e \in history : R(e).id = e.id
      <4> HIDE DEF b
      <4> QED BY HistoriesAreOld
    <3>3. \A e, g \in history : e.id = g.id => e = g
      BY Numbered
    <3> HIDE DEF R
    <3>4. QED
      BY <3>1, <3>2, <3>3 DEF Distinct
  <2>3. QED
    BY <2>1, <2>2 DEF Init
<1>6. QED
  BY <1>1, <1>2, <1>3, <1>4, <1>5 DEF PagesInv, Clocks

(* A request that ends adds one event, beyond the sequence.                *)
LEMMA EventAdded ==
    ASSUME HourlyInv, NEW at \in Recent, NEW model \in Models, NEW outcome \in Outcomes,
           NEW listed \in BOOLEAN, RecordEvent(at, model, outcome, listed)
    PROVE  \E e : /\ recorded' = recorded \union {e}
                  /\ e.id = db.sequence + 1 /\ e.at = at
                  /\ db'.sequence = e.id /\ db'.version = 4 /\ db'.cutoff = db.cutoff
                  /\ UNCHANGED <<now, retention, reader>>
<1>1. PICK e : /\ e.id = db.sequence + 1 /\ e.at = at
               /\ db' = WithEvent(db, e, listed) /\ recorded' = recorded \union {e}
  BY DEF RecordEvent
<1>2. db.version = 4 /\ UNCHANGED <<now, retention, reader>> /\ Tables(db)
  BY DEF RecordEvent, HourlyInv, DetailInv
<1>3. /\ db'.sequence = e.id /\ db'.version = db.version /\ db'.cutoff = db.cutoff
  BY <1>1, <1>2, EventTables, EventSequence
<1>4. QED
  BY <1>1, <1>2, <1>3

(* The ids stay distinct.                                                  *)
LEMMA DistinctStep ==
    ASSUME HourlyInv, Distinct, [Next]_vars
    PROVE  Distinct'
<1>1. ASSUME UNCHANGED recorded PROVE Distinct'
  BY <1>1 DEF Distinct
<1>2. ASSUME NEW at \in Recent, NEW model \in Models, NEW outcome \in Outcomes,
             NEW listed \in BOOLEAN, RecordEvent(at, model, outcome, listed)
      PROVE  Distinct'
  <2>1. PICK e : recorded' = recorded \union {e} /\ e.id = db.sequence + 1
    BY <1>2, EventAdded
  <2>2. \A f \in recorded : f.id \in Nat /\ f.id <= db.sequence
    BY RecordedTyped
  <2>3. db.sequence \in Int
    BY FS_CardinalityType DEF HourlyInv, HourlyTellsAll, TypeOK
  <2>4. \A f \in recorded : f.id # e.id
    BY <2>1, <2>2, <2>3
  <2>5. QED
    BY <2>1, <2>4 DEF Distinct
<1>3. QED
  BY <1>1, <1>2 DEF Next, vars, Upgrade, Tick, Startup, CleanUpBatch, CleanUpFails,
     WaitElapses, Shutdown, TaskReturns, Crash, FirstPage, NextPage, PageRefused, LeavePages

(* A clean-up reads the clock before it moves the cutoff.                  *)
LEMMA ClocksStep ==
    ASSUME HourlyInv, Clocks, [Next]_vars
    PROVE  Clocks'
<1>1. /\ now \in Nat /\ db.cutoff \in Int \union {None} /\ Retention \in Nat
      /\ retention \in Retentions /\ None \notin Int
  BY UsageAssumption DEF HourlyInv, DetailInv, Timed
<1>2. ASSUME now' \in Nat, now <= now', UNCHANGED retention, db'.cutoff = db.cutoff
      PROVE  Clocks'
  <2>1. retention # Off => retention.now \in Nat
    BY <1>1 DEF Retentions
  <2>2. QED
    BY <1>1, <1>2, <2>1 DEF Clocks
<1>3. ASSUME UNCHANGED <<now, db>>, retention' = Off \/ retention'.now \in {0, now}
      PROVE  Clocks'
  BY <1>1, <1>3 DEF Clocks
<1>4. CASE Upgrade
  <2>1. db'.cutoff = db.cutoff /\ UNCHANGED <<now, retention>>
    BY <1>4, UpgradedTables DEF Upgrade, HourlyInv, DetailInv
  <2>2. QED
    BY <1>1, <1>2, <2>1
<1>5. CASE Tick
  BY <1>1, <1>2, <1>5 DEF Tick
<1>6. ASSUME NEW at \in Recent, NEW model \in Models, NEW outcome \in Outcomes,
             NEW listed \in BOOLEAN, RecordEvent(at, model, outcome, listed)
      PROVE  Clocks'
  <2>1. db'.cutoff = db.cutoff /\ UNCHANGED <<now, retention>>
    BY <1>6, EventAdded
  <2>2. QED
    BY <1>1, <1>2, <2>1
<1>7. CASE CleanUpBatch
  <2>1. retention \in [at : {"startup", "waiting", "cleaning", "ended"}, now : Nat,
                       stopping : BOOLEAN] /\ retention # Off
    BY <1>1, <1>7 DEF Retentions, CleanUpBatch, Cleaning, Off
  <2>2. retention.now \in Nat /\ retention.now <= now
    BY <2>1 DEF Clocks
  <2>3. db'.cutoff = Later(db.cutoff, retention.now - Retention) /\ UNCHANGED now
    BY <1>7, CleanedTables DEF CleanUpBatch, HourlyInv, DetailInv
  <2>4. db'.cutoff # None => db'.cutoff <= now - Retention
    BY <1>1, <2>2, <2>3 DEF Later, Clocks
  <2>5. retention'.now <= now
    <3>1. [retention EXCEPT !.at = "waiting", !.now = 0].now = 0
      BY <2>1
    <3>2. retention'.now \in {0, retention.now}
      BY <1>7, <3>1 DEF CleanUpBatch
    <3>3. QED
      BY <1>1, <2>2, <3>2
  <2>6. QED
    BY <2>3, <2>4, <2>5 DEF Clocks
<1>8. CASE Startup \/ TaskReturns \/ Crash
  BY <1>3, <1>8 DEF Startup, TaskReturns, Crash
<1>9. CASE CleanUpFails \/ WaitElapses \/ Shutdown
  <2>1. retention \in [at : {"startup", "waiting", "cleaning", "ended"}, now : Nat,
                       stopping : BOOLEAN] /\ retention # Off
    BY <1>1, <1>9 DEF Retentions, CleanUpFails, WaitElapses, Shutdown, Up, Cleaning, Off
  <2>2. UNCHANGED <<now, db>>
    BY <1>9 DEF CleanUpFails, WaitElapses, Shutdown
  <2>3. CASE CleanUpFails \/ WaitElapses
    <3>1. retention' = Off \/ retention'.now \in {0, now}
      BY <2>1, <2>3 DEF CleanUpFails, WaitElapses
    <3>2. QED
      BY <1>3, <2>2, <3>1
  <2>4. CASE Shutdown
    <3>1. retention'.now = retention.now
      BY <2>1, <2>4 DEF Shutdown
    <3>2. QED
      BY <2>1, <2>2, <3>1 DEF Clocks
  <2>5. QED
    BY <1>9, <2>3, <2>4
<1>10. ASSUME UNCHANGED <<now, db, retention>> PROVE Clocks'
  BY <1>10 DEF Clocks
<1>11. ASSUME NEW r \in Readers,
              \/ \E list \in {"values", "events"}, range \in Ranges, clock \in Soon :
                    FirstPage(r, list, range, clock)
              \/ NextPage(r) \/ PageRefused(r) \/ LeavePages(r)
       PROVE  UNCHANGED <<now, db, retention>>
  BY <1>11 DEF FirstPage, NextPage, PageRefused, LeavePages
<1>12. QED
  BY <1>4, <1>5, <1>6, <1>7, <1>8, <1>9, <1>10, <1>11 DEF Next, vars

(* Pages stay as they are when the database only goes on.                  *)
LEMMA OpenStays ==
    ASSUME HourlyInv, NEW o, Open(o, db, recorded, now), Shows(o, recorded),
           NEW d, d.version = 4, d.sequence = db.sequence, NEW t \in Nat, now <= t
    PROVE  Open(o, d, recorded, t)
<1>1. now \in Nat /\ MaxDuration \in Nat /\ o.clock \in Nat
  BY UsageAssumption DEF HourlyInv, DetailInv, Timed, Open
<1>2. o.clock <= t + MaxDuration
  BY <1>1 DEF Open
<1>3. QED
  BY <1>2 DEF Open

(* An event recorded since is beyond the snapshot, and recent.             *)
LEMMA EventSince ==
    ASSUME HourlyInv, NEW o, Open(o, db, recorded, now), Shows(o, recorded),
           NEW e, e.id = db.sequence + 1, e.at \in Recent,
           NEW d, d.version = 4, d.sequence = e.id
    PROVE  /\ Open(o, d, recorded \union {e}, now)
           /\ Shows(o, recorded \union {e})
<1>1. /\ now \in Nat /\ MaxDuration \in Nat /\ o.clock \in Nat /\ o.sequence \in Nat
      /\ db.sequence \in Nat /\ o.sequence <= db.sequence
      /\ o.clock <= now + MaxDuration
  BY UsageAssumption, FS_CardinalityType
  DEF HourlyInv, HourlyTellsAll, TypeOK, DetailInv, Timed, Open
<1>2. e.at \in Nat /\ now - MaxDuration <= e.at
  BY <1>1, UsageAssumption DEF Recent
<1>3. e.id > o.sequence /\ o.sequence <= d.sequence
  BY <1>1
<1>4. e.at >= o.clock - 2 * MaxDuration
  BY <1>1, <1>2
<1>5. Open(o, d, recorded \union {e}, now)
  BY <1>3, <1>4 DEF Open
<1>6. Upto(o.sequence, recorded \union {e}) = Upto(o.sequence, recorded)
  BY <1>1, <1>3 DEF Upto
<1>7. QED
  BY <1>5, <1>6 DEF Shows

(* The first page of a list of the present database.                       *)
LEMMA FirstShows ==
    ASSUME HourlyInv, Distinct, Clocks, NEW o, o.shown =
              Page(Ordered(o.list, Listed(o.list, db, o.range, o.clock, o.sequence))),
           Open(o, db, recorded, now), o.sequence = db.sequence, now <= o.clock
    PROVE  Shows(o, recorded)
<1> DEFINE S == Held(o, Upto(o.sequence, recorded))
<1>1. SnapshotAvailable(o)
  <2>1. db.sequence \in Int /\ now \in Int /\ o.clock \in Int
    BY FS_CardinalityType
    DEF HourlyInv, HourlyTellsAll, TypeOK, DetailInv, Timed, Open
  <2>2. db.cutoff # None => db.cutoff \in Int /\ db.cutoff <= now - Retention
    BY DEF HourlyInv, DetailInv, Clocks
  <2>3. QED
    BY <2>1, <2>2, UsageAssumption DEF SnapshotAvailable, Overtaken
<1>2. Listed(o.list, db, o.range, o.clock, o.sequence) = S
  BY <1>1, ListedTells
<1>3. Orders(o.list, S)
  <2>1. Upto(o.sequence, recorded) \in SUBSET recorded
    BY DEF Upto
  <2>2. QED
    BY <2>1, HeldInOrder DEF Open
<1> HIDE DEF S
<1>4. /\ Len(Ordered(o.list, S)) = Cardinality(S) /\ Cardinality(S) \in Nat
  BY <1>3, OrderedSeq, OrderedAt
<1> DEFINE m == Smaller(PageSize, Cardinality(S))
<1>5. m \in 0..Cardinality(S)
  BY <1>4, UsageAssumption DEF Smaller
<1>6. o.shown = First(o.list, S, m)
  BY <1>2, <1>4 DEF Page, First
<1> HIDE DEF m
<1>7. QED
  BY <1>5, <1>6 DEF Shows, S

(* What a snapshot held does not depend on the pages shown.                *)
LEMMA HeldSame ==
    ASSUME NEW o, NEW p, NEW E,
           o.list = p.list, o.range = p.range, o.clock = p.clock
    PROVE  Held(o, E) = Held(p, E)
<1>1. \A b \in Buckets : Counting(o, E, b) = Counting(p, E, b)
  BY DEF Counting
<1>2. QED
  BY <1>1 DEF Held

(* A later page goes on where they end.                                    *)
LEMMA NextShows ==
    ASSUME HourlyInv, Distinct, NEW o, Open(o, db, recorded, now), Shows(o, recorded),
           SnapshotAvailable(o), NEW items,
           items = Listed(o.list, db, o.range, o.clock, o.sequence),
           NEW p, p = [o EXCEPT !.shown = @ \o Page(Following(o.list, o.shown, items))]
    PROVE  Open(p, db, recorded, now) /\ Shows(p, recorded)
<1> DEFINE S == Held(o, Upto(o.sequence, recorded))
           more == o.shown \o Page(Following(o.list, o.shown, items))
<1>1. items = S
  BY ListedTells
<1>2. Orders(o.list, S)
  <2>1. Upto(o.sequence, recorded) \in SUBSET recorded
    BY DEF Upto
  <2>2. QED
    BY <2>1, HeldInOrder DEF Open
<1>3. PICK m \in 0..Cardinality(S) : o.shown = First(o.list, S, m)
  BY DEF Shows
<1> HIDE DEF S
<1>4. PICK k \in m..Cardinality(S) : more = First(o.list, S, k)
  BY <1>1, <1>2, <1>3, PageContinues
<1>5. k \in 0..Cardinality(S)
  BY <1>2, OrderedAt
<1> HIDE DEF more
<1>6. p = [list |-> o.list, range |-> o.range, clock |-> o.clock,
           sequence |-> o.sequence, shown |-> more]
  <2>1. PICK list, range, clock, sequence, shown :
           o = [list |-> list, range |-> range, clock |-> clock,
                sequence |-> sequence, shown |-> shown]
    BY DEF Open
  <2>2. p = [o EXCEPT !.shown = more]
    BY DEF more
  <2>3. p = [list |-> list, range |-> range, clock |-> clock,
             sequence |-> sequence, shown |-> more]
    BY <2>1, <2>2
  <2>4. o.list = list /\ o.range = range /\ o.clock = clock /\ o.sequence = sequence
    BY <2>1
  <2>5. QED
    BY <2>3, <2>4
<1>7. /\ p.list = o.list /\ p.range = o.range /\ p.clock = o.clock
      /\ p.sequence = o.sequence /\ p.shown = more
  BY <1>6
<1>8. Open(p, db, recorded, now)
  BY <1>6, <1>7 DEF Open
<1>9. Held(p, Upto(p.sequence, recorded)) = S
  <2>1. PICK E : E = Upto(o.sequence, recorded)
    OBVIOUS
  <2>2. p.list = o.list /\ p.range = o.range /\ p.clock = o.clock
    BY <1>7
  <2>3. Held(p, E) = Held(o, E)
    BY <2>2, HeldSame, ZenonT(60)
  <2>4. S = Held(o, E)
    BY <2>1 DEF S
  <2>5. p.sequence = o.sequence
    BY <1>7
  <2>6. QED
    BY <2>1, <2>3, <2>4, <2>5, Zenon
<1>10. QED
  BY <1>4, <1>5, <1>7, <1>8, <1>9 DEF Shows

(* Every step preserves what is known of the pages.                        *)
LEMMA PagesStep == PagesInv /\ [Next]_vars => PagesInv'
<1> SUFFICES ASSUME PagesInv, [Next]_vars PROVE PagesInv'
  OBVIOUS
<1>1. HourlyInv /\ Distinct /\ Clocks /\ HourlyInv' /\ Distinct' /\ Clocks'
  BY HourlyStep, DistinctStep, ClocksStep DEF PagesInv
<1>2. now \in Nat /\ Tables(db)
  BY <1>1 DEF HourlyInv, DetailInv, Timed
<1>3. ASSUME UNCHANGED <<reader, recorded>>, now' \in Nat, now <= now',
             \/ db.version = 3
             \/ db'.version = db.version /\ db'.sequence = db.sequence
      PROVE  PagesInv'
  <2>1. ASSUME NEW r \in Readers, reader'[r] # None
        PROVE  Open(reader'[r], db', recorded', now') /\ Shows(reader'[r], recorded')
    <3>1. PICK o : o = reader[r]
      OBVIOUS
    <3>2. Open(o, db, recorded, now) /\ Shows(o, recorded) /\ o = reader'[r]
      BY <1>3, <2>1, <3>1 DEF PagesInv
    <3>3. db.version = 4 /\ db'.version = 4 /\ db'.sequence = db.sequence
      BY <1>3, <3>2 DEF Open
    <3>4. Open(o, db', recorded, now')
      BY <1>1, <1>3, <3>2, <3>3, OpenStays
    <3>5. QED
      BY <1>3, <3>2, <3>4
  <2>2. QED
    BY <1>1, <1>3, <2>1 DEF PagesInv
<1>4. CASE Upgrade
  BY <1>2, <1>3, <1>4 DEF Upgrade
<1>5. CASE Tick
  BY <1>2, <1>3, <1>5 DEF Tick
<1>6. ASSUME NEW at \in Recent, NEW model \in Models, NEW outcome \in Outcomes,
             NEW listed \in BOOLEAN, RecordEvent(at, model, outcome, listed)
      PROVE  PagesInv'
  <2>1. PICK e : /\ recorded' = recorded \union {e}
                 /\ e.id = db.sequence + 1 /\ e.at = at
                 /\ db'.sequence = e.id /\ db'.version = 4
                 /\ UNCHANGED <<now, reader>>
    BY <1>1, <1>6, EventAdded
  <2>2. ASSUME NEW r \in Readers, reader'[r] # None
        PROVE  Open(reader'[r], db', recorded', now') /\ Shows(reader'[r], recorded')
    <3>1. PICK o : o = reader[r]
      OBVIOUS
    <3>2. Open(o, db, recorded, now) /\ Shows(o, recorded) /\ o = reader'[r]
      BY <2>1, <2>2, <3>1 DEF PagesInv
    <3>3. PICK d : d = db'
      OBVIOUS
    <3>4. Open(o, d, recorded \union {e}, now) /\ Shows(o, recorded \union {e})
      BY <1>1, <2>1, <3>2, <3>3, EventSince
    <3>5. QED
      BY <2>1, <3>2, <3>3, <3>4
  <2>3. QED
    BY <1>1, <2>1, <2>2 DEF PagesInv
<1>7. CASE CleanUpBatch
  <2>1. db'.version = db.version /\ db'.sequence = db.sequence
    BY <1>2, <1>7, CleanedTables DEF CleanUpBatch
  <2>2. QED
    BY <1>2, <1>3, <1>7, <2>1 DEF CleanUpBatch
<1>8. CASE Startup \/ CleanUpFails \/ WaitElapses \/ Shutdown \/ TaskReturns \/ Crash
  <2>1. UNCHANGED <<now, db, recorded, reader>>
    BY <1>8 DEF Startup, CleanUpFails, WaitElapses, Shutdown, TaskReturns, Crash
  <2>2. QED
    BY <1>2, <1>3, <2>1
<1>9. ASSUME UNCHANGED <<now, db, recorded>>, NEW r \in Readers, NEW p,
             reader' = [reader EXCEPT ![r] = p],
             p # None => Open(p, db, recorded, now) /\ Shows(p, recorded)
      PROVE  PagesInv'
  <2>1. reader' = [q \in Readers |-> IF q = r THEN p ELSE reader[q]]
    BY <1>9 DEF PagesInv
  <2>2. ASSUME NEW q \in Readers, reader'[q] # None
        PROVE  Open(reader'[q], db', recorded', now') /\ Shows(reader'[q], recorded')
    <3>1. CASE q = r
      BY <1>9, <2>1, <2>2, <3>1
    <3>2. CASE q # r
      <4>1. reader'[q] = reader[q]
        BY <2>1, <3>2
      <4>2. Open(reader[q], db, recorded, now) /\ Shows(reader[q], recorded)
        BY <2>2, <4>1 DEF PagesInv
      <4>3. QED
        BY <1>9, <4>1, <4>2
    <3>3. QED
      BY <3>1, <3>2
  <2>3. reader' = [q \in Readers |-> reader'[q]]
    BY <2>1
  <2>4. QED
    BY <1>1, <2>2, <2>3 DEF PagesInv
<1>10. ASSUME NEW r \in Readers, NEW list \in {"values", "events"}, NEW range \in Ranges,
              NEW clock \in Soon, FirstPage(r, list, range, clock)
       PROVE  PagesInv'
  <2> DEFINE p == [list |-> list, range |-> range, clock |-> clock,
                   sequence |-> db.sequence,
                   shown |-> Page(Ordered(list, Listed(list, db, range, clock,
                                                       db.sequence)))]
  <2>1. UNCHANGED <<now, db, recorded>> /\ reader' = [reader EXCEPT ![r] = p]
    BY <1>10 DEF FirstPage
  <2>2. db.version = 4
    BY <1>1, <1>10 DEF FirstPage, Up, Off, HourlyInv, DetailInv, NotUpgraded
  <2>3. clock \in Nat /\ now <= clock /\ clock <= now + MaxDuration
    BY UsageAssumption DEF Soon
  <2>4. \A e \in recorded : e.id \in Nat /\ e.id <= db.sequence
    BY <1>1, RecordedTyped
  <2>5. db.sequence \in Nat
    BY <1>1, FS_CardinalityType DEF HourlyInv, HourlyTellsAll, TypeOK
  <2>6. PICK o : o = p
    OBVIOUS
  <2>7. /\ o.list = list /\ o.range = range /\ o.clock = clock /\ o.sequence = db.sequence
        /\ o.shown = Page(Ordered(list, Listed(list, db, range, clock, db.sequence)))
    BY <2>6
  <2>8. o = [list |-> o.list, range |-> o.range, clock |-> o.clock,
             sequence |-> o.sequence, shown |-> o.shown]
    BY <2>6, <2>7
  <2> HIDE DEF p
  <2>9. Open(o, db, recorded, now)
    BY <2>2, <2>3, <2>4, <2>5, <2>7, <2>8 DEF Open
  <2>10. Shows(o, recorded)
    BY <1>1, <2>3, <2>7, <2>9, FirstShows
  <2>11. QED
    BY <1>9, <2>1, <2>6, <2>9, <2>10
<1>11. ASSUME NEW r \in Readers, NextPage(r) PROVE PagesInv'
  <2>1. PICK o, items : /\ o = reader[r] /\ o # None /\ SnapshotAvailable(o)
                        /\ items = Listed(o.list, db, o.range, o.clock, o.sequence)
    BY <1>11 DEF NextPage
  <2>2. PICK p : p = [o EXCEPT !.shown = @ \o Page(Following(o.list, o.shown, items))]
    OBVIOUS
  <2>3. UNCHANGED <<now, db, recorded>> /\ reader' = [reader EXCEPT ![r] = p]
    BY <1>11, <2>1, <2>2 DEF NextPage
  <2>4. Open(o, db, recorded, now) /\ Shows(o, recorded)
    BY <2>1 DEF PagesInv
  <2>5. Open(p, db, recorded, now) /\ Shows(p, recorded)
    BY <1>1, <2>1, <2>2, <2>4, NextShows
  <2>6. QED
    BY <1>9, <2>3, <2>5
<1>12. ASSUME NEW r \in Readers, PageRefused(r) \/ LeavePages(r) PROVE PagesInv'
  BY <1>9, <1>12 DEF PageRefused, LeavePages
<1>13. CASE UNCHANGED vars
  BY <1>2, <1>3, <1>13 DEF vars
<1>14. QED
  BY <1>4, <1>5, <1>6, <1>7, <1>8, <1>10, <1>11, <1>12, <1>13 DEF Next

(* Pages that show the first items of their snapshot tell it.              *)
LEMMA ShownTell == PagesInv => PagesTellSnapshot
<1> SUFFICES ASSUME PagesInv, NEW r \in Readers, reader[r] # None
             PROVE  /\ IsPrefix(reader[r].shown, AtSnapshot(reader[r]))
                    /\ reader[r].list = "events" /\ SnapshotAvailable(reader[r]) =>
                          \A i \in 1..Len(reader[r].shown) :
                             GetEvent(reader[r].shown[i].id, reader[r])
                               = {reader[r].shown[i]}
  BY DEF PagesTellSnapshot
<1>1. PICK o : o = reader[r]
  OBVIOUS
<1>2. /\ HourlyInv /\ Distinct /\ Open(o, db, recorded, now) /\ Shows(o, recorded)
  BY <1>1 DEF PagesInv
<1> DEFINE S == Held(o, Upto(o.sequence, recorded))
<1>3. HeldAt(o) = S
  <2>1. \A b \in Buckets : CountedAt(o, b) = Counting(o, Upto(o.sequence, recorded), b)
    BY DEF CountedAt, Counting
  <2>2. QED
    BY <2>1 DEF HeldAt, Held
<1>4. Orders(o.list, S)
  <2>1. Upto(o.sequence, recorded) \in SUBSET recorded
    BY DEF Upto
  <2>2. QED
    BY <1>2, <2>1, HeldInOrder DEF Open
<1>5. PICK m \in 0..Cardinality(S) : o.shown = First(o.list, S, m)
  BY <1>2 DEF Shows
<1>6. \/ /\ S \subseteq recorded
         /\ \A e \in S : e.id <= o.sequence /\ e.at >= o.clock - Retention
      \/ o.list # "events"
  BY DEF Held, Upto
<1> HIDE DEF S
<1>7. /\ o.shown \in Seq(S) /\ Len(o.shown) = m
      /\ \A i \in 1..m : o.shown[i] = Ordered(o.list, S)[i] /\ o.shown[i] \in S
  BY <1>4, <1>5, FirstItems
<1>8. IsPrefix(o.shown, AtSnapshot(o))
  <2> DEFINE A == Ordered(o.list, S)
  <2>1. A \in Seq(S) /\ Len(A) = Cardinality(S) /\ Cardinality(S) \in Nat
    BY <1>4, OrderedSeq, OrderedAt
  <2>2. AtSnapshot(o) = A
    BY <1>3 DEF AtSnapshot
  <2>3. o.shown = SubSeq(A, 1, m)
    BY <1>5 DEF First
  <2> HIDE DEF A
  <2>4. SubSeq(o.shown, 1, m) = o.shown
    BY <1>7
  <2>5. QED
    BY <1>7, <2>1, <2>2, <2>3, <2>4 DEF IsPrefix
<1>9. ASSUME o.list = "events", SnapshotAvailable(o), NEW i \in 1..Len(o.shown)
      PROVE  GetEvent(o.shown[i].id, o) = {o.shown[i]}
  <2>1. PICK e : e = o.shown[i]
    OBVIOUS
  <2>2. e \in recorded /\ e.id <= o.sequence /\ e.at >= o.clock - Retention
    BY <1>6, <1>7, <1>9, <2>1
  <2>3. db.version = 4 /\ o.clock \in Nat
    BY <1>2 DEF Open
  <2>4. e \in db.details
    BY <1>2, <1>9, <2>2, <2>3, DetailsAvailable
  <2>5. db.details \subseteq recorded
    BY <1>2, <2>3 DEF HourlyInv, DetailInv, DeletedBelowCutoff
  <2>6. \A f \in db.details : f.id = e.id => f = e
    BY <1>2, <2>2, <2>5 DEF Distinct
  <2>7. QED
    BY <2>1, <2>2, <2>4, <2>6 DEF GetEvent, Upto
<1>10. QED
  BY <1>1, <1>8, <1>9

(* Pages of one snapshot are the beginning of what it held: neither what   *)
(* is recorded or deleted while a client turns pages, nor a restart, leaves*)
(* out a value or an event or shows one twice (list_dimension_values,      *)
(* list_events and get_event).                                             *)
THEOREM PagesTell == Spec => []PagesTellSnapshot
<1>1. Init => PagesInv
  BY PagesInit
<1>2. PagesInv /\ [Next]_vars => PagesInv'
  BY PagesStep
<1>3. PagesInv => PagesTellSnapshot
  BY ShownTell
<1>4. QED
  BY <1>1, <1>2, <1>3, PTL DEF Spec
=============================================================================
