--------------------------- MODULE ComparisonProofs ---------------------------
(***************************************************************************)
(* Theorems about Comparison for every set of bundles and of facts: a      *)
(* report is made of verified and eligible bundles only, and what the      *)
(* verifier pins cannot differ in it.                                      *)
(***************************************************************************)
EXTENDS Comparison, StatisticsProofs

Roles == {"baseline", "candidate"}

\* Past both verifications.
AfterVerification == {"distinct", "eligible", "compare", "print"}

\* A bundle that takes part in a report passed both judgements.
Admitted(bundle) == Verified(bundle) /\ eligible_contract(bundle) # {}

ContractOf(bundle) == CHOOSE x \in eligible_contract(bundle) : TRUE

\* The report is that of the pair, and the pair is fit to be compared, as the
\* step that is next implies.
CompareInv ==
    /\ pair \in [Roles -> Bundles]
    /\ pc = "verifyCandidate" => Verified(pair["baseline"])
    /\ pc \in AfterVerification => \A role \in Roles : Verified(pair[role])
    /\ pc \in {"compare", "print"} => \A role \in Roles : Admitted(pair[role])
    /\ report # {} =>
          /\ \A role \in Roles : Admitted(pair[role])
          /\ report = Compared(pair["baseline"], pair["candidate"],
                               <<ContractOf(pair["baseline"]), ContractOf(pair["candidate"])>>)

\* Every step keeps the invariant: the two verifications, the checks before the
\* comparison and the comparison itself each hand on what they established.
LEMMA CompareInvStep == CompareInv /\ [Next]_vars => CompareInv'
<1> SUFFICES ASSUME CompareInv, [Next]_vars PROVE CompareInv'
  OBVIOUS
<1>1. CASE Verify("baseline", "verifyBaseline", "verifyCandidate")
  BY <1>1 DEF CompareInv, Verify, Finish, AfterVerification, Roles
<1>2. CASE Verify("candidate", "verifyCandidate", "distinct")
  BY <1>2 DEF CompareInv, Verify, Finish, AfterVerification, Roles
<1>3. CASE CheckDistinct
  BY <1>3 DEF CompareInv, CheckDistinct, Finish, AfterVerification
<1>4. CASE CheckEligible
  <2>1. DOMAIN pair = Roles
    BY DEF CompareInv
  <2> QED
    BY <1>4, <2>1 DEF CompareInv, CheckEligible, Finish, AfterVerification, Admitted
<1>5. CASE Compare
  <2>1. /\ pc = "compare" /\ UNCHANGED <<pair, json>> /\ pc' \in {"print", "done"}
        /\ report' = Compared(pair["baseline"], pair["candidate"],
                              <<ContractOf(pair["baseline"]), ContractOf(pair["candidate"])>>)
    BY <1>5 DEF Compare, Finish, ContractOf
  <2>2. \A role \in Roles : Admitted(pair[role])
    BY <2>1 DEF CompareInv
  <2> QED
    BY <2>1, <2>2 DEF CompareInv, AfterVerification, Admitted
<1>6. CASE PrintReport
  BY <1>6 DEF CompareInv, PrintReport, Finish, AfterVerification
<1>7. CASE UNCHANGED vars
  BY <1>7 DEF CompareInv, vars
<1> QED
  BY <1>1, <1>2, <1>3, <1>4, <1>5, <1>6, <1>7 DEF Next, Terminated

\* A report is made only of a pair that was verified and found eligible, and
\* it is the report of that pair and of its contracts.
THEOREM ReportsAreOfAdmitted == Spec => []CompareInv
<1>1. Init => CompareInv
  BY DEF Init, CompareInv, AfterVerification, Roles
<1> QED
  BY <1>1, CompareInvStep, PTL DEF Spec

\* What verification and eligibility say of the provenance of a bundle.
LEMMA AdmittedProvenance ==
    ASSUME NEW bundle \in Bundles, Admitted(bundle), NEW p \in bundle.provenance
    PROVE  /\ p.pinned = TRUE
           /\ p.backend = bundle.target
           /\ p.lineage["engine"] = p.lineage["backend"]
           /\ bundle.target \in {"cpu", "nvidiaCuda"}
           /\ p.nvidia = {} <=> bundle.target = "cpu"
<1>1. EligibleRun(bundle)
  BY DEF Admitted, eligible_contract
<1>2. ProvenanceAccepted(bundle, p)
  BY DEF Admitted, Verified
<1>3. /\ SupportedLineage(p) /\ p.backend = bundle.target
      /\ CASE bundle.target = "cpu" -> p.nvidia = {}
           [] OTHER -> p.generator = V2 /\ (bundle.status = "succeeded" => p.nvidia # {})
  BY <1>1, <1>2 DEF EligibleRun, ProvenanceAccepted
<1>4. bundle.target \in {"cpu", "nvidiaCuda"} /\ p.pinned \in BOOLEAN
  BY ReportAssumption
<1>5. p.pinned = TRUE /\ p.lineage["engine"] = p.lineage["backend"]
  BY <1>3, <1>4 DEF SupportedLineage
<1>6. p.nvidia = {} <=> bundle.target = "cpu"
  BY <1>1, <1>3 DEF EligibleRun
<1> QED
  BY <1>3, <1>4, <1>5, <1>6

\* The contract of an admitted bundle is that of its plan, its target and the
\* supported lineage.
LEMMA ContractOfAdmitted ==
    ASSUME NEW bundle \in Bundles, Admitted(bundle)
    PROVE  ContractOf(bundle) =
             [target |-> bundle.target, backend |-> bundle.target, deviceClass |-> bundle.target,
              modelSha256 |-> TRUE, outputTokens |-> bundle.tokens,
              requestsPerRepetition |-> bundle.requests, warmupRuns |-> bundle.warmups,
              measuredRepetitions |-> bundle.repetitions]
<1>1. ContractOf(bundle) \in eligible_contract(bundle)
  BY DEF Admitted, ContractOf
<1>2. PICK p \in bundle.provenance : ContractOf(bundle) = Contract(bundle, p)
  BY <1>1 DEF eligible_contract
<1>3. p.pinned = TRUE /\ p.backend = bundle.target
  BY AdmittedProvenance
<1> QED
  BY <1>2, <1>3 DEF Contract

\* The verifier pins the software lineage, so eligible bundles differ only in
\* the target and the plan; the backend follows the target, the NVIDIA facts
\* are compared one by one exactly when the targets agree, and the engine's
\* store path relates as the backend's.
THEOREM PlanAndTargetOnly == Spec => []OnlyPlanAndTargetDiffer
<1>1. ASSUME CompareInv PROVE OnlyPlanAndTargetDiffer
  <2> SUFFICES ASSUME NEW r \in report
               PROVE  /\ r.incompatibilities \subseteq
                           {"target", "backend", "deviceClass", "outputTokens",
                            "requestsPerRepetition", "warmupRuns", "measuredRepetitions"}
                      /\ "target" \in r.incompatibilities <=> "backend" \in r.incompatibilities
                      /\ "target" \in r.incompatibilities <=> "nvidia" \in DOMAIN r.environment
                      /\ r.environment["engine"] = r.environment["backend"]
    BY DEF OnlyPlanAndTargetDiffer
  <2> DEFINE b == pair["baseline"]
             c == pair["candidate"]
             x == ContractOf(b)
             y == ContractOf(c)
  <2>1. /\ b \in Bundles /\ c \in Bundles /\ Admitted(b) /\ Admitted(c)
        /\ r \in Compared(b, c, <<x, y>>)
    BY <1>1 DEF CompareInv, Roles
  <2> HIDE DEF b, c
  <2>2. PICK p \in b.provenance, q \in c.provenance :
           /\ r.incompatibilities = contract_differences(x, y)
           /\ r.environment = compare_environment(p, q)
    BY <2>1 DEF Compared
  <2>3. /\ x = [target |-> b.target, backend |-> b.target, deviceClass |-> b.target,
                modelSha256 |-> TRUE, outputTokens |-> b.tokens,
                requestsPerRepetition |-> b.requests, warmupRuns |-> b.warmups,
                measuredRepetitions |-> b.repetitions]
        /\ y = [target |-> c.target, backend |-> c.target, deviceClass |-> c.target,
                modelSha256 |-> TRUE, outputTokens |-> c.tokens,
                requestsPerRepetition |-> c.requests, warmupRuns |-> c.warmups,
                measuredRepetitions |-> c.repetitions]
    BY <2>1, ContractOfAdmitted
  <2> HIDE DEF x, y
  <2>4. /\ r.incompatibilities \subseteq
             {"target", "backend", "deviceClass", "outputTokens",
              "requestsPerRepetition", "warmupRuns", "measuredRepetitions"}
        /\ "target" \in r.incompatibilities <=> b.target # c.target
        /\ "backend" \in r.incompatibilities <=> b.target # c.target
    BY <2>2, <2>3 DEF contract_differences
  <2>5. /\ p.lineage["engine"] = p.lineage["backend"]
        /\ p.nvidia = {} <=> b.target = "cpu" /\ b.target \in {"cpu", "nvidiaCuda"}
    BY <2>1, <2>2, AdmittedProvenance
  <2>6. /\ q.lineage["engine"] = q.lineage["backend"]
        /\ q.nvidia = {} <=> c.target = "cpu" /\ c.target \in {"cpu", "nvidiaCuda"}
    BY <2>1, <2>2, AdmittedProvenance
  <2>7. /\ "engine" \in LineageFacts /\ "backend" \in LineageFacts
        /\ "engine" \notin PlatformFacts /\ "backend" \notin PlatformFacts
        /\ "engine" \notin NvidiaFacts /\ "backend" \notin NvidiaFacts
        /\ "nvidia" \notin PlatformFacts \cup LineageFacts \cup NvidiaFacts
    BY ComparisonAssumption, ReportAssumption
  <2>8. "nvidia" \in DOMAIN r.environment <=> b.target # c.target
    BY <2>1, <2>2, <2>5, <2>6, <2>7, ReportAssumption DEF compare_environment
  <2>9. r.environment["engine"] = r.environment["backend"]
    <3>1. \A f \in {"engine", "backend"} :
             r.environment[f] = environment_field(p.lineage[f], q.lineage[f])
      BY <2>2, <2>7 DEF compare_environment
    <3> QED
      BY <2>5, <2>6, <3>1
  <2> QED
    BY <2>4, <2>8, <2>9
<1> QED
  BY <1>1, ReportsAreOfAdmitted, PTL

-----------------------------------------------------------------------------
(* The observations of all repetitions in one sequence                     *)

\* The function inside FlattenSeq: what the first i sequences join to.
IsFlattening(f, seqs, m) ==
    f = [i \in 1..m |-> IF i = 1 THEN seqs[i] ELSE f[i - 1] \o seqs[i]]

\* There is one, for however many sequences.
LEMMA FlatteningExists ==
    ASSUME NEW seqs, NEW m \in Nat
    PROVE  \E f : IsFlattening(f, seqs, m)
<1> DEFINE T == {i \in Nat : ~\E f : IsFlattening(f, seqs, i)}
<1> SUFFICES ASSUME T # {} PROVE FALSE
  OBVIOUS
<1>1. PICK n \in T : \A i \in T : n <= i
  <2>1. T \in SUBSET Nat
    OBVIOUS
  <2> HIDE DEF T
  <2> QED
    BY <2>1, LeastNatural
<1>2. n # 0
  <2>1. ASSUME n = 0 PROVE FALSE
    <3> DEFINE f == [i \in {} |-> i]
    <3>1. 1..n = {} /\ f = [i \in 1..n |-> IF i = 1 THEN seqs[i] ELSE f[i - 1] \o seqs[i]]
      BY <2>1
    <3>2. IsFlattening(f, seqs, n)
      BY <3>1 DEF IsFlattening
    <3> QED
      BY <3>2
  <2> QED
    BY <2>1
<1>3. n - 1 \in Nat /\ n - 1 \notin T
  BY <1>1, <1>2
<1>4. PICK g : IsFlattening(g, seqs, n - 1)
  BY <1>3
<1> DEFINE h == [i \in 1..n |-> IF i < n THEN g[i]
                                ELSE IF i = 1 THEN seqs[i] ELSE g[i - 1] \o seqs[i]]
<1>5. ASSUME NEW i \in 1..n
      PROVE  h[i] = IF i = 1 THEN seqs[i] ELSE h[i - 1] \o seqs[i]
  <2>1. i # 1 => i - 1 \in 1..n /\ i - 1 < n /\ h[i - 1] = g[i - 1]
    OBVIOUS
  <2>2. CASE i < n
    <3>1. i \in 1..(n - 1) /\ h[i] = g[i]
      BY <2>2
    <3>2. g[i] = IF i = 1 THEN seqs[i] ELSE g[i - 1] \o seqs[i]
      BY <1>4, <3>1 DEF IsFlattening
    <3> QED
      BY <2>1, <3>1, <3>2
  <2>3. CASE i = n
    BY <2>1, <2>3
  <2> QED
    BY <2>2, <2>3
<1>6. h = [i \in 1..n |-> h[i]]
  OBVIOUS
<1> HIDE DEF h
<1>7. IsFlattening(h, seqs, n)
  BY <1>5, <1>6 DEF IsFlattening
<1> QED
  BY <1>7

\* n observations
Observations(s, n) == s \in [1..n -> ObservationSet]

\* c has the terms of a and then those of b.
Follows(c, a, m, b, n) ==
    /\ \A k \in 1..m : c[k] = a[k]
    /\ \A k \in 1..n : c[m + k] = b[k]

\* One sequence after another, position by position.
LEMMA Concatenated ==
    ASSUME NEW m \in Nat, NEW n \in Nat, NEW a, Observations(a, m), NEW b, Observations(b, n)
    PROVE  Observations(a \o b, m + n) /\ Follows(a \o b, a, m, b, n)
<1> DEFINE S == ObservationSet
<1>1. a \in Seq(S) /\ b \in Seq(S) /\ Len(a) = m /\ Len(b) = n
  BY IsSequence DEF Observations
<1> HIDE DEF S
<1>2. /\ a \o b \in Seq(S) /\ Len(a \o b) = m + n
      /\ \A k \in 1..(m + n) : (a \o b)[k] = IF k <= m THEN a[k] ELSE b[k - m]
  BY <1>1, ConcatProperties
<1> DEFINE c == a \o b
<1> HIDE DEF c
<1>3. c \in [1..(m + n) -> S]
  <2>1. c \in Seq(S) /\ Len(c) = m + n
    BY <1>2 DEF c
  <2> QED
    BY <2>1, LenProperties
<1>4. \A k \in 1..(m + n) : c[k] = IF k <= m THEN a[k] ELSE b[k - m]
  BY <1>2 DEF c
<1>5. ASSUME NEW k \in 1..n PROVE c[m + k] = b[k]
  <2>1. m + k \in 1..(m + n) /\ ~(m + k <= m) /\ (m + k) - m = k
    OBVIOUS
  <2> QED
    BY <1>4, <2>1
<1>6. \A k \in 1..m : c[k] = a[k]
  BY <1>4
<1> QED
  BY <1>3, <1>5, <1>6 DEF c, Follows, Observations, S

Fields == {"latency", "ttft"}

\* One value of every observation.
Column(observations, field) == [k \in DOMAIN observations |-> observations[k][field]]

IsColumn(x, s, n, field) ==
    /\ x \in [1..n -> 0..U64Max]
    /\ \A k \in 1..n : x[k] = s[k][field]

LEMMA ColumnType ==
    ASSUME NEW n, NEW s, Observations(s, n), NEW field \in Fields
    PROVE  IsColumn(Column(s, field), s, n, field)
<1>1. \A r \in ObservationSet : r[field] \in 0..U64Max
  BY DEF ObservationSet, Fields
<1> QED
  BY <1>1 DEF Column, IsColumn, Observations

\* The values of two sequences of observations, one after the other.
LEMMA ColumnsJoined ==
    ASSUME NEW m \in Nat, NEW n \in Nat, NEW a, Observations(a, m), NEW b, Observations(b, n),
           NEW field \in Fields
    PROVE  SumFunction(Column(a \o b, field))
             = SumFunction(Column(a, field)) + SumFunction(Column(b, field))
<1> DEFINE c == a \o b
           x == Column(a, field)
           y == Column(b, field)
           z == Column(c, field)
<1>1. Observations(c, m + n) /\ Follows(c, a, m, b, n)
  BY Concatenated
<1> HIDE DEF c
<1>2. IsColumn(x, a, m, field) /\ IsColumn(y, b, n, field) /\ IsColumn(z, c, m + n, field)
  BY <1>1, ColumnType
<1>3. /\ x \in [1..m -> 0..U64Max] /\ y \in [1..n -> 0..U64Max]
      /\ z \in [1..(m + n) -> 0..U64Max]
      /\ \A k \in 1..m : x[k] = a[k][field]
      /\ \A k \in 1..n : y[k] = b[k][field]
      /\ \A k \in 1..(m + n) : z[k] = c[k][field]
  BY <1>2 DEF IsColumn
<1>4. (\A k \in 1..m : c[k] = a[k]) /\ (\A k \in 1..n : c[m + k] = b[k])
  BY <1>1 DEF Follows
<1> HIDE DEF x, y, z
<1>5. x \in [1..m -> Int] /\ y \in [1..n -> Int] /\ z \in [1..(m + n) -> Int]
  BY <1>3
<1>6. ASSUME NEW k \in 1..m PROVE z[k] = x[k]
  <2>1. k \in 1..(m + n)
    OBVIOUS
  <2> QED
    BY <1>3, <1>4, <2>1
<1>7. ASSUME NEW k \in 1..n PROVE z[m + k] = y[k]
  <2>1. m + k \in 1..(m + n)
    OBVIOUS
  <2> QED
    BY <1>3, <1>4, <2>1
<1>8. Joined(z, x, m, y, n)
  BY <1>5, <1>6, <1>7 DEF Joined
<1>9. SumFunction(z) = SumFunction(x) + SumFunction(y)
  BY <1>8, SumOfTwo
<1> QED
  BY <1>9 DEF x, y, z, c

\* m repetitions of n observations.
Rows(seqs, m, n) == Len(seqs) = m /\ \A k \in 1..m : Observations(seqs[k], n)

ColumnSums(seqs, m, field) == [k \in 1..m |-> SumFunction(Column(seqs[k], field))]

LEMMA ColumnSumType ==
    ASSUME NEW n \in Nat, NEW s, Observations(s, n), NEW field \in Fields
    PROVE  SumFunction(Column(s, field)) \in Int
<1> DEFINE x == Column(s, field)
<1>1. IsColumn(x, s, n, field)
  BY ColumnType
<1> HIDE DEF x
<1>2. x \in [1..n -> Int] /\ IsFiniteSet(1..n)
  BY <1>1, FS_Interval DEF IsColumn
<1> QED
  BY <1>2, SumBounded DEF x

\* What the first i repetitions join to: all of their observations, with the sum
\* of their sums.
LEMMA FlattenedUpTo ==
    ASSUME NEW m \in Nat, NEW n \in Nat, NEW seqs, Rows(seqs, m, n),
           NEW g, IsFlattening(g, seqs, m), NEW field \in Fields
    PROVE  \A i \in 1..m :
              /\ Observations(g[i], i * n)
              /\ SumFunction(Column(g[i], field))
                   = SumOver(ColumnSums(seqs, m, field), 1..m)[1..i]
<1> DEFINE sums == ColumnSums(seqs, m, field)
           F == SumOver(sums, 1..m)
           Total(s) == SumFunction(Column(s, field))
           P(i) == Observations(g[i], i * n) /\ Total(g[i]) = F[1..i]
           T == {i \in 1..m : ~P(i)}
<1>1. \A k \in 1..m : Observations(seqs[k], n)
  BY DEF Rows
<1>2. sums \in [1..m -> Int] /\ \A k \in 1..m : sums[k] = Total(seqs[k])
  <2>1. \A k \in 1..m : Total(seqs[k]) \in Int
    BY <1>1, ColumnSumType
  <2> QED
    BY <2>1 DEF ColumnSums
<1>3. IsFiniteSet(1..m)
  BY FS_Interval
<1> HIDE DEF sums
<1>4. F[{}] = 0 /\ \A s \in SUBSET (1..m) : \A x \in s : F[s] = sums[x] + F[s \ {x}]
  <2>1. F[{}] = 0
    BY <1>2, <1>3, SumUnfolds
  <2>2. \A s \in SUBSET (1..m) : \A x \in s : F[s] = sums[x] + F[s \ {x}]
    BY <1>2, <1>3, SumTakesAny
  <2> QED
    BY <2>1, <2>2
<1>5. \A i \in 1..m : g[i] = IF i = 1 THEN seqs[i] ELSE g[i - 1] \o seqs[i]
  BY DEF IsFlattening
<1> HIDE DEF F, Total
<1>6. ASSUME NEW i \in 1..m PROVE F[1..i] = Total(seqs[i]) + F[1..(i - 1)]
  <2>1. 1..i \in SUBSET (1..m) /\ i \in 1..i /\ (1..i) \ {i} = 1..(i - 1)
    OBVIOUS
  <2>2. F[1..i] = sums[i] + F[(1..i) \ {i}]
    BY <1>4, <2>1, Zenon
  <2> QED
    BY <1>2, <2>1, <2>2
<1>7. ASSUME NEW i \in 1..m, i # 1 => P(i - 1) PROVE P(i)
  <2>1. CASE i = 1
    <3>1. 1..(i - 1) = {} /\ i * n = n
      <4>1. 1 * n = n /\ 1..0 = {} /\ 1 - 1 = 0
        OBVIOUS
      <4> QED
        BY <2>1, <4>1
    <3>2. Total(seqs[i]) \in Int
      BY <1>1, ColumnSumType DEF Total
    <3>3. F[1..i] = Total(seqs[i])
      <4>1. F[1..(i - 1)] = 0
        BY <1>4, <3>1
      <4>2. F[1..i] = Total(seqs[i]) + F[1..(i - 1)]
        BY <1>6
      <4> QED
        BY <3>2, <4>1, <4>2
    <3> QED
      BY <1>1, <1>5, <2>1, <3>1, <3>3
  <2>2. CASE i # 1
    <3> DEFINE a == g[i - 1]
               b == seqs[i]
               k == (i - 1) * n
    <3>1. k \in Nat /\ k + n = i * n
      <4>1. i - 1 \in Nat /\ n \in Nat /\ i - 1 \in Int /\ n \in Int
        BY <2>2
      <4>2. \A x, y \in Nat : x * y \in Nat
        OBVIOUS
      <4>3. \A x, y \in Int : (x + 1) * y = x * y + y
        OBVIOUS
      <4>4. (i - 1) + 1 = i
        OBVIOUS
      <4> QED
        BY <4>1, <4>2, <4>3, <4>4
    <3>2. Observations(a, k) /\ Total(a) = F[1..(i - 1)] /\ Observations(b, n)
      BY <1>1, <1>7, <2>2
    <3>3. g[i] = a \o b
      BY <1>5, <2>2
    <3> HIDE DEF a, b, k
    <3>4. Observations(a \o b, k + n)
      BY <3>1, <3>2, Concatenated
    <3>5. Total(a \o b) = Total(a) + Total(b)
      BY <3>1, <3>2, ColumnsJoined DEF Total
    <3>6. Total(a) \in Int /\ Total(b) \in Int
      BY <3>1, <3>2, ColumnSumType DEF Total
    <3>7. F[1..i] = Total(b) + Total(a)
      BY <1>6, <3>2 DEF b
    <3>8. Observations(g[i], i * n)
      BY <3>1, <3>3, <3>4
    <3>9. Total(g[i]) = F[1..i]
      BY <3>3, <3>5, <3>6, <3>7
    <3> QED
      BY <3>8, <3>9
  <2> QED
    BY <2>1, <2>2
<1> HIDE DEF P
<1>8. ASSUME T # {} PROVE FALSE
  <2>1. T \in SUBSET Nat
    OBVIOUS
  <2> HIDE DEF T
  <2>2. PICK i \in T : \A j \in T : i <= j
    BY <1>8, <2>1, LeastNatural
  <2>3. i \in 1..m /\ ~P(i)
    BY <2>2 DEF T
  <2>4. i # 1 => P(i - 1)
    <3> SUFFICES ASSUME i # 1, ~P(i - 1) PROVE FALSE
      OBVIOUS
    <3>1. i - 1 \in T /\ ~(i <= i - 1)
      BY <2>3 DEF T
    <3> QED
      BY <2>2, <3>1
  <2> QED
    BY <1>7, <2>3, <2>4
<1> QED
  BY <1>8 DEF P, F, Total, sums

\* What FlattenSeq joins: all observations, and of each value the sum of the
\* repetitions' sums.
LEMMA Flattened ==
    ASSUME NEW m \in Nat \ {0}, NEW n \in Nat, NEW seqs, Rows(seqs, m, n)
    PROVE  /\ Observations(FlattenSeq(seqs), m * n)
           /\ \A field \in Fields :
                 /\ SumFunction(Column(FlattenSeq(seqs), field))
                      = SumFunction(ColumnSums(seqs, m, field))
                 /\ ColumnSums(seqs, m, field) \in [1..m -> Int]
<1> DEFINE g == CHOOSE f : IsFlattening(f, seqs, m)
<1>1. IsFlattening(g, seqs, m)
  BY FlatteningExists
<1>2. FlattenSeq(seqs) = g[m]
  BY DEF FlattenSeq, IsFlattening, Rows
<1> HIDE DEF g
<1>3. ASSUME NEW field \in Fields
      PROVE  /\ Observations(g[m], m * n)
             /\ SumFunction(Column(g[m], field)) = SumFunction(ColumnSums(seqs, m, field))
             /\ ColumnSums(seqs, m, field) \in [1..m -> Int]
  <2> DEFINE sums == ColumnSums(seqs, m, field)
  <2>1. Observations(g[m], m * n) /\ SumFunction(Column(g[m], field)) = SumOver(sums, 1..m)[1..m]
    <3>1. m \in Nat /\ m \in 1..m
      OBVIOUS
    <3> QED
      BY <1>1, <3>1, FlattenedUpTo
  <2>2. sums \in [1..m -> Int]
    <3>1. \A k \in 1..m : SumFunction(Column(seqs[k], field)) \in Int
      BY ColumnSumType DEF Rows
    <3> QED
      BY <3>1 DEF ColumnSums
  <2> HIDE DEF sums
  <2>3. SumFunction(sums) = SumOver(sums, 1..m)[1..m]
    <3>1. IsFiniteSet(1..m)
      BY FS_Interval
    <3> QED
      BY <2>2, <3>1, SumUnfolds
  <2> QED
    BY <2>1, <2>2, <2>3 DEF sums
<1> QED
  BY <1>2, <1>3 DEF Fields

-----------------------------------------------------------------------------
(* What the verifier and the eligibility leave of a bundle                 *)

\* A measured repetition of n requests.
Repetition(record, n) ==
    /\ record.latency \in 0..U64Max
    /\ record.ttft \in 0..U64Max
    /\ record.throughput \in 0..U64Max
    /\ Observations(record.observations, n)
    /\ AggregateConsistent(record)

\* The records of an admitted bundle.
LEMMA AdmittedRecord ==
    ASSUME NEW bundle \in Bundles, Admitted(bundle)
    PROVE  /\ bundle.warmups \in Nat /\ bundle.repetitions \in Nat \ {0}
           /\ bundle.requests \in Nat \ {0}
           /\ DOMAIN bundle.measurements = 1..(bundle.warmups + bundle.repetitions)
           /\ \A k \in DOMAIN bundle.measurements :
                 /\ bundle.measurements[k].phase = IF k <= bundle.warmups THEN "warmup" ELSE "measured"
                 /\ Repetition(bundle.measurements[k], bundle.requests)
<1> DEFINE w == bundle.warmups
           m == bundle.repetitions
           n == bundle.requests
           records == bundle.measurements
<1>1. w \in Nat /\ m \in Nat \ {0} /\ n \in Nat \ {0}
  <2>1. {n, w, m} \subseteq Nat
    BY BundleAssumption
  <2>2. n > 0 /\ m > 0
    BY ComparisonAssumption
  <2> QED
    BY <2>1, <2>2
<1>2. /\ records \in Seq(Range(records))
      /\ \A record \in Range(records) :
            /\ {record.latency, record.ttft, record.throughput} \subseteq 0..U64Max
            /\ record.observations \in Seq(ObservationSet)
  BY BundleAssumption
<1>3. EligibleRun(bundle) /\ \A record \in Range(records) : record.generator = V2
  BY DEF Admitted, eligible_contract
<1>4. bundle.status = "succeeded" /\ bundle.runtime = "llamaCpp"
  BY <1>3 DEF EligibleRun
<1>5. expected_measurement_counts(bundle) = {<<w, m>>}
  BY <1>4 DEF expected_measurement_counts
<1>6. Len(records) = w + m /\ \A k \in DOMAIN records : RecordAccepted(bundle, w, k)
  BY <1>5 DEF Admitted, Verified
<1>7. DOMAIN records = 1..(w + m) /\ \A k \in DOMAIN records : records[k] \in Range(records)
  BY <1>2, <1>6, LenProperties DEF Range
<1>8. ASSUME NEW k \in DOMAIN records
      PROVE  records[k].phase = (IF k <= w THEN "warmup" ELSE "measured") /\ Repetition(records[k], n)
  <2> DEFINE record == records[k]
  <2>1. record \in Range(records)
    BY <1>7
  <2>2. /\ record.latency \in 0..U64Max /\ record.ttft \in 0..U64Max
        /\ record.throughput \in 0..U64Max /\ record.observations \in Seq(ObservationSet)
    BY <1>2, <2>1
  <2>3. record.generator = "v2"
    BY <1>3, <2>1 DEF V2
  <2>4. RecordAccepted(bundle, w, k)
    BY <1>6
  <2>5. record.phase = IF k <= w THEN "warmup" ELSE "measured"
    BY <2>4 DEF RecordAccepted
  <2>6. Len(record.observations) = n /\ AggregateConsistent(record)
    BY <1>4, <2>3, <2>4 DEF RecordAccepted, V2
  <2>7. Observations(record.observations, n)
    BY <2>2, <2>6, LenProperties DEF Observations
  <2> QED
    BY <2>2, <2>5, <2>6, <2>7 DEF Repetition
<1> QED
  BY <1>1, <1>7, <1>8

\* m measured repetitions of n requests each, and no other record.
Repetitions(records, m, n) ==
    /\ m \in Nat \ {0} /\ n \in Nat \ {0}
    /\ records = [k \in 1..m |-> records[k]]
    /\ \A k \in 1..m : Repetition(records[k], n)

LEMMA AdmittedRepetitions ==
    ASSUME NEW bundle \in Bundles, Admitted(bundle)
    PROVE  Repetitions(Measured(bundle), bundle.repetitions, bundle.requests)
<1> DEFINE w == bundle.warmups
           m == bundle.repetitions
           n == bundle.requests
           N == w + m
           records == bundle.measurements
           kept == {k \in DOMAIN records : records[k].phase = "measured"}
           tail == [k \in 1..m |-> records[w + k]]
<1>1. /\ w \in Nat /\ m \in Nat \ {0} /\ n \in Nat \ {0} /\ DOMAIN records = 1..N
      /\ \A k \in 1..N :
            /\ records[k].phase = IF k <= w THEN "warmup" ELSE "measured"
            /\ Repetition(records[k], n)
  BY AdmittedRecord
<1>2. Measured(bundle) = Filtered(records, kept)
  BY DEF Measured
<1> HIDE DEF w, m, n, records
<1>3. N \in Nat /\ w \in 0..N /\ N - w = m
  BY <1>1
<1>4. kept = (w + 1)..N
  <2>1. ASSUME NEW k \in 1..N PROVE records[k].phase = "measured" <=> k > w
    BY <1>1
  <2> QED
    BY <1>1, <2>1
<1> HIDE DEF kept, N
<1>5. Filtered(records, (w + 1)..N) = [k \in 1..(N - w) |-> records[w + k]]
  BY <1>3, FilteredTail
<1>6. Measured(bundle) = tail
  BY <1>2, <1>3, <1>4, <1>5
<1>7. \A k \in 1..m : Repetition(tail[k], n)
  BY <1>1, <1>3 DEF N
<1> QED
  BY <1>1, <1>6, <1>7 DEF Repetitions, m, n

-----------------------------------------------------------------------------
(* The statistics of an admitted bundle                                    *)

\* n unsigned words, and at least one.
Words(values, n) == n \in Nat \ {0} /\ values \in [1..n -> 0..U64Max]

Naturals3(d) == d.mean \in Nat /\ d.p50 \in Nat /\ d.p95 \in Nat

\* There is always exactly one description, of natural numbers.
LEMMA WordsDescribed ==
    ASSUME NEW n, NEW values, Words(values, n)
    PROVE  /\ describe_micros(values) = {Description(values)}
           /\ Naturals3(Description(values))
           /\ Description(values).mean = SumFunction(values) \div n
           /\ mean_u64(values) = {SumFunction(values) \div n}
           /\ SumFunction(values) \div n \in Nat
           /\ Len(values) = n
<1>1. n \in Nat \ {0} /\ values \in [1..n -> 0..U64Max]
  BY DEF Words
<1>2. /\ values \in [1..n -> Nat] /\ values \in [1..n -> Int]
      /\ \A k \in 1..n : values[k] <= U64Max
      /\ Range(values) \subseteq Nat
  BY <1>1, WidthAssumption DEF Range
<1>3. Len(values) = n
  BY <1>1, IsSequence
<1>4. describe_micros(values) = {Description(values)}
  BY <1>1, <1>2, Described
<1>5. mean_u64(values) = {SumFunction(values) \div n} /\ SumFunction(values) \div n \in Nat
  BY <1>1, <1>2, MeanOf
<1>6. /\ nearest_rank(Sorted(values), 50) \in Range(values)
      /\ nearest_rank(Sorted(values), 95) \in Range(values)
  <2>1. 50 \in 1..100 /\ 95 \in 1..100
    OBVIOUS
  <2> QED
    BY <1>1, <1>2, <2>1, NearestRank
<1>7. /\ Description(values).mean = SumFunction(values) \div n
      /\ Description(values).p50 = nearest_rank(Sorted(values), 50)
      /\ Description(values).p95 = nearest_rank(Sorted(values), 95)
  BY <1>3 DEF Description
<1>8. Naturals3(Description(values))
  BY <1>2, <1>5, <1>6, <1>7 DEF Naturals3
<1> QED
  BY <1>3, <1>4, <1>5, <1>7, <1>8

\* The aggregates of the repetitions.
LEMMA RepetitionValues ==
    ASSUME NEW records, NEW m, NEW n, Repetitions(records, m, n)
    PROVE  /\ Words(Latencies(records), m) /\ Words(Ttfts(records), m)
           /\ Words(Throughputs(records), m)
           /\ Len(records) = m
<1>1. /\ m \in Nat \ {0} /\ DOMAIN records = 1..m /\ records = [k \in 1..m |-> records[k]]
      /\ \A k \in 1..m : /\ records[k].latency \in 0..U64Max
                         /\ records[k].ttft \in 0..U64Max
                         /\ records[k].throughput \in 0..U64Max
  BY DEF Repetitions, Repetition
<1>2. Words(Latencies(records), m) /\ Words(Ttfts(records), m) /\ Words(Throughputs(records), m)
  BY <1>1 DEF Words, Latencies, Ttfts, Throughputs
<1>3. Len(records) = m
  <2> DEFINE S == {records[k] : k \in 1..m}
  <2>1. records \in [1..m -> S] /\ m \in Nat
    BY <1>1
  <2> HIDE DEF S
  <2> QED
    BY <2>1, IsSequence
<1> QED
  BY <1>2, <1>3

\* The columns of observations.
LEMMA ColumnWords ==
    ASSUME NEW n \in Nat \ {0}, NEW s, Observations(s, n)
    PROVE  /\ Latencies(s) = Column(s, "latency") /\ Ttfts(s) = Column(s, "ttft")
           /\ Words(Latencies(s), n) /\ Words(Ttfts(s), n) /\ Len(s) = n
<1>1. Latencies(s) = Column(s, "latency") /\ Ttfts(s) = Column(s, "ttft")
  BY DEF Latencies, Ttfts, Column
<1>2. IsColumn(Column(s, "latency"), s, n, "latency") /\ IsColumn(Column(s, "ttft"), s, n, "ttft")
  <2>1. "latency" \in Fields /\ "ttft" \in Fields
    BY DEF Fields
  <2> QED
    BY <2>1, ColumnType
<1>3. Words(Latencies(s), n) /\ Words(Ttfts(s), n)
  BY <1>1, <1>2 DEF IsColumn, Words
<1>4. Len(s) = n
  BY IsSequence DEF Observations
<1> QED
  BY <1>1, <1>3, <1>4

\* The sums of the observations of each repetition.
LatencySums(records, m) == [k \in 1..m |-> SumFunction(Latencies(records[k].observations))]

TtftSums(records, m) == [k \in 1..m |-> SumFunction(Ttfts(records[k].observations))]

\* All observations of the measured repetitions.
LEMMA RequestValues ==
    ASSUME NEW bundle, NEW m, NEW n, Repetitions(Measured(bundle), m, n)
    PROVE  /\ Words(Latencies(request_values(bundle)), m * n)
           /\ Words(Ttfts(request_values(bundle)), m * n)
           /\ Len(request_values(bundle)) = m * n
           /\ SumFunction(Latencies(request_values(bundle)))
                = SumFunction(LatencySums(Measured(bundle), m))
           /\ SumFunction(Ttfts(request_values(bundle)))
                = SumFunction(TtftSums(Measured(bundle), m))
<1> DEFINE records == Measured(bundle)
           seqs == [k \in 1..m |-> records[k].observations]
           all == FlattenSeq(seqs)
<1>1. /\ m \in Nat \ {0} /\ n \in Nat \ {0} /\ DOMAIN records = 1..m
      /\ \A k \in 1..m : Observations(records[k].observations, n)
  BY DEF Repetitions, Repetition
<1>2. request_values(bundle) = all
  BY <1>1 DEF request_values
<1> HIDE DEF records
<1>3. Rows(seqs, m, n)
  <2> DEFINE S == {seqs[k] : k \in 1..m}
  <2>1. seqs \in [1..m -> S] /\ m \in Nat /\ \A k \in 1..m : Observations(seqs[k], n)
    BY <1>1
  <2> HIDE DEF S, seqs
  <2>2. Len(seqs) = m
    BY <2>1, IsSequence
  <2> QED
    BY <2>1, <2>2 DEF Rows
<1>4. /\ Observations(all, m * n)
      /\ \A field \in Fields :
            SumFunction(Column(all, field)) = SumFunction(ColumnSums(seqs, m, field))
  <2> HIDE DEF seqs
  <2>1. n \in Nat
    BY <1>1
  <2> QED
    BY <1>1, <1>3, <2>1, Flattened
<1>5. m * n \in Nat \ {0}
  <2>1. m * 0 < m * n /\ m * n \in Int
    BY <1>1, Monotone
  <2> QED
    BY <1>1, <2>1
<1>6. ColumnSums(seqs, m, "latency") = LatencySums(records, m)
  BY DEF ColumnSums, LatencySums, Column, Latencies
<1>7. ColumnSums(seqs, m, "ttft") = TtftSums(records, m)
  BY DEF ColumnSums, TtftSums, Column, Ttfts
<1> HIDE DEF all, seqs
<1>8. /\ Latencies(all) = Column(all, "latency") /\ Ttfts(all) = Column(all, "ttft")
      /\ Words(Latencies(all), m * n) /\ Words(Ttfts(all), m * n) /\ Len(all) = m * n
  BY <1>4, <1>5, ColumnWords
<1>9. "latency" \in Fields /\ "ttft" \in Fields
  BY DEF Fields
<1> QED
  BY <1>2, <1>4, <1>6, <1>7, <1>8, <1>9 DEF records

-----------------------------------------------------------------------------
(* The two scopes of a report                                              *)

MetricsOf(x, y) ==
    [mean |-> compare_metric(x.mean, y.mean), p50 |-> compare_metric(x.p50, y.p50),
     p95 |-> compare_metric(x.p95, y.p95)]

RequestLatency(b) == Description(Latencies(request_values(b)))

RequestTtft(b) == Description(Ttfts(request_values(b)))

RequestCount(b) == Len(request_values(b))

RepetitionLatency(b) == Description(Latencies(Measured(b)))

RepetitionTtft(b) == Description(Ttfts(Measured(b)))

RepetitionCount(b) == Len(Measured(b))

Rate(b) == SumFunction(Throughputs(Measured(b))) \div Len(Measured(b))

RequestReport(b, c) ==
    [counts |-> <<RequestCount(b), RequestCount(c)>>,
     latency |-> MetricsOf(RequestLatency(b), RequestLatency(c)),
     ttft |-> MetricsOf(RequestTtft(b), RequestTtft(c))]

RepetitionReport(b, c) ==
    [counts |-> <<RepetitionCount(b), RepetitionCount(c)>>,
     latency |-> MetricsOf(RepetitionLatency(b), RepetitionLatency(c)),
     ttft |-> MetricsOf(RepetitionTtft(b), RepetitionTtft(c)),
     throughput |-> compare_metric(Rate(b), Rate(c))]

\* What is described of an admitted bundle: one description for each scope and
\* value, of natural numbers.
LEMMA DescribedBundle ==
    ASSUME NEW bundle \in Bundles, Admitted(bundle)
    PROVE  /\ describe_micros(Latencies(request_values(bundle))) = {RequestLatency(bundle)}
           /\ describe_micros(Ttfts(request_values(bundle))) = {RequestTtft(bundle)}
           /\ describe_micros(Latencies(Measured(bundle))) = {RepetitionLatency(bundle)}
           /\ describe_micros(Ttfts(Measured(bundle))) = {RepetitionTtft(bundle)}
           /\ mean_u64(Throughputs(Measured(bundle))) = {Rate(bundle)}
           /\ Naturals3(RequestLatency(bundle)) /\ Naturals3(RequestTtft(bundle))
           /\ Naturals3(RepetitionLatency(bundle)) /\ Naturals3(RepetitionTtft(bundle))
           /\ Rate(bundle) \in Nat
<1> DEFINE m == bundle.repetitions
           n == bundle.requests
<1>1. Repetitions(Measured(bundle), m, n)
  BY AdmittedRepetitions
<1> HIDE DEF m, n
<1>2. /\ Words(Latencies(request_values(bundle)), m * n)
      /\ Words(Ttfts(request_values(bundle)), m * n)
  BY <1>1, RequestValues
<1>3. /\ Words(Latencies(Measured(bundle)), m) /\ Words(Ttfts(Measured(bundle)), m)
      /\ Words(Throughputs(Measured(bundle)), m) /\ Len(Measured(bundle)) = m
  BY <1>1, RepetitionValues
<1>4. /\ describe_micros(Latencies(request_values(bundle))) = {RequestLatency(bundle)}
      /\ Naturals3(RequestLatency(bundle))
  BY <1>2, WordsDescribed DEF RequestLatency
<1>5. /\ describe_micros(Ttfts(request_values(bundle))) = {RequestTtft(bundle)}
      /\ Naturals3(RequestTtft(bundle))
  BY <1>2, WordsDescribed DEF RequestTtft
<1>6. /\ describe_micros(Latencies(Measured(bundle))) = {RepetitionLatency(bundle)}
      /\ Naturals3(RepetitionLatency(bundle))
  BY <1>3, WordsDescribed DEF RepetitionLatency
<1>7. /\ describe_micros(Ttfts(Measured(bundle))) = {RepetitionTtft(bundle)}
      /\ Naturals3(RepetitionTtft(bundle))
  BY <1>3, WordsDescribed DEF RepetitionTtft
<1>8. mean_u64(Throughputs(Measured(bundle))) = {Rate(bundle)} /\ Rate(bundle) \in Nat
  BY <1>3, WordsDescribed DEF Rate
<1> QED
  BY <1>4, <1>5, <1>6, <1>7, <1>8

\* The comparison of two admitted bundles has both of its scopes.
LEMMA ScopesOfReport ==
    ASSUME NEW b \in Bundles, Admitted(b), NEW c \in Bundles, Admitted(c)
    PROVE  /\ compare_requests(b, c) = {RequestReport(b, c)}
           /\ compare_repetitions(b, c) = {RepetitionReport(b, c)}
<1>1. /\ describe_micros(Latencies(request_values(b))) = {RequestLatency(b)}
      /\ describe_micros(Latencies(request_values(c))) = {RequestLatency(c)}
      /\ describe_micros(Ttfts(request_values(b))) = {RequestTtft(b)}
      /\ describe_micros(Ttfts(request_values(c))) = {RequestTtft(c)}
  BY DescribedBundle
<1>2. /\ describe_micros(Latencies(Measured(b))) = {RepetitionLatency(b)}
      /\ describe_micros(Latencies(Measured(c))) = {RepetitionLatency(c)}
      /\ describe_micros(Ttfts(Measured(b))) = {RepetitionTtft(b)}
      /\ describe_micros(Ttfts(Measured(c))) = {RepetitionTtft(c)}
      /\ mean_u64(Throughputs(Measured(b))) = {Rate(b)}
      /\ mean_u64(Throughputs(Measured(c))) = {Rate(c)}
  BY DescribedBundle
<1>3. ASSUME NEW x, NEW y, NEW d, NEW e, describe_micros(x) = {d}, describe_micros(y) = {e}
      PROVE  compare_distribution(x, y) = {MetricsOf(d, e)}
  BY <1>3 DEF compare_distribution, MetricsOf
<1>4. /\ compare_distribution(Latencies(request_values(b)), Latencies(request_values(c)))
            = {MetricsOf(RequestLatency(b), RequestLatency(c))}
      /\ compare_distribution(Ttfts(request_values(b)), Ttfts(request_values(c)))
            = {MetricsOf(RequestTtft(b), RequestTtft(c))}
  BY <1>1, <1>3
<1>5. /\ compare_distribution(Latencies(Measured(b)), Latencies(Measured(c)))
            = {MetricsOf(RepetitionLatency(b), RepetitionLatency(c))}
      /\ compare_distribution(Ttfts(Measured(b)), Ttfts(Measured(c)))
            = {MetricsOf(RepetitionTtft(b), RepetitionTtft(c))}
  BY <1>2, <1>3
<1>6. compare_requests(b, c) = {RequestReport(b, c)}
  BY <1>4 DEF compare_requests, RequestReport, RequestCount
<1>7. compare_repetitions(b, c) = {RepetitionReport(b, c)}
  BY <1>2, <1>5 DEF compare_repetitions, RepetitionReport, RepetitionCount
<1> QED
  BY <1>6, <1>7

\* The report of a pair, by the provenance of its bundles.
ReportOf(b, c, contracts, p, q) ==
    LET differences == contract_differences(contracts[1], contracts[2])
        compatible == differences = {}
    IN  [compatible |-> compatible, incompatibilities |-> differences,
         environment |-> compare_environment(p, q),
         requests |-> IF compatible THEN compare_requests(b, c) ELSE {},
         repetitions |-> IF compatible THEN compare_repetitions(b, c) ELSE {},
         resources |-> IF compatible THEN compare_resources(b.resources, c.resources) ELSE {}]

LEMMA Reports ==
    ASSUME NEW b, NEW c, NEW contracts
    PROVE  \A r : r \in Compared(b, c, contracts)
             <=> \E p \in b.provenance, q \in c.provenance : r = ReportOf(b, c, contracts, p, q)
<1>1. Compared(b, c, contracts)
        = {ReportOf(b, c, contracts, p, q) : p \in b.provenance, q \in c.provenance}
  BY DEF Compared, ReportOf
<1> QED
  BY <1>1

\* The expects: both scopes of a compatible report are there when it is made,
\* and still when it is printed.
PanicFree ==
    /\ exit # EXIT_PANIC
    /\ pc = "print" => \A r \in report : r.compatible => r.requests # {} /\ r.repetitions # {}

LEMMA PanicFreeStep == CompareInv /\ PanicFree /\ [Next]_vars => PanicFree'
<1> SUFFICES ASSUME CompareInv, PanicFree, [Next]_vars PROVE PanicFree'
  OBVIOUS
<1> USE DEF EXIT_PANIC, EXIT_SUCCESS, EXIT_FINALIZATION_FAILURE
<1>1. CASE Verify("baseline", "verifyBaseline", "verifyCandidate")
  BY <1>1 DEF PanicFree, Verify, Finish
<1>2. CASE Verify("candidate", "verifyCandidate", "distinct")
  BY <1>2 DEF PanicFree, Verify, Finish
<1>3. CASE CheckDistinct
  BY <1>3 DEF PanicFree, CheckDistinct, Finish
<1>4. CASE CheckEligible
  BY <1>4 DEF PanicFree, CheckEligible, Finish
<1>5. CASE Compare
  <2> DEFINE b == pair["baseline"]
             c == pair["candidate"]
             contracts == <<ContractOf(b), ContractOf(c)>>
  <2>1. /\ pc = "compare"
        /\ report' = Compared(b, c, contracts)
    BY <1>5 DEF Compare, ContractOf
  <2>2. b \in Bundles /\ c \in Bundles /\ Admitted(b) /\ Admitted(c)
    BY <2>1 DEF CompareInv, Roles
  <2> HIDE DEF b, c, contracts
  <2>3. b.provenance # {} /\ c.provenance # {}
    BY <2>2 DEF Admitted, eligible_contract
  <2>4. report' # {}
    <3>1. PICK p \in b.provenance, q \in c.provenance : TRUE
      BY <2>3
    <3>2. ReportOf(b, c, contracts, p, q) \in Compared(b, c, contracts)
      BY <3>1, Reports
    <3> QED
      BY <2>1, <3>2
  <2>5. compare_requests(b, c) # {} /\ compare_repetitions(b, c) # {}
    BY <2>2, ScopesOfReport
  <2>6. \A r \in report' : r.compatible => r.requests # {} /\ r.repetitions # {}
    <3> SUFFICES ASSUME NEW r \in report', r.compatible
                 PROVE  r.requests # {} /\ r.repetitions # {}
      OBVIOUS
    <3>1. PICK p \in b.provenance, q \in c.provenance : r = ReportOf(b, c, contracts, p, q)
      BY <2>1, Reports
    <3>2. contract_differences(contracts[1], contracts[2]) = {}
      BY <3>1 DEF ReportOf
    <3>3. r.requests = compare_requests(b, c) /\ r.repetitions = compare_repetitions(b, c)
      BY <3>1, <3>2 DEF ReportOf
    <3> QED
      BY <2>5, <3>3
  <2>7. exit' = exit
    BY <1>5, <2>4, <2>6 DEF Compare
  <2> QED
    BY <2>6, <2>7 DEF PanicFree
<1>6. CASE PrintReport
  BY <1>6 DEF PanicFree, PrintReport, Finish
<1>7. CASE UNCHANGED vars
  BY <1>7 DEF PanicFree, vars
<1> QED
  BY <1>1, <1>2, <1>3, <1>4, <1>5, <1>6, <1>7 DEF Next, Terminated

\* No expect of comparison.rs or of print_human_comparison fails: verification
\* and eligibility leave at least one repetition of at least one request on
\* each side, and whatever fits a u64 has a mean that does.
THEOREM PanicsNever == Spec => []NeverPanics
<1>1. Init => PanicFree
  BY DEF Init, PanicFree, EXIT_PANIC
<1>2. PanicFree => NeverPanics
  BY DEF PanicFree, NeverPanics
<1> QED
  BY <1>1, <1>2, PanicFreeStep, ReportsAreOfAdmitted, PTL DEF Spec

-----------------------------------------------------------------------------
(* Both directions of a comparison                                         *)

\* The percentage is cut off toward zero, whichever way the metric moved.
LEMMA MetricTruncated ==
    ASSUME NEW a \in Nat, NEW b \in Nat
    PROVE  Truncated(compare_metric(a, b))
<1> DEFINE metric == compare_metric(a, b)
           d == b - a
           s == d * 100000
           size == GreaterOf(d, -d) * 100000
           q == size \div a
           p == truncated_div(s, a)
<1>1. /\ metric.baseline = a /\ metric.candidate = b /\ metric.delta = d
      /\ metric.percent = {truncated_div(s, x) : x \in {a} \ {0}}
  BY DEF compare_metric
<1>2. d \in Int /\ s \in Int /\ size \in Nat
      /\ (d >= 0 => s >= 0 /\ size = s /\ GreaterOf(d, -d) = d)
      /\ (d < 0 => s < 0 /\ size = -s /\ GreaterOf(d, -d) = -d)
  BY DEF GreaterOf
<1>3. metric.percent = {} <=> a = 0
  BY <1>1
<1>4. ASSUME a # 0
      PROVE  /\ p * d >= 0
             /\ GreaterOf(p, -p) * a <= size
             /\ size < (GreaterOf(p, -p) + 1) * a
  <2>1. a \in Nat \ {0}
    BY <1>4
  <2>2. p = IF d >= 0 THEN q ELSE -q
    BY <1>2 DEF truncated_div
  <2> HIDE DEF size, p, s, d
  <2>3. q \in Int /\ size % a \in 0..(a - 1) /\ size = a * q + (size % a)
    <3>1. size \in Int
      BY <1>2
    <3> QED
      BY <2>1, <3>1, Division
  <2> HIDE DEF q
  <2>4. PICK t \in Int : t = a * q
    BY <2>1, <2>3, Monotone
  <2>5. a * (q + 1) = t + a /\ a * q = q * a /\ a * (q + 1) = (q + 1) * a
    <3>1. \A x, y \in Int : x * y = y * x
      OBVIOUS
    <3>2. a \in Int /\ q \in Int /\ q + 1 \in Int /\ 1 \in Int
      BY <2>1, <2>3
    <3>3. a * (q + 1) = a * q + a * 1 /\ a * 1 = a
      BY <3>2, Distributes
    <3> QED
      BY <2>4, <3>1, <3>2, <3>3
  <2>6. t <= size /\ size < t + a
    BY <2>1, <2>3, <2>4
  <2>7. q \in Nat
    <3>1. a * 0 < a * (q + 1)
      BY <1>2, <2>1, <2>5, <2>6
    <3>2. 0 < q + 1
      BY <2>1, <2>3, <3>1, Monotone
    <3> QED
      BY <2>3, <3>2
  <2>8. GreaterOf(p, -p) = q
    BY <2>2, <2>7 DEF GreaterOf
  <2>9. p * d >= 0
    <3>1. \A x, y \in Nat : x * y >= 0 /\ (-x) * (-y) >= 0
      OBVIOUS
    <3>2. CASE d >= 0
      <4>1. d \in Nat /\ p = q
        BY <1>2, <2>2, <3>2
      <4> QED
        BY <2>7, <3>1, <4>1
    <3>3. CASE d < 0
      <4>1. -d \in Nat /\ p = -q /\ -(-d) = d
        BY <1>2, <2>2, <3>3
      <4>2. (-q) * (-(-d)) >= 0
        BY <2>7, <3>1, <4>1
      <4> QED
        BY <4>1, <4>2
    <3> QED
      BY <1>2, <3>2, <3>3
  <2>10. q * a <= size /\ size < (q + 1) * a
    BY <2>4, <2>5, <2>6
  <2> QED
    BY <2>8, <2>9, <2>10
<1>5. metric.delta = metric.candidate - metric.baseline
  BY <1>1
<1>6. ASSUME NEW x \in metric.percent
      PROVE  /\ x * metric.delta >= 0
             /\ GreaterOf(x, -x) * metric.baseline <= size
             /\ size < (GreaterOf(x, -x) + 1) * metric.baseline
  <2>1. a # 0 /\ x = p
    BY <1>1, <1>6
  <2> HIDE DEF metric, p, size
  <2> QED
    BY <1>1, <1>4, <2>1
<1>7. size = GreaterOf(metric.delta, -metric.delta) * 100000
  BY <1>1
<1> HIDE DEF metric, size
<1>8. metric.percent = {} <=> metric.baseline = 0
  BY <1>1, <1>3
<1> QED
  BY <1>5, <1>6, <1>7, <1>8 DEF Truncated, metric

LEMMA MetricMirrors ==
    ASSUME NEW a \in Nat, NEW b \in Nat
    PROVE  MirrorMetric(compare_metric(a, b), compare_metric(b, a))
<1>1. Truncated(compare_metric(a, b)) /\ Truncated(compare_metric(b, a))
  BY MetricTruncated
<1>2. /\ compare_metric(a, b).baseline = compare_metric(b, a).candidate
      /\ compare_metric(a, b).candidate = compare_metric(b, a).baseline
      /\ compare_metric(a, b).delta = -compare_metric(b, a).delta
  BY DEF compare_metric
<1> QED
  BY <1>1, <1>2 DEF MirrorMetric

\* A description is mirrored number by number.
LEMMA MetricsMirror ==
    ASSUME NEW x, Naturals3(x), NEW y, Naturals3(y)
    PROVE  \A k \in {"mean", "p50", "p95"} : MirrorMetric(MetricsOf(x, y)[k], MetricsOf(y, x)[k])
<1>1. /\ MirrorMetric(compare_metric(x.mean, y.mean), compare_metric(y.mean, x.mean))
      /\ MirrorMetric(compare_metric(x.p50, y.p50), compare_metric(y.p50, x.p50))
      /\ MirrorMetric(compare_metric(x.p95, y.p95), compare_metric(y.p95, x.p95))
  BY MetricMirrors DEF Naturals3
<1> QED
  BY <1>1 DEF MetricsOf

\* Both scopes are mirrored.
LEMMA ScopesMirror ==
    ASSUME NEW b \in Bundles, Admitted(b), NEW c \in Bundles, Admitted(c)
    PROVE  /\ MirrorScope(RequestReport(b, c), RequestReport(c, b))
           /\ MirrorScope(RepetitionReport(b, c), RepetitionReport(c, b))
           /\ MirrorMetric(RepetitionReport(b, c).throughput, RepetitionReport(c, b).throughput)
<1> DEFINE Three == {"mean", "p50", "p95"}
<1>1. /\ Naturals3(RequestLatency(b)) /\ Naturals3(RequestTtft(b))
      /\ Naturals3(RepetitionLatency(b)) /\ Naturals3(RepetitionTtft(b)) /\ Rate(b) \in Nat
  BY DescribedBundle
<1>2. /\ Naturals3(RequestLatency(c)) /\ Naturals3(RequestTtft(c))
      /\ Naturals3(RepetitionLatency(c)) /\ Naturals3(RepetitionTtft(c)) /\ Rate(c) \in Nat
  BY DescribedBundle
<1>3. MirrorScope(RequestReport(b, c), RequestReport(c, b))
  <2> DEFINE q == RequestReport(b, c)
             w == RequestReport(c, b)
  <2>1. /\ q.latency = MetricsOf(RequestLatency(b), RequestLatency(c))
        /\ w.latency = MetricsOf(RequestLatency(c), RequestLatency(b))
        /\ q.ttft = MetricsOf(RequestTtft(b), RequestTtft(c))
        /\ w.ttft = MetricsOf(RequestTtft(c), RequestTtft(b))
        /\ q.counts = <<w.counts[2], w.counts[1]>>
    BY DEF RequestReport
  <2>2. /\ \A k \in Three : MirrorMetric(q.latency[k], w.latency[k])
        /\ \A k \in Three : MirrorMetric(q.ttft[k], w.ttft[k])
    BY <1>1, <1>2, <2>1, MetricsMirror
  <2> HIDE DEF q, w
  <2> QED
    BY <2>1, <2>2 DEF MirrorScope, q, w
<1>4. MirrorScope(RepetitionReport(b, c), RepetitionReport(c, b))
  <2> DEFINE q == RepetitionReport(b, c)
             w == RepetitionReport(c, b)
  <2>1. /\ q.latency = MetricsOf(RepetitionLatency(b), RepetitionLatency(c))
        /\ w.latency = MetricsOf(RepetitionLatency(c), RepetitionLatency(b))
        /\ q.ttft = MetricsOf(RepetitionTtft(b), RepetitionTtft(c))
        /\ w.ttft = MetricsOf(RepetitionTtft(c), RepetitionTtft(b))
        /\ q.counts = <<w.counts[2], w.counts[1]>>
    BY DEF RepetitionReport
  <2>2. /\ \A k \in Three : MirrorMetric(q.latency[k], w.latency[k])
        /\ \A k \in Three : MirrorMetric(q.ttft[k], w.ttft[k])
    BY <1>1, <1>2, <2>1, MetricsMirror
  <2> HIDE DEF q, w
  <2> QED
    BY <2>1, <2>2 DEF MirrorScope, q, w
<1>5. MirrorMetric(RepetitionReport(b, c).throughput, RepetitionReport(c, b).throughput)
  BY <1>1, <1>2, MetricMirrors DEF RepetitionReport
<1> QED
  BY <1>3, <1>4, <1>5

\* Facts are related the same way from either side.
LEMMA EnvironmentMirrors ==
    ASSUME NEW p, NEW q
    PROVE  compare_environment(p, q) = compare_environment(q, p)
<1>1. \A x, y : environment_field(x, y) = environment_field(y, x)
  BY DEF environment_field
<1> QED
  BY <1>1 DEF compare_environment

\* What resources a bundle has are words.
ResourceWords(resources) == \A used \in resources : used.cpu \in Nat /\ used.rss \in Nat

\* Accounting of one side or of both is mirrored.
LEMMA ResourcesMirror ==
    ASSUME NEW b, ResourceWords(b), NEW c, ResourceWords(c), NEW a \in compare_resources(c, b)
    PROVE  \E v \in compare_resources(b, c) :
              /\ a.baseline = v.candidate /\ a.candidate = v.baseline
              /\ \A m \in a.cpu : \E n \in v.cpu : MirrorMetric(m, n)
              /\ \A m \in a.rss : \E n \in v.rss : MirrorMetric(m, n)
<1> DEFINE v == [baseline |-> b, candidate |-> c,
                 cpu |-> {compare_metric(x.cpu, y.cpu) : x \in b, y \in c},
                 rss |-> {compare_metric(x.rss, y.rss) : x \in b, y \in c}]
<1>1. v \in compare_resources(b, c)
  BY DEF compare_resources
<1>2. /\ a.baseline = c /\ a.candidate = b
      /\ a.cpu = {compare_metric(x.cpu, y.cpu) : x \in c, y \in b}
      /\ a.rss = {compare_metric(x.rss, y.rss) : x \in c, y \in b}
  BY DEF compare_resources
<1>3. ASSUME NEW m \in a.cpu PROVE \E n \in v.cpu : MirrorMetric(m, n)
  <2>1. PICK x \in c, y \in b : m = compare_metric(x.cpu, y.cpu)
    BY <1>2, <1>3
  <2>2. compare_metric(y.cpu, x.cpu) \in v.cpu
    OBVIOUS
  <2>3. MirrorMetric(m, compare_metric(y.cpu, x.cpu))
    BY <2>1, MetricMirrors DEF ResourceWords
  <2> QED
    BY <2>2, <2>3
<1>4. ASSUME NEW m \in a.rss PROVE \E n \in v.rss : MirrorMetric(m, n)
  <2>1. PICK x \in c, y \in b : m = compare_metric(x.rss, y.rss)
    BY <1>2, <1>4
  <2>2. compare_metric(y.rss, x.rss) \in v.rss
    OBVIOUS
  <2>3. MirrorMetric(m, compare_metric(y.rss, x.rss))
    BY <2>1, MetricMirrors DEF ResourceWords
  <2> QED
    BY <2>2, <2>3
<1>5. a.baseline = v.candidate /\ a.candidate = v.baseline
  BY <1>2
<1> HIDE DEF v
<1> QED
  BY <1>1, <1>3, <1>4, <1>5

\* The contracts differ in the same fields.
LEMMA DifferencesMirror ==
    ASSUME NEW b \in Bundles, Admitted(b), NEW c \in Bundles, Admitted(c)
    PROVE  contract_differences(ContractOf(b), ContractOf(c))
             = contract_differences(ContractOf(c), ContractOf(b))
<1>1. DOMAIN ContractOf(b) = DOMAIN ContractOf(c)
  <2>1. /\ ContractOf(b) =
              [target |-> b.target, backend |-> b.target, deviceClass |-> b.target,
               modelSha256 |-> TRUE, outputTokens |-> b.tokens,
               requestsPerRepetition |-> b.requests, warmupRuns |-> b.warmups,
               measuredRepetitions |-> b.repetitions]
        /\ ContractOf(c) =
              [target |-> c.target, backend |-> c.target, deviceClass |-> c.target,
               modelSha256 |-> TRUE, outputTokens |-> c.tokens,
               requestsPerRepetition |-> c.requests, warmupRuns |-> c.warmups,
               measuredRepetitions |-> c.repetitions]
    BY ContractOfAdmitted
  <2> QED
    BY <2>1
<1> QED
  BY <1>1 DEF contract_differences

\* w is the report of the swapped pair.
Mirrors(r, w) ==
    /\ r.incompatibilities = w.incompatibilities
    /\ r.environment = w.environment
    /\ \A q \in r.requests : \E v \in w.requests : MirrorScope(q, v)
    /\ \A q \in r.repetitions : \E v \in w.repetitions :
          MirrorScope(q, v) /\ MirrorMetric(q.throughput, v.throughput)
    /\ \A a \in w.resources : \E v \in r.resources :
          /\ a.baseline = v.candidate /\ a.candidate = v.baseline
          /\ \A m \in a.cpu : \E n \in v.cpu : MirrorMetric(m, n)
          /\ \A m \in a.rss : \E n \in v.rss : MirrorMetric(m, n)

LEMMA ReportsMirror ==
    ASSUME NEW b \in Bundles, Admitted(b), NEW c \in Bundles, Admitted(c),
           NEW x, x = <<ContractOf(b), ContractOf(c)>>, NEW y, y = <<ContractOf(c), ContractOf(b)>>,
           NEW p, NEW q
    PROVE  Mirrors(ReportOf(b, c, x, p, q), ReportOf(c, b, y, q, p))
<1> DEFINE r == ReportOf(b, c, x, p, q)
           w == ReportOf(c, b, y, q, p)
           differences == contract_differences(x[1], x[2])
<1>1. contract_differences(y[1], y[2]) = differences
  <2>1. x[1] = ContractOf(b) /\ x[2] = ContractOf(c) /\ y[1] = ContractOf(c) /\ y[2] = ContractOf(b)
    OBVIOUS
  <2> QED
    BY <2>1, DifferencesMirror
<1> HIDE DEF differences
<1>2. /\ r.incompatibilities = differences
      /\ r.environment = compare_environment(p, q)
      /\ r.requests = IF differences = {} THEN compare_requests(b, c) ELSE {}
      /\ r.repetitions = IF differences = {} THEN compare_repetitions(b, c) ELSE {}
      /\ r.resources = IF differences = {} THEN compare_resources(b.resources, c.resources) ELSE {}
  BY DEF ReportOf, differences
<1>3. /\ w.incompatibilities = differences
      /\ w.environment = compare_environment(q, p)
      /\ w.requests = IF differences = {} THEN compare_requests(c, b) ELSE {}
      /\ w.repetitions = IF differences = {} THEN compare_repetitions(c, b) ELSE {}
      /\ w.resources = IF differences = {} THEN compare_resources(c.resources, b.resources) ELSE {}
  BY <1>1 DEF ReportOf
<1> HIDE DEF r, w
<1>4. r.environment = w.environment
  BY <1>2, <1>3, EnvironmentMirrors
<1>5. /\ compare_requests(b, c) = {RequestReport(b, c)}
      /\ compare_requests(c, b) = {RequestReport(c, b)}
      /\ compare_repetitions(b, c) = {RepetitionReport(b, c)}
      /\ compare_repetitions(c, b) = {RepetitionReport(c, b)}
  BY ScopesOfReport
<1>6. \A s \in r.requests : \E v \in w.requests : MirrorScope(s, v)
  BY <1>2, <1>3, <1>5, ScopesMirror
<1>7. \A s \in r.repetitions : \E v \in w.repetitions :
         MirrorScope(s, v) /\ MirrorMetric(s.throughput, v.throughput)
  BY <1>2, <1>3, <1>5, ScopesMirror
<1>8. \A a \in w.resources : \E v \in r.resources :
         /\ a.baseline = v.candidate /\ a.candidate = v.baseline
         /\ \A m \in a.cpu : \E n \in v.cpu : MirrorMetric(m, n)
         /\ \A m \in a.rss : \E n \in v.rss : MirrorMetric(m, n)
  <2>1. ResourceWords(b.resources) /\ ResourceWords(c.resources)
    BY BundleAssumption, WidthAssumption DEF ResourceWords
  <2> QED
    BY <1>2, <1>3, <2>1, ResourcesMirror
<1> QED
  BY <1>2, <1>3, <1>4, <1>6, <1>7, <1>8 DEF Mirrors, r, w

\* Swapping the roles reports the same differences and relationships and every
\* delta negated, one-sided accounting from either side, and no percentage that
\* overstates its change.
THEOREM SwappedIsMirrored == Spec => []MirrorImage
<1>1. ASSUME CompareInv PROVE MirrorImage
  <2> SUFFICES ASSUME NEW r \in report
               PROVE  \E w \in Compared(pair["candidate"], pair["baseline"],
                          <<CHOOSE x \in eligible_contract(pair["candidate"]) : TRUE,
                            CHOOSE x \in eligible_contract(pair["baseline"]) : TRUE>>) :
                         Mirrors(r, w)
    BY DEF MirrorImage, Mirrors
  <2> DEFINE b == pair["baseline"]
             c == pair["candidate"]
             x == <<ContractOf(b), ContractOf(c)>>
             y == <<ContractOf(c), ContractOf(b)>>
  <2>1. /\ b \in Bundles /\ c \in Bundles /\ Admitted(b) /\ Admitted(c)
        /\ r \in Compared(b, c, x)
    BY <1>1 DEF CompareInv, Roles
  <2>2. y = <<CHOOSE z \in eligible_contract(pair["candidate"]) : TRUE,
              CHOOSE z \in eligible_contract(pair["baseline"]) : TRUE>>
    BY DEF ContractOf
  <2>3. x = <<ContractOf(b), ContractOf(c)>> /\ y = <<ContractOf(c), ContractOf(b)>>
    OBVIOUS
  <2> HIDE DEF x, y
  <2>4. PICK p \in b.provenance, q \in c.provenance : r = ReportOf(b, c, x, p, q)
    BY <2>1, Reports
  <2>5. ReportOf(c, b, y, q, p) \in Compared(c, b, y)
    BY Reports
  <2>6. Mirrors(r, ReportOf(c, b, y, q, p))
    BY <2>1, <2>3, <2>4, ReportsMirror
  <2> QED
    BY <2>2, <2>5, <2>6
<1> QED
  BY <1>1, ReportsAreOfAdmitted, PTL

-----------------------------------------------------------------------------
(* Requests and repetitions tell the same story                            *)

\* An aggregate within its bounds is off by less than one microsecond from the
\* mean of its observations.
LEMMA AggregateIsClose ==
    ASSUME NEW n \in Nat \ {0}, NEW values \in [1..n -> 0..U64Max], NEW value \in Int,
           \E bounds \in rounded_request_mean_bounds(values, Unit) : value \in bounds[1]..bounds[2]
    PROVE  /\ n * value <= SumFunction(values) + (n - 1)
           /\ SumFunction(values) <= n * value + (n - 1)
<1> DEFINE R == SumFunction(values)
           low == (R - n) * Unit + n
           high == R * Unit
           N == n * Unit
           lo == ceil_div(low, N)
           hi == ceil_div(high, N)
<1>1. R \in Int /\ Len(values) = n
  <2>1. values \in [1..n -> Int] /\ IsFiniteSet(1..n)
    BY FS_Interval
  <2>2. Len(values) = n
    BY IsSequence
  <2> QED
    BY <2>1, <2>2, SumBounded
<1>2. Unit \in Nat \ {0}
  BY ComparisonAssumption
<1>3. lo <= value /\ value <= hi
  BY <1>1 DEF rounded_request_mean_bounds, AsU64
<1> HIDE DEF R
<1>4. N \in Nat \ {0} /\ low \in Int /\ high \in Int
  <2>1. n * 0 < n * Unit /\ n * Unit \in Int
    BY <1>2, Monotone
  <2>2. (R - n) * Unit \in Int /\ R * Unit \in Int
    BY <1>1, <1>2, Distributes
  <2> QED
    BY <2>1, <2>2
<1>5. /\ lo \in Int /\ low <= N * lo
      /\ hi \in Int /\ N * (hi - 1) < high
  <2> HIDE DEF N, low, high
  <2> QED
    BY <1>4, Ceiling
<1> HIDE DEF lo, hi
<1>6. /\ N * lo = Unit * (n * lo) /\ N * (hi - 1) = Unit * (n * (hi - 1))
      /\ high = Unit * R /\ (R - n) * Unit = Unit * (R - n)
  <2>1. \A x, y, z \in Int : (x * y) * z = y * (x * z)
    OBVIOUS
  <2>2. \A x, y \in Int : x * y = y * x
    OBVIOUS
  <2>3. n \in Int /\ Unit \in Int /\ R \in Int /\ lo \in Int /\ hi - 1 \in Int /\ R - n \in Int
    BY <1>1, <1>2, <1>5
  <2> QED
    BY <2>1, <2>2, <2>3
<1>7. n * lo \in Int /\ n * (hi - 1) \in Int /\ n * value \in Int
  BY <1>5, Monotone
<1>8. R - n < n * lo
  <2>1. Unit * (R - n) < Unit * (n * lo)
    <3>1. PICK s \in Int : s = Unit * (R - n)
      BY <1>1, <1>2, Monotone
    <3>2. PICK t \in Int : t = Unit * (n * lo)
      BY <1>2, <1>7, Monotone
    <3>3. s + n <= t
      BY <1>5, <1>6, <3>1, <3>2
    <3> QED
      BY <3>1, <3>2, <3>3
  <2>2. R - n \in Int
    BY <1>1
  <2> QED
    BY <1>2, <1>7, <2>1, <2>2, Monotone
<1>9. n * (hi - 1) < R
  <2>1. Unit * (n * (hi - 1)) < Unit * R
    BY <1>5, <1>6
  <2> QED
    BY <1>1, <1>2, <1>7, <2>1, Monotone
<1>10. n * lo <= n * value
  BY <1>3, <1>5, Monotone
<1>11. n * (value - 1) <= n * (hi - 1)
  <2>1. value - 1 <= hi - 1 /\ value - 1 \in Int /\ hi - 1 \in Int
    BY <1>3, <1>5
  <2> QED
    BY <2>1, Monotone
<1>12. n * (value - 1) = n * value - n
  <2>1. \A x, y \in Int : x * (y - 1) = x * y - x
    OBVIOUS
  <2> QED
    BY <2>1
<1> QED
  BY <1>1, <1>7, <1>8, <1>9, <1>10, <1>11, <1>12 DEF R

\* Two integer means of sums that differ by less than one per repetition are at
\* most one apart: "sum" is over m * n requests, "total" over m aggregates.
LEMMA MeansAreClose ==
    ASSUME NEW m \in Nat \ {0}, NEW n \in Nat \ {0}, NEW sum \in Int, NEW total \in Int,
           n * total <= sum + (n - 1) * m, sum <= n * total + (n - 1) * m
    PROVE  (sum \div (m * n)) - (total \div m) \in -1..1
<1> DEFINE M == m * n
           q == sum \div M
           k == total \div m
<1>1. M \in Nat \ {0} /\ (n - 1) * m = M - m
  <2>1. m * 0 < m * n /\ m * n \in Int
    BY Monotone
  <2>2. \A x, y \in Int : (x - 1) * y = y * x - y
    OBVIOUS
  <2> QED
    BY <2>1, <2>2
<1>2. k \in Int /\ total % m \in 0..(m - 1) /\ total = m * k + (total % m)
  BY Division
<1> HIDE DEF M
<1>3. q \in Int /\ sum % M \in 0..(M - 1) /\ sum = M * q + (sum % M)
  BY <1>1, Division
<1> HIDE DEF q, k
<1>4. m * k <= total /\ total < m * (k + 1) /\ M * q <= sum /\ sum < M * (q + 1)
  <2>1. m * (k + 1) = m * k + m /\ M * (q + 1) = M * q + M /\ m * k \in Int /\ M * q \in Int
    <3>1. m \in Int /\ M \in Int /\ 1 \in Int /\ m * 1 = m /\ M * 1 = M
      BY <1>1
    <3> QED
      BY <1>2, <1>3, <3>1, Distributes
  <2> QED
    BY <1>1, <1>2, <1>3, <2>1
<1>5. /\ n * (m * k) <= n * total /\ n * total < n * (m * (k + 1))
      /\ n * (m * k) = M * k /\ n * (m * (k + 1)) = M * (k + 1)
  <2>1. m * k \in Int /\ m * (k + 1) \in Int
    BY <1>2, Monotone
  <2>2. \A x, y, z \in Int : x * (y * z) = (y * x) * z
    OBVIOUS
  <2>3. k + 1 \in Int /\ n \in Int /\ m \in Int
    BY <1>2
  <2> QED
    BY <1>2, <1>4, <2>1, <2>2, <2>3, Monotone DEF M
<1>6. PICK t \in Int : t = n * total
  BY Monotone
<1>7. t <= sum + (M - m) /\ sum <= t + (M - m) /\ M * k <= t /\ t < M * (k + 1)
  BY <1>1, <1>5, <1>6
<1>8. /\ M * (k + 2) = M * (k + 1) + M /\ M * (q + 2) = M * (q + 1) + M
      /\ M * (k + 1) \in Int /\ M * (q + 1) \in Int /\ M * k \in Int /\ M * q \in Int
  <2>1. \A x, y \in Int : x * (y + 2) = x * (y + 1) + x /\ x * (y + 1) \in Int /\ x * y \in Int
    OBVIOUS
  <2> QED
    BY <1>1, <1>2, <1>3, <2>1
<1>9. M * q < M * (k + 2) /\ M * k < M * (q + 2)
  BY <1>1, <1>3, <1>4, <1>7, <1>8
<1>10. q < k + 2 /\ k < q + 2
  <2>1. k + 2 \in Int /\ q + 2 \in Int
    BY <1>2, <1>3
  <2> QED
    BY <1>1, <1>2, <1>3, <1>9, <2>1, Monotone
<1>11. q - k \in -1..1
  BY <1>2, <1>3, <1>10
<1> QED
  BY <1>11 DEF q, k, M

\* Every sum of n values is that of its mean, but for less than one per value.
Close(sums, means, m, n) ==
    /\ sums \in [1..m -> Int] /\ means \in [1..m -> Int]
    /\ \A k \in 1..m : n * means[k] <= sums[k] + (n - 1) /\ sums[k] <= n * means[k] + (n - 1)

LEMMA TotalsAreClose ==
    ASSUME NEW m \in Nat \ {0}, NEW n \in Nat \ {0}, NEW sums, NEW means, Close(sums, means, m, n)
    PROVE  (SumFunction(sums) \div (m * n)) - (SumFunction(means) \div m) \in -1..1
<1> DEFINE sum == SumFunction(sums)
           total == SumFunction(means)
           c == n - 1
<1>1. sums \in [1..m -> Int] /\ means \in [1..m -> Int]
  BY DEF Close
<1>2. IsFiniteSet(1..m) /\ Cardinality(1..m) = m
  BY FS_Interval
<1>3. sum \in Int /\ total \in Int
  BY <1>1, <1>2, SumBounded
<1>4. c \in Int /\ -c \in Int /\ n \in Int
  OBVIOUS
<1>5. ASSUME NEW k \in 1..m
      PROVE  n * means[k] + (-c) <= sums[k] /\ sums[k] <= n * means[k] + c
  <2>1. means[k] \in Int /\ sums[k] \in Int
    BY <1>1
  <2>2. n * means[k] \in Int
    BY <2>1, Monotone
  <2>3. n * means[k] <= sums[k] + (n - 1) /\ sums[k] <= n * means[k] + (n - 1)
    BY DEF Close
  <2> QED
    BY <2>1, <2>2, <2>3
<1> HIDE DEF c, sum, total
<1>6. n * total + (-c) * Cardinality(1..m) <= sum
  BY <1>1, <1>2, <1>4, <1>5, SumBelow DEF sum, total
<1>7. sum <= n * total + c * Cardinality(1..m)
  BY <1>1, <1>2, <1>4, <1>5, SumAbove DEF sum, total
<1>8. (-c) * m = -(c * m) /\ c * m \in Int /\ n * total \in Int
  BY <1>3, <1>4
<1>9. n * total <= sum + (n - 1) * m /\ sum <= n * total + (n - 1) * m
  <2>1. n * total + (-c) * m <= sum /\ sum <= n * total + c * m
    BY <1>2, <1>6, <1>7
  <2>2. n * total <= sum + c * m /\ sum <= n * total + c * m
    BY <1>3, <1>8, <2>1
  <2> QED
    BY <2>2 DEF c
<1> QED
  BY <1>3, <1>9, MeansAreClose DEF sum, total

\* The aggregates of the repetitions are close to their observations.
LEMMA AggregatesAreClose ==
    ASSUME NEW records, NEW m, NEW n, Repetitions(records, m, n)
    PROVE  /\ Close(LatencySums(records, m), Latencies(records), m, n)
           /\ Close(TtftSums(records, m), Ttfts(records), m, n)
<1>1. /\ n \in Nat \ {0} /\ DOMAIN records = 1..m
      /\ \A k \in 1..m : Repetition(records[k], n)
  BY DEF Repetitions
<1>2. ASSUME NEW k \in 1..m
      PROVE  /\ SumFunction(Latencies(records[k].observations)) \in Int
             /\ SumFunction(Ttfts(records[k].observations)) \in Int
             /\ records[k].latency \in Int /\ records[k].ttft \in Int
             /\ n * records[k].latency
                  <= SumFunction(Latencies(records[k].observations)) + (n - 1)
             /\ SumFunction(Latencies(records[k].observations))
                  <= n * records[k].latency + (n - 1)
             /\ n * records[k].ttft <= SumFunction(Ttfts(records[k].observations)) + (n - 1)
             /\ SumFunction(Ttfts(records[k].observations)) <= n * records[k].ttft + (n - 1)
  <2> DEFINE record == records[k]
             x == Latencies(record.observations)
             y == Ttfts(record.observations)
  <2>1. /\ record.latency \in Int /\ record.ttft \in Int
        /\ Observations(record.observations, n) /\ AggregateConsistent(record)
    BY <1>1 DEF Repetition
  <2>2. Words(x, n) /\ Words(y, n)
    BY <1>1, <2>1, ColumnWords
  <2>3. /\ \E bounds \in rounded_request_mean_bounds(x, Unit) : record.latency \in bounds[1]..bounds[2]
        /\ \E bounds \in rounded_request_mean_bounds(y, Unit) : record.ttft \in bounds[1]..bounds[2]
    BY <2>1 DEF AggregateConsistent
  <2> HIDE DEF x, y, record
  <2>4. x \in [1..n -> 0..U64Max] /\ y \in [1..n -> 0..U64Max]
    BY <2>2 DEF Words
  <2>5. SumFunction(x) \in Int /\ SumFunction(y) \in Int
    <3>1. x \in [1..n -> Int] /\ y \in [1..n -> Int]
      BY <2>4
    <3>2. IsFiniteSet(1..n)
      <4>1. n \in Int /\ 1 \in Int
        BY <1>1
      <4> QED
        BY <4>1, FS_Interval
    <3> QED
      BY <3>1, <3>2, SumBounded
  <2>6. n * record.latency <= SumFunction(x) + (n - 1) /\ SumFunction(x) <= n * record.latency + (n - 1)
    BY <1>1, <2>1, <2>3, <2>4, AggregateIsClose
  <2>7. n * record.ttft <= SumFunction(y) + (n - 1) /\ SumFunction(y) <= n * record.ttft + (n - 1)
    BY <1>1, <2>1, <2>3, <2>4, AggregateIsClose
  <2> QED
    BY <2>1, <2>5, <2>6, <2>7 DEF x, y, record
<1>3. Close(LatencySums(records, m), Latencies(records), m, n)
  BY <1>1, <1>2 DEF Close, LatencySums, Latencies
<1>4. Close(TtftSums(records, m), Ttfts(records), m, n)
  BY <1>1, <1>2 DEF Close, TtftSums, Ttfts
<1> QED
  BY <1>3, <1>4

\* The counts and the means of an admitted bundle, in both scopes.
LEMMA ScopesOfBundle ==
    ASSUME NEW bundle \in Bundles, Admitted(bundle)
    PROVE  /\ RepetitionCount(bundle) = bundle.repetitions
           /\ RequestCount(bundle) = bundle.requests * bundle.repetitions
           /\ RequestLatency(bundle).mean - RepetitionLatency(bundle).mean \in -1..1
           /\ RequestTtft(bundle).mean - RepetitionTtft(bundle).mean \in -1..1
<1> DEFINE m == bundle.repetitions
           n == bundle.requests
           records == Measured(bundle)
<1>1. Repetitions(records, m, n)
  BY AdmittedRepetitions
<1> HIDE DEF m, n
<1>2. m \in Nat \ {0} /\ n \in Nat \ {0} /\ m * n = n * m
  BY <1>1 DEF Repetitions
<1>3. /\ Words(Latencies(request_values(bundle)), m * n)
      /\ Words(Ttfts(request_values(bundle)), m * n)
      /\ Len(request_values(bundle)) = m * n
      /\ SumFunction(Latencies(request_values(bundle))) = SumFunction(LatencySums(records, m))
      /\ SumFunction(Ttfts(request_values(bundle))) = SumFunction(TtftSums(records, m))
  BY <1>1, RequestValues
<1> HIDE DEF records
<1>4. /\ Words(Latencies(records), m) /\ Words(Ttfts(records), m) /\ Len(records) = m
  BY <1>1, RepetitionValues
<1>5. /\ RequestLatency(bundle).mean = SumFunction(LatencySums(records, m)) \div (m * n)
      /\ RequestTtft(bundle).mean = SumFunction(TtftSums(records, m)) \div (m * n)
  BY <1>3, WordsDescribed DEF RequestLatency, RequestTtft
<1>6. /\ RepetitionLatency(bundle).mean = SumFunction(Latencies(records)) \div m
      /\ RepetitionTtft(bundle).mean = SumFunction(Ttfts(records)) \div m
  BY <1>4, WordsDescribed DEF RepetitionLatency, RepetitionTtft, records
<1>7. /\ Close(LatencySums(records, m), Latencies(records), m, n)
      /\ Close(TtftSums(records, m), Ttfts(records), m, n)
  BY <1>1, AggregatesAreClose
<1>8. /\ RequestLatency(bundle).mean - RepetitionLatency(bundle).mean \in -1..1
      /\ RequestTtft(bundle).mean - RepetitionTtft(bundle).mean \in -1..1
  BY <1>2, <1>5, <1>6, <1>7, TotalsAreClose
<1>9. RepetitionCount(bundle) = m /\ RequestCount(bundle) = n * m
  BY <1>2, <1>3, <1>4 DEF RepetitionCount, RequestCount, records
<1> QED
  BY <1>8, <1>9 DEF m, n

\* The scopes of a report count what both plans ask for, and the mean over
\* requests and that over repetition aggregates differ by at most one
\* microsecond, for any number of requests and repetitions.
THEOREM ScopesAreOneStory == Spec => []ScopesAgree
<1>1. ASSUME CompareInv PROVE ScopesAgree
  <2> SUFFICES ASSUME NEW r \in report, NEW q \in r.requests, NEW s \in r.repetitions
               PROVE  /\ \A role \in DOMAIN pair :
                           /\ s.counts = <<pair[role].repetitions, pair[role].repetitions>>
                           /\ q.counts = <<pair[role].requests * pair[role].repetitions,
                                           pair[role].requests * pair[role].repetitions>>
                      /\ \A side \in {"baseline", "candidate"} :
                           /\ q.latency.mean[side] - s.latency.mean[side] \in -1..1
                           /\ q.ttft.mean[side] - s.ttft.mean[side] \in -1..1
    BY DEF ScopesAgree
  <2> DEFINE b == pair["baseline"]
             c == pair["candidate"]
             x == ContractOf(b)
             y == ContractOf(c)
             contracts == <<x, y>>
  <2>1. /\ b \in Bundles /\ c \in Bundles /\ Admitted(b) /\ Admitted(c)
        /\ r \in Compared(b, c, contracts) /\ DOMAIN pair = Roles
    BY <1>1 DEF CompareInv, Roles
  <2>2. \A role \in DOMAIN pair : pair[role] = b \/ pair[role] = c
    BY <2>1 DEF Roles
  <2> HIDE DEF b, c
  <2>3. contracts[1] = x /\ contracts[2] = y
    OBVIOUS
  <2> HIDE DEF contracts
  <2>4. PICK p \in b.provenance, o \in c.provenance : r = ReportOf(b, c, contracts, p, o)
    BY <2>1, Reports
  <2>5. /\ contract_differences(x, y) = {}
        /\ q \in compare_requests(b, c) /\ s \in compare_repetitions(b, c)
    <3> HIDE DEF x, y
    <3> QED
      BY <2>3, <2>4 DEF ReportOf
  <2>6. q = RequestReport(b, c) /\ s = RepetitionReport(b, c)
    BY <2>1, <2>5, ScopesOfReport
  <2>7. b.requests = c.requests /\ b.repetitions = c.repetitions
    <3>1. /\ x = [target |-> b.target, backend |-> b.target, deviceClass |-> b.target,
                  modelSha256 |-> TRUE, outputTokens |-> b.tokens,
                  requestsPerRepetition |-> b.requests, warmupRuns |-> b.warmups,
                  measuredRepetitions |-> b.repetitions]
          /\ y = [target |-> c.target, backend |-> c.target, deviceClass |-> c.target,
                  modelSha256 |-> TRUE, outputTokens |-> c.tokens,
                  requestsPerRepetition |-> c.requests, warmupRuns |-> c.warmups,
                  measuredRepetitions |-> c.repetitions]
      BY <2>1, ContractOfAdmitted
    <3> HIDE DEF x, y
    <3>2. /\ "requestsPerRepetition" \in DOMAIN x /\ "measuredRepetitions" \in DOMAIN x
          /\ x["requestsPerRepetition"] = b.requests /\ y["requestsPerRepetition"] = c.requests
          /\ x["measuredRepetitions"] = b.repetitions /\ y["measuredRepetitions"] = c.repetitions
      BY <3>1
    <3> QED
      BY <2>5, <3>2 DEF contract_differences
  <2>8. /\ RepetitionCount(b) = b.repetitions
        /\ RequestCount(b) = b.requests * b.repetitions
        /\ RequestLatency(b).mean - RepetitionLatency(b).mean \in -1..1
        /\ RequestTtft(b).mean - RepetitionTtft(b).mean \in -1..1
    BY <2>1, ScopesOfBundle
  <2>9. /\ RepetitionCount(c) = c.repetitions
        /\ RequestCount(c) = c.requests * c.repetitions
        /\ RequestLatency(c).mean - RepetitionLatency(c).mean \in -1..1
        /\ RequestTtft(c).mean - RepetitionTtft(c).mean \in -1..1
    BY <2>1, ScopesOfBundle
  <2>10. /\ q.counts = <<RequestCount(b), RequestCount(c)>>
         /\ s.counts = <<RepetitionCount(b), RepetitionCount(c)>>
         /\ q.latency.mean["baseline"] = RequestLatency(b).mean
         /\ q.latency.mean["candidate"] = RequestLatency(c).mean
         /\ q.ttft.mean["baseline"] = RequestTtft(b).mean
         /\ q.ttft.mean["candidate"] = RequestTtft(c).mean
         /\ s.latency.mean["baseline"] = RepetitionLatency(b).mean
         /\ s.latency.mean["candidate"] = RepetitionLatency(c).mean
         /\ s.ttft.mean["baseline"] = RepetitionTtft(b).mean
         /\ s.ttft.mean["candidate"] = RepetitionTtft(c).mean
    BY <2>6 DEF RequestReport, RepetitionReport, MetricsOf, compare_metric
  <2>11. ASSUME NEW role \in DOMAIN pair
         PROVE  /\ s.counts = <<pair[role].repetitions, pair[role].repetitions>>
                /\ q.counts = <<pair[role].requests * pair[role].repetitions,
                                pair[role].requests * pair[role].repetitions>>
    BY <2>2, <2>7, <2>8, <2>9, <2>10
  <2> QED
    BY <2>8, <2>9, <2>10, <2>11
<1> QED
  BY <1>1, ReportsAreOfAdmitted, PTL
=============================================================================
