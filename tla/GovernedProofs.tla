---------------------------- MODULE GovernedProofs ----------------------------
(***************************************************************************)
(* What the tables prove of the log's own history, for every log and       *)
(* whatever its governance says.  The walk over a prefix is a recursive    *)
(* function; its states, one after each entry, are related by induction    *)
(* over the entries (WalkGoverned, WalkGrows).                             *)
(***************************************************************************)
EXTENDS GovernedWitness, WitnessProofs, DataInduction

-----------------------------------------------------------------------------
(* What governance computes has the types the decision procedure assumes *)

LEMMA StatedTypes ==
  ASSUME NEW l \in Logs, NEW e \in Leaves
  PROVE  /\ Says[e].type = "manifest" => Says[e] \in Governance(l)!Manifest
         /\ Says[e].type = "key" => Says[e] \in Governance(l)!KeyStatement
<1>1. \/ Says[e] \in Governance(l)!Manifest
      \/ Says[e] \in Governance(l)!KeyStatement
      \/ Says[e] \in Governance(l)!Other
  BY StatementsAssumption
<1>2. CASE Says[e] \in Governance(l)!Manifest
  BY <1>2 DEF Governance!Manifest
<1>3. CASE Says[e] \in Governance(l)!KeyStatement
  BY <1>3 DEF Governance!KeyStatement
<1>4. CASE Says[e] \in Governance(l)!Other
  BY <1>4 DEF Governance!Other
<1> QED BY <1>1, <1>2, <1>3, <1>4

\* A turn of the loop keeps the versions, or appends the one that the entry states.
LEMMA StepAppends ==
  ASSUME NEW l \in Logs, NEW w \in Governance(l)!WalkState, NEW e \in Leaves, NEW n \in Nat
  PROVE  LET x == Governance(l)!Step(w, e, n)
         IN /\ x \in Governance(l)!WalkState
            /\ w.aborted => x = w
            /\ \/ x.versions = w.versions
               \/ \E v \in Governance(l)!Version :
                    v.index = n /\ x.versions = Append(w.versions, v)
<1> DEFINE x == Governance(l)!Step(w, e, n)
           v == Governance(l)!VersionOf(e, n)
<1>0. /\ w.versions \in Seq(Governance(l)!Version)
      /\ w.producers \in Governance(l)!KeyMaps
      /\ w.aborted \in BOOLEAN
      /\ w = [versions |-> w.versions, producers |-> w.producers, aborted |-> w.aborted]
  BY DEF Governance!WalkState
<1>1. CASE x = w
  BY <1>1
<1>2. CASE ~w.aborted /\ x = [w EXCEPT !.aborted = TRUE]
  BY <1>0, <1>2 DEF Governance!WalkState
<1>3. CASE /\ ~w.aborted
           /\ Governance(l)!Installs(w, e, n)
           /\ x = [w EXCEPT !.versions = Append(@, v), !.producers = Says[e].producers]
  <2>1. Says[e] \in Governance(l)!Manifest
    BY <1>3, StatedTypes DEF Governance!Installs
  <2>2. v \in Governance(l)!Version /\ v.index = n
    BY <2>1 DEF Governance!VersionOf, Governance!Version, Governance!Manifest
  <2>3. Says[e].producers \in Governance(l)!KeyMaps
    BY <2>1 DEF Governance!Manifest
  <2> HIDE DEF v, x
  <2>4. Append(w.versions, v) \in Seq(Governance(l)!Version)
    BY <1>0, <2>2
  <2>5. x = [versions |-> Append(w.versions, v), producers |-> Says[e].producers,
             aborted |-> w.aborted]
    BY <1>0, <1>3
  <2>6. x \in Governance(l)!WalkState /\ x.versions = Append(w.versions, v)
    BY <1>0, <2>3, <2>4, <2>5 DEF Governance!WalkState
  <2> QED BY <1>3, <2>2, <2>6 DEF x
<1>4. CASE /\ ~w.aborted
           /\ Governance(l)!Changes(w, e, n)
           /\ x = [w EXCEPT !.producers = Governance(l)!ApplyKey(w, Says[e])]
  <2>1. Says[e] \in Governance(l)!KeyStatement
    BY <1>4, StatedTypes DEF Governance!Changes
  <2>2. Says[e].key \in Producers /\ Says[e].from \in Nat
    BY <2>1 DEF Governance!KeyStatement
  <2>3. Governance(l)!ApplyKey(w, Says[e]) \in Governance(l)!KeyMaps
    BY <1>0, <2>2 DEF Governance!ApplyKey, Governance!WithKey, Governance!WithoutKey,
       Governance!KeyMaps, Governance!ProducerKey
  <2> HIDE DEF x
  <2>4. x = [versions |-> w.versions, producers |-> Governance(l)!ApplyKey(w, Says[e]),
             aborted |-> w.aborted]
    BY <1>0, <1>4
  <2>5. x \in Governance(l)!WalkState /\ x.versions = w.versions
    BY <1>0, <2>3, <2>4 DEF Governance!WalkState
  <2> QED BY <1>4, <2>5 DEF x
<1>5. \/ x = w
      \/ ~w.aborted /\ x = [w EXCEPT !.aborted = TRUE]
      \/ /\ ~w.aborted
         /\ Governance(l)!Installs(w, e, n)
         /\ x = [w EXCEPT !.versions = Append(@, v), !.producers = Says[e].producers]
      \/ /\ ~w.aborted
         /\ Governance(l)!Changes(w, e, n)
         /\ x = [w EXCEPT !.producers = Governance(l)!ApplyKey(w, Says[e])]
  BY Zenon DEF Governance!Step
<1> QED BY <1>1, <1>2, <1>3, <1>4, <1>5

LEMMA InitTyped ==
  ASSUME NEW l \in Logs
  PROVE  Governance(l)!WalkInit \in Governance(l)!WalkState
BY DEF Governance!WalkInit, Governance!WalkState, Governance!KeyMaps

-----------------------------------------------------------------------------
(* What a log declared stays declared *)

\* The states of the walk over a prefix, one after each entry.
LEMMA WalkGoverned ==
  ASSUME NEW l \in Logs, NEW p \in Root
  PROVE  \E g \in [0..Len(p) -> Governance(l)!WalkState] :
           /\ g[0] = Governance(l)!WalkInit
           /\ \A n \in 1..Len(p) : g[n] = Governance(l)!Step(g[n - 1], p[n], n - 1)
           /\ Governance(l)!Walk(p) = g[Len(p)]
<1> DEFINE N == Len(p)
           W == Governance(l)!WalkState
           F == [x \in W \X (1..N) |-> Governance(l)!Step(x[1], p[x[2]], x[2] - 1)]
           Unfolds(g) == g = [n \in 0..N |->
             IF n = 0 THEN Governance(l)!WalkInit ELSE Governance(l)!Step(g[n - 1], p[n], n - 1)]
<1>1. N \in Nat /\ \A n \in 1..N : p[n] \in Leaves /\ n - 1 \in Nat
  BY DEF Root
<1>2. F \in [W \X (1..N) -> W]
  BY <1>1, StepAppends
<1>3. \A w \in W, n \in 1..N : F[<<w, n>>] = Governance(l)!Step(w, p[n], n - 1)
  OBVIOUS
<1> HIDE DEF F
<1>4. PICK f \in [0..N -> W] : Recursive(f, N, Governance(l)!WalkInit, F)
  BY <1>1, <1>2, InitTyped, RecursiveExists
<1>5. \A n \in 0..N :
        f[n] = IF n = 0 THEN Governance(l)!WalkInit ELSE Governance(l)!Step(f[n - 1], p[n], n - 1)
  <2> SUFFICES ASSUME NEW n \in 0..N, n # 0
               PROVE  f[n] = Governance(l)!Step(f[n - 1], p[n], n - 1)
    BY <1>4 DEF Recursive
  <2>1. n \in 1..N /\ f[n - 1] \in W
    BY <1>1, <1>4
  <2> QED BY <1>3, <1>4, <2>1 DEF Recursive
<1>6. Unfolds(f)
  BY <1>4, <1>5
<1>7. PICK g : Unfolds(g) /\ Governance(l)!Walk(p) = g[N]
  BY <1>6 DEF Governance!Walk
<1>8. /\ DOMAIN g = 0..N
      /\ g[0] = Governance(l)!WalkInit
      /\ \A n \in 1..N : g[n] = Governance(l)!Step(g[n - 1], p[n], n - 1)
  BY <1>1, <1>7
<1>9. g \in [0..N -> W]
  <2> DEFINE S == {n \in 0..N : g[n] \in W}
  <2>1. 0 \in S
    BY <1>1, <1>8, InitTyped
  <2>2. \A n \in 0..(N - 1) : n \in S => n + 1 \in S
    <3> SUFFICES ASSUME NEW n \in 0..(N - 1), g[n] \in W PROVE g[n + 1] \in W
      BY <1>1
    <3>1. n + 1 \in 1..N /\ (n + 1) - 1 = n /\ n \in Nat
      BY <1>1
    <3>2. g[n + 1] = Governance(l)!Step(g[n], p[n + 1], n)
      BY <1>8, <3>1
    <3> QED BY <1>1, <3>1, <3>2, StepAppends
  <2> HIDE DEF S
  <2>3. 0..N \subseteq S
    BY <1>1, <2>1, <2>2, BoundedInduction
  <2>4. \A n \in 0..N : g[n] \in W
    BY <2>3 DEF S
  <2>5. g = [n \in 0..N |-> g[n]]
    BY <1>7
  <2> QED BY <2>4, <2>5
<1> QED BY <1>7, <1>8, <1>9

\* Between the state w after m entries and the state x after n of them, errors
\* stay, versions stay where they are, and new ones carry indexes from m on.
Grown(w, x, m, n) ==
  /\ w.aborted => x.aborted
  /\ Len(w.versions) <= Len(x.versions)
  /\ \A j \in 1..Len(w.versions) : x.versions[j] = w.versions[j]
  /\ \A j \in (Len(w.versions) + 1)..Len(x.versions) : x.versions[j].index \in m..(n - 1)

LEMMA GrownStep ==
  ASSUME NEW l \in Logs, NEW w \in Governance(l)!WalkState, NEW x \in Governance(l)!WalkState,
         NEW m \in Nat, NEW n \in Nat, m <= n, Grown(w, x, m, n), NEW e \in Leaves
  PROVE  Grown(w, Governance(l)!Step(x, e, n), m, n + 1)
<1> DEFINE y == Governance(l)!Step(x, e, n)
           ws == w.versions
           xs == x.versions
<1>1. ws \in Seq(Governance(l)!Version) /\ xs \in Seq(Governance(l)!Version)
  BY DEF Governance!WalkState
<1>2. w.aborted => y.aborted
  BY StepAppends DEF Grown
<1>3. CASE y.versions = xs
  BY <1>1, <1>2, <1>3 DEF Grown
<1>4. ASSUME NEW v \in Governance(l)!Version, v.index = n, y.versions = Append(xs, v)
      PROVE  Grown(w, y, m, n + 1)
  <2> DEFINE ys == y.versions
  <2>1. /\ Len(ws) \in Nat /\ Len(xs) \in Nat /\ Len(ys) = Len(xs) + 1
        /\ ys[Len(xs) + 1] = v
        /\ \A j \in 1..Len(xs) : ys[j] = xs[j]
    BY <1>1, <1>4
  <2> HIDE DEF y
  <2>2. \A j \in 1..Len(ws) : ys[j] = ws[j]
    BY <2>1 DEF Grown
  <2>3. ASSUME NEW j \in (Len(ws) + 1)..Len(ys) PROVE ys[j].index \in m..n
    <3>1. CASE j = Len(xs) + 1
      BY <1>4, <2>1, <3>1
    <3>2. CASE j \in (Len(ws) + 1)..Len(xs)
      <4>1. xs[j].index \in m..(n - 1)
        BY <3>2 DEF Grown
      <4>2. ys[j] = xs[j]
        BY <2>1, <3>2
      <4> QED BY <4>1, <4>2
    <3> QED BY <2>1, <3>1, <3>2
  <2>4. (n + 1) - 1 = n /\ Len(ws) <= Len(ys)
    BY <2>1 DEF Grown
  <2> QED BY <1>2, <2>2, <2>3, <2>4 DEF Grown
<1> QED BY <1>3, <1>4, StepAppends

\* The walk over entries that continue a prefix goes through the prefix first.
LEMMA WalkGrows ==
  ASSUME NEW l \in Logs, NEW p \in Root, NEW q \in Root, Continues(q, p)
  PROVE  Grown(Governance(l)!Walk(p), Governance(l)!Walk(q), Len(p), Len(q))
<1> DEFINE M == Len(p)
           N == Len(q)
           W == Governance(l)!WalkState
<1>1. /\ M \in Nat /\ N \in Nat /\ M <= N
      /\ \A n \in 1..M : q[n] = p[n]
      /\ \A n \in 1..N : q[n] \in Leaves
  BY DEF Root, Continues
<1>2. PICK g \in [0..M -> W] :
        /\ g[0] = Governance(l)!WalkInit
        /\ \A n \in 1..M : g[n] = Governance(l)!Step(g[n - 1], p[n], n - 1)
        /\ Governance(l)!Walk(p) = g[M]
  BY WalkGoverned
<1>3. PICK h \in [0..N -> W] :
        /\ h[0] = Governance(l)!WalkInit
        /\ \A n \in 1..N : h[n] = Governance(l)!Step(h[n - 1], q[n], n - 1)
        /\ Governance(l)!Walk(q) = h[N]
  BY WalkGoverned
<1> HIDE DEF M, N
<1>4. g[M] = h[M]
  <2> DEFINE S == {n \in 0..M : g[n] = h[n]}
  <2>1. 0 \in S
    BY <1>1, <1>2, <1>3
  <2>2. \A n \in 0..(M - 1) : n \in S => n + 1 \in S
    <3> SUFFICES ASSUME NEW n \in 0..(M - 1), g[n] = h[n] PROVE g[n + 1] = h[n + 1]
      BY <1>1
    <3>1. n + 1 \in 1..M /\ n + 1 \in 1..N /\ (n + 1) - 1 = n
      BY <1>1
    <3>2. /\ g[n + 1] = Governance(l)!Step(g[n], p[n + 1], n)
          /\ h[n + 1] = Governance(l)!Step(h[n], q[n + 1], n)
      BY <1>2, <1>3, <3>1
    <3> QED BY <1>1, <3>1, <3>2
  <2> HIDE DEF S
  <2>3. 0..M \subseteq S
    BY <1>1, <2>1, <2>2, BoundedInduction
  <2> QED BY <1>1, <2>3 DEF S
<1>5. Grown(h[M], h[N], M, N)
  <2> DEFINE S == {i \in 0..(N - M) : Grown(h[M], h[M + i], M, M + i)}
  <2>1. N - M \in Nat /\ h[M] \in W /\ h[M].versions \in Seq(Governance(l)!Version)
    BY <1>1, <1>3 DEF Governance!WalkState
  <2>2. 0 \in S
    BY <1>1, <2>1 DEF Grown
  <2>3. \A i \in 0..((N - M) - 1) : i \in S => i + 1 \in S
    <3> SUFFICES ASSUME NEW i \in 0..((N - M) - 1), Grown(h[M], h[M + i], M, M + i)
                 PROVE  Grown(h[M], h[M + (i + 1)], M, M + (i + 1))
      BY <1>1
    <3>1. PICK n \in Nat : n = M + i
      BY <1>1
    <3>2. n \in 0..N /\ n + 1 \in 1..N /\ (n + 1) - 1 = n /\ M + (i + 1) = n + 1 /\ M <= n
      BY <1>1, <3>1
    <3>3. h[n + 1] = Governance(l)!Step(h[n], q[n + 1], n) /\ q[n + 1] \in Leaves /\ h[n] \in W
      BY <1>1, <1>3, <3>2
    <3>4. Grown(h[M], h[n], M, n)
      BY <3>1
    <3> HIDE DEF W
    <3>5. Grown(h[M], h[n + 1], M, n + 1)
      BY <1>1, <2>1, <3>2, <3>3, <3>4, GrownStep DEF W
    <3> QED BY <3>2, <3>5
  <2> HIDE DEF S
  <2>4. 0..(N - M) \subseteq S
    BY <2>1, <2>2, <2>3, BoundedInduction
  <2>5. N - M \in S /\ M + (N - M) = N
    BY <1>1, <2>4
  <2> QED BY <2>5 DEF S
<1> QED BY <1>2, <1>3, <1>4, <1>5 DEF M, N

LEMMA WalkTyped ==
  ASSUME NEW l \in Logs, NEW p \in Root
  PROVE  Governance(l)!Walk(p) \in Governance(l)!WalkState
<1>1. Len(p) \in 0..Len(p)
  BY DEF Root
<1> QED BY <1>1, WalkGoverned

-----------------------------------------------------------------------------
(* What the decision procedure assumes of governance *)

LEMMA EmptyWalk ==
  ASSUME NEW l \in Logs
  PROVE  Governance(l)!Walk(<<>>) = Governance(l)!WalkInit
<1>1. <<>> \in Root /\ Len(<<>>) = 0
  BY DEF Root
<1> QED BY <1>1, WalkGoverned

\* What a walk collects, and that each version was read.
LEMMA VersionsRead ==
  ASSUME NEW l \in Logs, NEW p \in Root
  PROVE  LET vs == Governance(l)!Walk(p).versions
         IN /\ vs \in Seq(Governance(l)!Version)
            /\ \A j \in DOMAIN vs : vs[j].index \in 0..(Len(p) - 1)
<1> DEFINE w == Governance(l)!Walk(p)
<1>1. w.versions \in Seq(Governance(l)!Version)
  BY WalkTyped DEF Governance!WalkState
<1>2. <<>> \in Root /\ Len(<<>>) = 0 /\ Continues(p, <<>>)
  BY DEF Root, Continues
<1>3. Grown(Governance(l)!WalkInit, w, 0, Len(p))
  BY <1>2, EmptyWalk, WalkGrows
<1>4. Len(Governance(l)!WalkInit.versions) = 0
  BY DEF Governance!WalkInit
<1> HIDE DEF w
<1>5. \A j \in 1..Len(w.versions) : w.versions[j].index \in 0..(Len(p) - 1)
  BY <1>3, <1>4 DEF Grown
<1>6. DOMAIN w.versions = 1..Len(w.versions)
  BY <1>1
<1> QED BY <1>1, <1>5, <1>6 DEF w

\* What governance computes of any log, whatever it says, is of the types that the
\* decision procedure assumes: active keys are log keys, anchors are indexes of
\* entries, terms are cadence and grace, and without entries no key is active
\* (resolve_log_key, rotation_anchors_for, governing).
THEOREM GovernanceFits ==
  \A l \in Logs, p \in Root, k \in Keys :
    /\ GovernedLogKeys(l, p) \subseteq Keys
    /\ GovernedRotationAnchors(l, p, k) \subseteq 0..(Len(p) - 1)
    /\ GovernedTerms(l, p) \in FreshnessTerms
    /\ GovernedLogKeys(l, <<>>) = {}
<1> SUFFICES ASSUME NEW l \in Logs, NEW p \in Root, NEW k \in Keys
             PROVE  /\ GovernedLogKeys(l, p) \subseteq Keys
                    /\ GovernedRotationAnchors(l, p, k) \subseteq 0..(Len(p) - 1)
                    /\ GovernedTerms(l, p) \in FreshnessTerms
                    /\ GovernedLogKeys(l, <<>>) = {}
  OBVIOUS
<1> DEFINE w == Governance(l)!Walk(p)
<1>1. GovernedLogKeys(l, p) \subseteq Keys
  BY DEF GovernedLogKeys, Governance!ActiveLogKeys
<1>2. w.versions \in Seq(Governance(l)!Version)
  BY VersionsRead
<1>3. GovernedRotationAnchors(l, p, k) \subseteq 0..(Len(p) - 1)
  <2>1. \A j \in Governance(l)!RotationsIn(w) : j \in DOMAIN w.versions
    BY <1>2 DEF Governance!RotationsIn
  <2>2. \A j \in DOMAIN w.versions : w.versions[j].index \in 0..(Len(p) - 1)
    BY VersionsRead
  <2> HIDE DEF w
  <2>3. Governance(l)!RotationAnchorsFor(w, k, Len(p)) \subseteq 0..(Len(p) - 1)
    BY <2>1, <2>2 DEF Governance!RotationAnchorsFor
  <2> QED BY <2>3 DEF GovernedRotationAnchors, w
<1>4. GovernedTerms(l, p) \in FreshnessTerms
  <2> HIDE DEF w
  <2>1. CASE Governance(l)!Resolved(w)
    <3>1. Governance(l)!Running(w) \in Governance(l)!Version
      BY <1>2, <2>1 DEF Governance!Resolved, Governance!Unresolved, Governance!Running
    <3>2. /\ Governance(l)!Running(w).cadence \in Nat
          /\ Governance(l)!Running(w).grace \in Nat
      BY <3>1 DEF Governance!Version
    <3> QED BY <2>1, <3>2 DEF GovernedTerms, w, Governance!TermsIn, FreshnessTerms
  <2>2. CASE ~Governance(l)!Resolved(w)
    BY <2>2 DEF GovernedTerms, w, Governance!TermsIn, FreshnessTerms
  <2> QED BY <2>1, <2>2
<1>5. GovernedLogKeys(l, <<>>) = {}
  <2>1. ~Governance(l)!Resolved(Governance(l)!WalkInit)
    BY DEF Governance!Resolved, Governance!Unresolved, Governance!WalkInit
  <2> QED BY <2>1, EmptyWalk DEF GovernedLogKeys, Governance!ActiveLogKeys
<1> QED BY <1>1, <1>3, <1>4, <1>5

\* The versions of a prefix are the versions of the whole log that the prefix covers:
\* witness_checkpoint, which asks for the versions of entries_prefix, sees of a longer
\* log exactly the manifests below the checkpoint's size, as Admission takes them.
THEOREM VersionsOfPrefix ==
  \A l \in Logs, p, q \in Root : Continues(q, p) =>
    LET earlier == Governance(l)!Walk(p).versions
        later == Governance(l)!Walk(q).versions
    IN {earlier[i] : i \in DOMAIN earlier}
         = {later[i] : i \in {j \in DOMAIN later : later[j].index < Len(p)}}
<1> SUFFICES ASSUME NEW l \in Logs, NEW p \in Root, NEW q \in Root, Continues(q, p)
             PROVE  LET earlier == Governance(l)!Walk(p).versions
                        later == Governance(l)!Walk(q).versions
                    IN {earlier[i] : i \in DOMAIN earlier}
                         = {later[i] : i \in {j \in DOMAIN later : later[j].index < Len(p)}}
  OBVIOUS
<1>1. PICK w, x : w = Governance(l)!Walk(p) /\ x = Governance(l)!Walk(q)
  OBVIOUS
<1>2. PICK ws, xs : ws = w.versions /\ xs = x.versions
  OBVIOUS
<1>3. ws \in Seq(Governance(l)!Version) /\ xs \in Seq(Governance(l)!Version)
  BY <1>1, <1>2, WalkTyped DEF Governance!WalkState
<1>4. /\ DOMAIN ws = 1..Len(ws) /\ DOMAIN xs = 1..Len(xs)
      /\ Len(ws) \in Nat /\ Len(xs) \in Nat /\ Len(p) \in Nat
  BY <1>3 DEF Root
<1>5. /\ Len(ws) <= Len(xs)
      /\ \A j \in 1..Len(ws) : xs[j] = ws[j]
      /\ \A j \in (Len(ws) + 1)..Len(xs) : xs[j].index \in Len(p)..(Len(q) - 1)
  BY <1>1, <1>2, WalkGrows DEF Grown
<1>6. \A j \in 1..Len(ws) : ws[j].index \in 0..(Len(p) - 1)
  BY <1>1, <1>2, <1>4, VersionsRead
<1>7. ASSUME NEW j \in 1..Len(xs)
      PROVE  xs[j].index < Len(p) <=> j \in 1..Len(ws)
  <2>1. CASE j \in 1..Len(ws)
    <3>1. xs[j].index \in 0..(Len(p) - 1)
      BY <1>5, <1>6, <2>1
    <3> QED BY <1>4, <2>1, <3>1
  <2>2. CASE j \notin 1..Len(ws)
    <3>1. j \in (Len(ws) + 1)..Len(xs)
      BY <1>4, <2>2
    <3>2. xs[j].index \in Len(p)..(Len(q) - 1)
      BY <1>5, <3>1
    <3> QED BY <1>4, <2>2, <3>2
  <2> QED BY <2>1, <2>2
<1>8. 1..Len(ws) \subseteq 1..Len(xs)
  BY <1>4, <1>5
<1>9. {j \in DOMAIN xs : xs[j].index < Len(p)} = 1..Len(ws)
  BY <1>4, <1>7, <1>8
<1>10. {ws[i] : i \in DOMAIN ws} = {xs[i] : i \in {j \in DOMAIN xs : xs[j].index < Len(p)}}
  BY <1>4, <1>5, <1>9
<1>11. ws = Governance(l)!Walk(p).versions /\ xs = Governance(l)!Walk(q).versions
  BY <1>1, <1>2
<1> QED BY <1>10, <1>11

-----------------------------------------------------------------------------
(* Series checkpoints and the governance of their own trees *)

\* Of two series checkpoints of a log the later one's tree is governed by what
\* governed the earlier one's, in the same places, and by what came after it.
GovernanceKept ==
  \A c, d \in SeriesCheckpoints :
    c.log = d.log /\ c.size <= d.size =>
      Grown(Governance(c.log)!Walk(c.root), Governance(c.log)!Walk(d.root), c.size, d.size)

LEMMA InvKeepsGovernance == Inv => GovernanceKept
<1> SUFFICES ASSUME Inv, NEW c \in SeriesCheckpoints, NEW d \in SeriesCheckpoints,
                    c.log = d.log, c.size <= d.size
             PROVE  Grown(Governance(c.log)!Walk(c.root), Governance(c.log)!Walk(d.root),
                          c.size, d.size)
  BY DEF GovernanceKept
<1>1. c \in Checkpoint /\ d \in Checkpoint
  BY HeldTypes DEF Inv
<1>2. c.log \in Logs /\ c.root \in Root /\ d.root \in Root
  BY <1>1 DEF Checkpoint
<1>3. Continues(d.root, c.root)
  BY DEF Inv, SeriesAppendOnly
<1>4. Len(c.root) = c.size /\ Len(d.root) = d.size
  BY DEF Inv, RootsMeasure
<1>5. Grown(Governance(c.log)!Walk(c.root), Governance(c.log)!Walk(d.root),
            Len(c.root), Len(d.root))
  BY <1>2, <1>3, WalkGrows
<1> QED BY <1>4, <1>5

\* The manifests that governed a series checkpoint govern every later one of its
\* log, unchanged and in place; what is new carries indexes the earlier checkpoint
\* did not cover (witness_checkpoint, versions).
THEOREM GovernanceIsKept == Spec => []GovernanceKept
BY InvKeepsGovernance, InvCorrect, PTL

\* With distinct key_ids the set of key objects decides what resolves.
LEMMA SetDecides ==
  ASSUME NEW l \in Logs, NEW v \in Governance(l)!Version, NEW u \in Governance(l)!Version,
         NEW k, NEW size \in Nat,
         Governance(l)!DistinctKeys(v), Governance(l)!DistinctKeys(u),
         Governance(l)!LogKeySet(v) = Governance(l)!LogKeySet(u),
         Governance(l)!Resolves(u, k, size)
  PROVE  Governance(l)!Resolves(v, k, size)
<1>1. /\ v.logKeys \in Seq(Governance(l)!LogKeyObject)
      /\ u.logKeys \in Seq(Governance(l)!LogKeyObject)
  BY DEF Governance!Version
<1>2. PICK i \in DOMAIN u.logKeys : u.logKeys[i].key = k /\ u.logKeys[i].from <= size
  BY DEF Governance!Resolves
<1>3. u.logKeys[i] \in Governance(l)!LogKeySet(v)
  BY <1>2 DEF Governance!LogKeySet
<1>4. PICK j \in DOMAIN v.logKeys : v.logKeys[j] = u.logKeys[i]
  BY <1>3 DEF Governance!LogKeySet
<1>5. \A h \in 1..(j - 1) : h \in DOMAIN v.logKeys /\ h # j
  BY <1>1, <1>4
<1>6. \A h \in 1..(j - 1) : v.logKeys[h].key # k
  BY <1>2, <1>4, <1>5 DEF Governance!DistinctKeys
<1> QED BY <1>2, <1>4, <1>6 DEF Governance!Resolves

\* Between a version that accepts a key and a later one that does not, the first
\* that does not rotates the keys of one that does.
LEMMA Handover ==
  ASSUME NEW l \in Logs, NEW w, w.versions \in Seq(Governance(l)!Version),
         \A j \in DOMAIN w.versions : Governance(l)!DistinctKeys(w.versions[j]),
         NEW i \in DOMAIN w.versions, NEW j \in DOMAIN w.versions, NEW k, NEW size \in Nat,
         i <= j,
         Governance(l)!Resolves(w.versions[i], k, size),
         ~Governance(l)!Resolves(w.versions[j], k, size)
  PROVE  \E h \in Governance(l)!RotationsIn(w) :
           h > i /\ h <= j /\ Governance(l)!Resolves(w.versions[h - 1], k, size)
<1> DEFINE vs == w.versions
           Drops == {h \in (i + 1)..j : ~Governance(l)!Resolves(vs[h], k, size)}
<1>1. DOMAIN vs = 1..Len(vs) /\ Len(vs) \in Nat
  OBVIOUS
<1>2. i # j
  OBVIOUS
<1>3. j \in Drops /\ Drops \subseteq Nat
  BY <1>1, <1>2
<1> HIDE DEF Drops
<1>4. PICK h \in Drops : \A x \in Drops : h <= x
  BY <1>3, LeastMember
<1>5. h \in (i + 1)..j /\ ~Governance(l)!Resolves(vs[h], k, size)
  BY <1>4 DEF Drops
<1>6. h \in 2..Len(vs) /\ h - 1 \in DOMAIN vs /\ h \in DOMAIN vs /\ h > i /\ h <= j
  BY <1>1, <1>5
<1>7. Governance(l)!Resolves(vs[h - 1], k, size)
  <2>1. CASE h - 1 = i
    BY <2>1
  <2>2. CASE h - 1 # i
    <3>1. h - 1 \in (i + 1)..j
      BY <1>1, <1>5, <2>2
    <3>2. h - 1 \notin Drops
      BY <1>4, <1>6
    <3> QED BY <3>1, <3>2 DEF Drops
  <2> QED BY <2>1, <2>2
<1>8. vs[h] \in Governance(l)!Version /\ vs[h - 1] \in Governance(l)!Version
  BY <1>6
<1>9. Governance(l)!LogKeySet(vs[h]) # Governance(l)!LogKeySet(vs[h - 1])
  BY <1>5, <1>6, <1>7, <1>8, SetDecides
<1>10. h \in Governance(l)!RotationsIn(w)
  BY <1>6, <1>9 DEF Governance!RotationsIn, Governance!Rotates
<1> QED BY <1>6, <1>7, <1>10

LEMMA InvHandsOver == Inv => KeysHandedOver
<1> SUFFICES ASSUME Inv, NEW c \in SeriesCheckpoints, NEW d \in SeriesCheckpoints,
                    c.log = d.log, c.size <= d.size,
                    ~Governance(d.log)!Walk(d.root).aborted,
                    \A j \in DOMAIN Governance(d.log)!Walk(d.root).versions :
                      Governance(d.log)!DistinctKeys(Governance(d.log)!Walk(d.root).versions[j]),
                    NEW k \in GovernedLogKeys(c.log, c.root) \ GovernedLogKeys(d.log, d.root)
             PROVE  \E j \in Governance(d.log)!RotationsIn(Governance(d.log)!Walk(d.root)) :
                      /\ Governance(d.log)!Walk(d.root).versions[j].index >= c.size
                      /\ Governance(d.log)!Resolves(
                           Governance(d.log)!Walk(d.root).versions[j - 1], k, d.size)
  BY DEF KeysHandedOver
<1>1. PICK l \in Logs : l = c.log /\ l = d.log
  BY HeldTypes DEF Inv, Checkpoint
<1>2. /\ c.root \in Root /\ d.root \in Root /\ c.size \in Nat /\ d.size \in Nat
      /\ Len(c.root) = c.size /\ Len(d.root) = d.size
  BY HeldTypes DEF Inv, Checkpoint, RootsMeasure
<1> DEFINE w == Governance(l)!Walk(c.root)
           x == Governance(l)!Walk(d.root)
           I == Len(w.versions)
           J == Len(x.versions)
<1>3. Grown(w, x, c.size, d.size)
  BY <1>1, InvKeepsGovernance DEF GovernanceKept
<1>4. /\ w.versions \in Seq(Governance(l)!Version)
      /\ x.versions \in Seq(Governance(l)!Version)
  BY <1>2, VersionsRead
<1>5. Governance(l)!Resolved(w) /\ k \in Keys
      /\ Governance(l)!Resolves(Governance(l)!Running(w), k, c.size)
  BY <1>1, <1>2 DEF GovernedLogKeys, Governance!ActiveLogKeys
<1>6. ~(Governance(l)!Resolved(x) /\ Governance(l)!Resolves(Governance(l)!Running(x), k, d.size))
  BY <1>1, <1>2, <1>5 DEF GovernedLogKeys, Governance!ActiveLogKeys
<1>7. /\ ~x.aborted
      /\ \A j \in DOMAIN x.versions : Governance(l)!DistinctKeys(x.versions[j])
  BY <1>1
<1> SUFFICES \E j \in Governance(l)!RotationsIn(x) :
               /\ x.versions[j].index >= c.size
               /\ Governance(l)!Resolves(x.versions[j - 1], k, d.size)
  BY <1>1
<1> HIDE DEF w, x
<1>8. I \in 1..J /\ J \in Nat /\ J \in DOMAIN x.versions /\ I \in DOMAIN x.versions
  BY <1>3, <1>4, <1>5 DEF Grown, Governance!Resolved, Governance!Unresolved
<1>9. x.versions[I] = w.versions[I]
  BY <1>3, <1>8 DEF Grown
<1>10. Governance(l)!Resolves(x.versions[I], k, d.size)
  <2>1. Governance(l)!Resolves(x.versions[I], k, c.size)
    BY <1>5, <1>9 DEF Governance!Running
  <2>2. x.versions[I] \in Governance(l)!Version
    BY <1>4, <1>8
  <2>3. \A i \in DOMAIN x.versions[I].logKeys : x.versions[I].logKeys[i].from \in Nat
    <3> DEFINE u == x.versions[I]
    <3>1. u.logKeys \in Seq(Governance(l)!LogKeyObject)
      BY <2>2 DEF Governance!Version
    <3> HIDE DEF u
    <3>2. \A i \in DOMAIN u.logKeys : u.logKeys[i] \in Governance(l)!LogKeyObject
      BY <3>1
    <3>3. \A i \in DOMAIN u.logKeys : u.logKeys[i].from \in Nat
      BY <3>2 DEF Governance!LogKeyObject
    <3> QED BY <3>3 DEF u
  <2> QED BY <1>2, <2>1, <2>3 DEF Governance!Resolves
<1>11. ~Governance(l)!Resolves(x.versions[J], k, d.size)
  <2>1. Governance(l)!Resolved(x)
    BY <1>7, <1>8 DEF Governance!Resolved, Governance!Unresolved
  <2> QED BY <1>6, <2>1 DEF Governance!Running
<1>12. PICK h \in Governance(l)!RotationsIn(x) :
         h > I /\ h <= J /\ Governance(l)!Resolves(x.versions[h - 1], k, d.size)
  <2>1. I <= J
    BY <1>8
  <2> HIDE DEF I, J
  <2> QED BY <1>2, <1>4, <1>7, <1>8, <1>10, <1>11, <2>1, Handover
<1>13. x.versions[h].index >= c.size
  <2>1. h \in (I + 1)..J
    BY <1>8, <1>12 DEF Governance!RotationsIn
  <2>2. x.versions[h].index \in c.size..(d.size - 1)
    BY <1>3, <2>1 DEF Grown
  <2> QED BY <1>2, <2>2
<1> QED BY <1>12, <1>13

\* A key that is active for one series checkpoint and not for a later one was handed
\* over: the log recorded a rotation between them that the key can still anchor
\* (rotations_in, rotation_anchors_for, transition).
THEOREM KeysAreHandedOver == Spec => []KeysHandedOver
BY InvHandsOver, InvCorrect, PTL

-----------------------------------------------------------------------------
(* Anchors *)

LEMMA AnchorsStep == Inv /\ AnchorsOwnHistory /\ [Next]_vars => AnchorsOwnHistory'
<1> SUFFICES ASSUME Inv, AnchorsOwnHistory, [Next]_vars,
                    NEW r \in rotations', r.cp \notin SeriesCheckpoints'
             PROVE  /\ r.index \in GovernedRotationAnchors(r.cp.log, r.cp.root, r.cp.key)
                    /\ r.cp.key \notin GovernedLogKeys(r.cp.log, r.cp.root)
  BY DEF AnchorsOwnHistory
<1>1. CASE r \in rotations /\ r.cp \notin SeriesCheckpoints
  BY <1>1 DEF AnchorsOwnHistory
<1>2. CASE UNCHANGED vars
  BY <1>1, <1>2 DEF vars, SeriesCheckpoints
<1>3. ASSUME NEW o \in Offers, Decide(o)
      PROVE  \/ r \in rotations /\ r.cp \notin SeriesCheckpoints
             \/ /\ r.index \in GovernedRotationAnchors(r.cp.log, r.cp.root, r.cp.key)
                /\ r.cp.key \notin GovernedLogKeys(r.cp.log, r.cp.root)
  <2>0. StoreTypeOK
    BY DEF Inv, TypeOK
  <2>1. CASE CosignSeries(o)
    <3>1. SeriesCheckpoints' = SeriesCheckpoints \cup {o.cp}
      BY <2>0, <2>1, OfferParts, InsertCosignedAdds DEF CosignSeries
    <3>2. \A q \in rotations' \ rotations : q.cp = o.cp
      BY <2>0, <2>1, OfferParts, InsertRotationAdds DEF CosignSeries
    <3> QED BY <3>1, <3>2
  <2>2. CASE CosignRotation(o)
    <3>1. \A q \in rotations' \ rotations : q.index \in Anchors(o) /\ q.cp = o.cp
      BY <2>0, <2>2, OfferParts, InsertRotationAdds DEF CosignRotation
    <3>2. SeriesCheckpoints' = SeriesCheckpoints
      BY <2>2 DEF CosignRotation, SeriesCheckpoints
    <3>3. o.cp.key \notin LogKeys(o.cp.log, o.entries) /\ o.entries = o.cp.root
      BY <2>2 DEF CosignRotation, RotationAdmissible, SeriesMember, RootRecomputes, ComputeRoot
    <3>4. /\ Anchors(o) = GovernedRotationAnchors(o.cp.log, o.cp.root, o.cp.key)
          /\ o.cp.key \notin GovernedLogKeys(o.cp.log, o.cp.root)
      BY <3>3, GovernedAssumption DEF Anchors
    <3> QED BY <3>1, <3>2, <3>4
  <2>3. CASE ~CosignSeries(o) /\ ~CosignRotation(o)
    <3>1. cosigned' = cosigned /\ rotations' = rotations
      BY <1>3, <2>3 DEF Decide, RefuseAtFloor, RefuseEquivocation, RecordEquivocation,
         RefuseSizeRegression, RefuseExtension, Reject, vars
    <3> QED BY <3>1 DEF SeriesCheckpoints
  <2> QED BY <2>1, <2>2, <2>3
<1> QED BY <1>1, <1>2, <1>3 DEF Next

\* A checkpoint held only as a rotation's anchor proves the rotation from the log
\* its own root commits to (rotation_transition, rotation_anchors_for).
THEOREM AnchorsProveRotation == Spec => []AnchorsOwnHistory
<1>1. Init => AnchorsOwnHistory
  BY DEF Init, StoreInit, AnchorsOwnHistory
<1> QED BY <1>1, AnchorsStep, InvCorrect, PTL DEF Spec

=============================================================================
