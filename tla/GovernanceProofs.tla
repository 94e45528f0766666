--------------------------- MODULE GovernanceProofs ---------------------------
(***************************************************************************)
(* Theorems of GovernanceWalk, for every set of entries, keys and anchors, *)
(* whatever the entries say.  WalkInv is inductive: a step appends one     *)
(* entry, which changes nothing said of the indexes before it (Stable),    *)
(* and the running key map stays what the effective statements say         *)
(* (ManifestTold, AddTold, RetireTold).                                    *)
(***************************************************************************)
EXTENDS GovernanceWalk, DataInduction, TLAPS

-----------------------------------------------------------------------------
(* What entries state *)

LEMMA SaysTypes ==
  ASSUME NEW e \in Entries
  PROVE  /\ Says[e].type = "manifest" => Says[e] \in Manifest
         /\ Says[e].type = "key" => Says[e] \in KeyStatement
         /\ Says[e].type \in {"manifest", "key", "other"}
<1>1. Says[e] \in Manifest \cup KeyStatement \cup Other
  BY SaysAssumption
<1>2. CASE Says[e] \in Manifest
  BY <1>2 DEF Manifest
<1>3. CASE Says[e] \in KeyStatement
  BY <1>3 DEF KeyStatement
<1>4. CASE Says[e] \in Other
  BY <1>4 DEF Other
<1> QED BY <1>1, <1>2, <1>3, <1>4

LEMMA WithKeyType ==
  ASSUME NEW keys \in KeyMaps, NEW p \in Producers, NEW from \in Nat
  PROVE  WithKey(keys, p, from) \in KeyMaps
BY DEF KeyMaps, WithKey, WithoutKey, ProducerKey

LEMMA WithoutKeyType ==
  ASSUME NEW keys \in KeyMaps, NEW p
  PROVE  WithoutKey(keys, p) \in KeyMaps
BY DEF KeyMaps, WithoutKey

LEMMA ApplyKeyType ==
  ASSUME NEW w \in WalkState, NEW k \in KeyStatement
  PROVE  ApplyKey(w, k) \in KeyMaps
<1>1. w.producers \in KeyMaps /\ k.key \in Producers /\ k.from \in Nat
  BY DEF WalkState, KeyStatement
<1> QED BY <1>1, WithKeyType, WithoutKeyType DEF ApplyKey

LEMMA VersionOfType ==
  ASSUME NEW e \in Entries, NEW index \in Nat, Says[e] \in Manifest
  PROVE  VersionOf(e, index) \in Version
BY DEF VersionOf, Version, Manifest

\* What a candidate states.
LEMMA CandidateTypes ==
  ASSUME NEW w, NEW e \in Entries, NEW index
  PROVE  /\ Candidate(w, e) => Says[e].type \in {"manifest", "key"}
         /\ Installs(w, e, index) => Says[e] \in Manifest
         /\ Changes(w, e, index) => Says[e] \in KeyStatement /\ ~Unresolved(w)
         /\ ~(Installs(w, e, index) /\ Changes(w, e, index))
<1>1. Candidate(w, e) => Says[e].type \in {"manifest", "key"}
  BY DEF Candidate
<1>2. Installs(w, e, index) => Says[e].type = "manifest"
  BY DEF Installs
<1>3. Changes(w, e, index) => Says[e].type = "key" /\ Candidate(w, e)
  BY DEF Changes, Verifies
<1>4. Says[e].type = "key" /\ Candidate(w, e) => ~Unresolved(w)
  BY DEF Candidate
<1> QED BY <1>1, <1>2, <1>3, <1>4, SaysTypes

-----------------------------------------------------------------------------
(* The four outcomes of a step *)

LEMMA ReadCases ==
  ASSUME NEW e \in Entries, Read(e)
  PROVE  LET n == Len(entries)
         IN \/ /\ Aborts(walk, e, n)
               /\ walk' = [walk EXCEPT !.aborted = TRUE]
               /\ effective' = effective
            \/ /\ ~Aborts(walk, e, n)
               /\ Installs(walk, e, n)
               /\ walk' = [walk EXCEPT !.versions = Append(@, VersionOf(e, n)),
                                       !.producers = Says[e].producers]
               /\ effective' = effective \cup {n}
            \/ /\ ~Aborts(walk, e, n)
               /\ Changes(walk, e, n)
               /\ walk' = [walk EXCEPT !.producers = ApplyKey(walk, Says[e])]
               /\ effective' = effective \cup {n}
            \/ /\ ~Aborts(walk, e, n)
               /\ ~Installs(walk, e, n)
               /\ ~Changes(walk, e, n)
               /\ walk' = walk
               /\ effective' = effective
<1> DEFINE n == Len(entries)
<1>1. /\ ~walk.aborted
      /\ walk' = Step(walk, e, n)
      /\ effective' = IF TakesEffect(e, n) THEN effective \cup {n} ELSE effective
  BY DEF Read
<1>2. Installs(walk, e, n) \/ Changes(walk, e, n) => ~Aborts(walk, e, n)
  BY DEF Installs, Changes
<1>3. ~(Installs(walk, e, n) /\ Changes(walk, e, n))
  BY CandidateTypes
<1> QED BY <1>1, <1>2, <1>3, Zenon DEF Step, TakesEffect

-----------------------------------------------------------------------------
(* Type correctness *)

LEMMA StepType ==
  ASSUME NEW w \in WalkState, NEW e \in Entries, NEW n \in Nat
  PROVE  Step(w, e, n) \in WalkState
<1>1. CASE Step(w, e, n) = w
  BY <1>1
<1>2. CASE Step(w, e, n) = [w EXCEPT !.aborted = TRUE]
  BY <1>2 DEF WalkState
<1>3. CASE /\ Installs(w, e, n)
           /\ Step(w, e, n) = [w EXCEPT !.versions = Append(@, VersionOf(e, n)),
                                        !.producers = Says[e].producers]
  <2>1. Says[e] \in Manifest
    BY <1>3, CandidateTypes
  <2>2. VersionOf(e, n) \in Version /\ Says[e].producers \in KeyMaps
    BY <2>1, VersionOfType DEF Manifest
  <2>3. Append(w.versions, VersionOf(e, n)) \in Seq(Version)
    BY <2>2 DEF WalkState
  <2> QED BY <1>3, <2>2, <2>3 DEF WalkState
<1>4. CASE /\ Changes(w, e, n)
           /\ Step(w, e, n) = [w EXCEPT !.producers = ApplyKey(w, Says[e])]
  <2>1. Says[e] \in KeyStatement
    BY <1>4, CandidateTypes
  <2>2. ApplyKey(w, Says[e]) \in KeyMaps
    BY <2>1, ApplyKeyType
  <2> QED BY <1>4, <2>2 DEF WalkState
<1> QED BY <1>1, <1>2, <1>3, <1>4, Zenon DEF Step

LEMMA InitType == WalkInit \in WalkState
BY DEF WalkInit, WalkState, KeyMaps

LEMMA TypeInit == Init => WalkTypeOK
BY InitType DEF Init, WalkTypeOK

LEMMA TypeStep ==
  ASSUME WalkTypeOK, NEW e \in Entries, Read(e)
  PROVE  WalkTypeOK'
<1>1. Len(entries) \in Nat /\ entries' \in Seq(Entries)
  BY DEF WalkTypeOK, Read
<1>2. effective' \subseteq Nat
  BY <1>1, ReadCases DEF WalkTypeOK
<1>3. walk' \in WalkState
  BY <1>1, StepType DEF WalkTypeOK, Read
<1> QED BY <1>1, <1>2, <1>3 DEF WalkTypeOK

-----------------------------------------------------------------------------
(* The walk over a whole prefix *)

\* The states the walk goes through, one after each entry.
LEMMA WalkStates ==
  ASSUME NEW p \in Seq(Entries)
  PROVE  \E g \in [0..Len(p) -> WalkState] :
           /\ g[0] = WalkInit
           /\ \A n \in 1..Len(p) : g[n] = Step(g[n - 1], p[n], n - 1)
           /\ Walk(p) = g[Len(p)]
<1> DEFINE N == Len(p)
           F == [x \in WalkState \X (1..N) |-> Step(x[1], p[x[2]], x[2] - 1)]
           Unfolds(g) == g = [n \in 0..N |-> IF n = 0 THEN WalkInit ELSE Step(g[n - 1], p[n], n - 1)]
<1>1. N \in Nat /\ \A n \in 1..N : p[n] \in Entries /\ n - 1 \in Nat
  OBVIOUS
<1>2. F \in [WalkState \X (1..N) -> WalkState]
  BY <1>1, StepType
<1>3. \A w \in WalkState, n \in 1..N : F[<<w, n>>] = Step(w, p[n], n - 1)
  OBVIOUS
<1> HIDE DEF F
<1>4. PICK f \in [0..N -> WalkState] : Recursive(f, N, WalkInit, F)
  BY <1>1, <1>2, InitType, RecursiveExists
<1>5. \A n \in 0..N : f[n] = IF n = 0 THEN WalkInit ELSE Step(f[n - 1], p[n], n - 1)
  <2> SUFFICES ASSUME NEW n \in 0..N, n # 0 PROVE f[n] = Step(f[n - 1], p[n], n - 1)
    BY <1>4 DEF Recursive
  <2>1. n \in 1..N /\ f[n - 1] \in WalkState
    BY <1>1, <1>4
  <2> QED BY <1>3, <1>4, <2>1 DEF Recursive
<1>6. Unfolds(f)
  BY <1>4, <1>5
<1>7. \E g : Unfolds(g) /\ Walk(p) = g[N]
  BY <1>6 DEF Walk
<1>8. PICK g : Unfolds(g) /\ Walk(p) = g[N]
  BY <1>7
<1>9. /\ DOMAIN g = 0..N
      /\ g[0] = WalkInit
      /\ \A n \in 1..N : g[n] = Step(g[n - 1], p[n], n - 1)
  BY <1>1, <1>8
<1>10. g \in [0..N -> WalkState]
  <2> DEFINE S == {n \in 0..N : g[n] \in WalkState}
  <2>1. 0 \in S
    BY <1>1, <1>9, InitType
  <2>2. \A n \in 0..(N - 1) : n \in S => n + 1 \in S
    <3> SUFFICES ASSUME NEW n \in 0..(N - 1), g[n] \in WalkState PROVE g[n + 1] \in WalkState
      BY <1>1
    <3>1. n + 1 \in 1..N /\ (n + 1) - 1 = n /\ n \in Nat
      BY <1>1
    <3>2. g[n + 1] = Step(g[n], p[n + 1], n)
      BY <1>9, <3>1
    <3> QED BY <1>1, <3>1, <3>2, StepType
  <2> HIDE DEF S
  <2>3. 0..N \subseteq S
    BY <1>1, <2>1, <2>2, BoundedInduction
  <2>4. \A n \in 0..N : g[n] \in WalkState
    BY <2>3 DEF S
  <2>5. g = [n \in 0..N |-> g[n]]
    BY <1>8
  <2> QED BY <2>4, <2>5
<1> QED BY <1>8, <1>9, <1>10

LEMMA WalkEmpty == Walk(<<>>) = WalkInit
<1>1. <<>> \in Seq(Entries) /\ Len(<<>>) = 0
  OBVIOUS
<1> QED BY <1>1, WalkStates

LEMMA WalkType ==
  ASSUME NEW p \in Seq(Entries)
  PROVE  Walk(p) \in WalkState
<1>1. Len(p) \in 0..Len(p)
  OBVIOUS
<1> QED BY <1>1, WalkStates

\* One more entry is one more step.
LEMMA WalkAppend ==
  ASSUME NEW p \in Seq(Entries), NEW e \in Entries
  PROVE  Walk(Append(p, e)) = Step(Walk(p), e, Len(p))
<1> DEFINE q == Append(p, e)
           N == Len(p)
<1>1. /\ N \in Nat /\ q \in Seq(Entries) /\ Len(q) = N + 1
      /\ q[N + 1] = e
      /\ \A n \in 1..N : q[n] = p[n]
  OBVIOUS
<1>2. PICK g \in [0..N -> WalkState] :
        /\ g[0] = WalkInit
        /\ \A n \in 1..N : g[n] = Step(g[n - 1], p[n], n - 1)
        /\ Walk(p) = g[N]
  BY WalkStates
<1> HIDE DEF q
<1>3. PICK h \in [0..Len(q) -> WalkState] :
        /\ h[0] = WalkInit
        /\ \A n \in 1..Len(q) : h[n] = Step(h[n - 1], q[n], n - 1)
        /\ Walk(q) = h[Len(q)]
  BY <1>1, WalkStates
<1>4. h[N + 1] = Step(h[N], e, N)
  BY <1>1, <1>3
<1> DEFINE S == {n \in 0..N : g[n] = h[n]}
<1>5. 0 \in S
  BY <1>1, <1>2, <1>3
<1>6. \A n \in 0..(N - 1) : n \in S => n + 1 \in S
  <2> SUFFICES ASSUME NEW n \in 0..(N - 1), g[n] = h[n] PROVE g[n + 1] = h[n + 1]
    BY <1>1
  <2>1. n + 1 \in 1..N /\ n + 1 \in 1..Len(q) /\ (n + 1) - 1 = n
    BY <1>1
  <2>2. g[n + 1] = Step(g[n], p[n + 1], n) /\ h[n + 1] = Step(h[n], q[n + 1], n)
    BY <1>2, <1>3, <2>1
  <2> QED BY <1>1, <2>1, <2>2
<1> HIDE DEF S
<1>7. 0..N \subseteq S
  BY <1>1, <1>5, <1>6, BoundedInduction
<1>8. g[N] = h[N]
  BY <1>1, <1>7 DEF S
<1> QED BY <1>1, <1>2, <1>3, <1>4, <1>8 DEF q

LEMMA ComputedStep ==
  ASSUME WalkTypeOK, WalkComputed, NEW e \in Entries, Read(e)
  PROVE  WalkComputed'
BY WalkAppend DEF WalkTypeOK, WalkComputed, Read

-----------------------------------------------------------------------------
(* A step changes nothing said of earlier indexes *)

LEMMA EffectiveGrows ==
  ASSUME NEW e \in Entries, Read(e)
  PROVE  effective' = effective \/ effective' = effective \cup {Len(entries)}
BY ReadCases

LEMMA StatedStable ==
  ASSUME WalkTypeOK, NEW e \in Entries, Read(e)
  PROVE  /\ Len(entries') = Len(entries) + 1
         /\ \A x \in Nat : x < Len(entries) =>
              entries'[x + 1] = entries[x + 1] /\ Stated(x)' = Stated(x)
         /\ entries'[Len(entries) + 1] = e
         /\ \A x \in Nat : x = Len(entries) => Stated(x)' = Says[e]
<1>1. entries \in Seq(Entries) /\ entries' = Append(entries, e)
  BY DEF WalkTypeOK, Read
<1>2. /\ Len(entries') = Len(entries) + 1
      /\ \A x \in Nat : x < Len(entries) => entries'[x + 1] = entries[x + 1]
      /\ entries'[Len(entries) + 1] = e
  BY <1>1
<1>3. \A x : Stated(x)' = Says[entries'[x + 1]]
  BY DEF Stated
<1>4. \A x \in Nat : x < Len(entries) => Stated(x)' = Stated(x)
  BY <1>2, <1>3 DEF Stated
<1>5. \A x \in Nat : x = Len(entries) => Stated(x)' = Says[e]
  BY <1>2, <1>3
<1> QED BY <1>2, <1>4, <1>5

LEMMA BeforeStable ==
  ASSUME WalkTypeOK, NEW e \in Entries, Read(e), NEW m \in Nat, m <= Len(entries)
  PROVE  Before(m)' = Before(m)
<1>1. Len(entries) \in Nat /\ effective \subseteq Nat
  BY DEF WalkTypeOK
<1> QED BY <1>1, EffectiveGrows DEF Before

LEMMA KeysStable ==
  ASSUME WalkTypeOK, NEW e \in Entries, Read(e), NEW m \in Nat, m <= Len(entries)
  PROVE  KeysInForce(m)' = KeysInForce(m)
<1>1. Before(m)' = Before(m)
  BY BeforeStable
<1>2. \A x \in Before(m) : x \in Nat /\ x < Len(entries)
  BY DEF Before, WalkTypeOK
<1>3. \A x \in Before(m) : Stated(x)' = Stated(x)
  BY <1>2, StatedStable
<1>4. \A x \in Before(m) : GivenKeys(x)' = GivenKeys(x)
  BY <1>3 DEF GivenKeys
<1>5. \A x \in Before(m), p \in Producers : Overrides(x, p)' = Overrides(x, p)
  BY <1>3 DEF Overrides
<1>6. \A x \in Before(m) : \A p : Overrides(x, p)' = Overrides(x, p)
  BY <1>3 DEF Overrides
<1> DEFINE Kept(x) == {o \in GivenKeys(x) : \A y \in Before(m) : x < y => ~Overrides(y, o.key)}
<1>7. \A x \in Before(m) : Kept(x)' = Kept(x)
  BY <1>1, <1>4, <1>6
<1>8. UNION {Kept(x)' : x \in Before(m)} = UNION {Kept(x) : x \in Before(m)}
  BY <1>7, Zenon
<1> QED BY <1>1, <1>8 DEF KeysInForce

LEMMA InForceStable ==
  ASSUME WalkTypeOK, NEW e \in Entries, Read(e), NEW m \in Nat, m <= Len(entries), NEW p
  PROVE  InForceAt(p, m)' = InForceAt(p, m)
BY KeysStable DEF InForceAt

-----------------------------------------------------------------------------
(* The running key map is what the effective statements say *)

\* Every effective index is before the end of the prefix.
LEMMA AllBefore ==
  ASSUME WalkTypeOK, EffectiveRead
  PROVE  Before(Len(entries)) = effective
BY DEF Before, EffectiveRead, WalkTypeOK

LEMMA EffectiveReadStep ==
  ASSUME WalkTypeOK, EffectiveRead, NEW e \in Entries, Read(e)
  PROVE  EffectiveRead'
<1>0. PICK n \in Nat : n = Len(entries)
  BY DEF WalkTypeOK
<1>1. effective \subseteq Nat
  BY DEF WalkTypeOK
<1>2. \A x \in effective : x < Len(entries') /\ Stated(x)'.type \in {"manifest", "key"}
  BY <1>1, StatedStable DEF EffectiveRead
<1>3. effective' # effective => Says[e].type \in {"manifest", "key"}
  BY ReadCases, CandidateTypes DEF Manifest, KeyStatement
<1>4. effective' # effective => Stated(n)'.type \in {"manifest", "key"}
  BY <1>0, <1>3, StatedStable
<1>5. effective' = effective \/ effective' = effective \cup {n}
  BY <1>0, EffectiveGrows
<1>6. n < Len(entries')
  BY <1>0, StatedStable
<1>7. \A x \in effective' : x < Len(entries') /\ Stated(x)'.type \in {"manifest", "key"}
  BY <1>2, <1>4, <1>5, <1>6
<1> QED BY <1>7 DEF EffectiveRead

\* What is in force after a statement took effect: what it gives, and what was in
\* force before unless it overrides that.
LEMMA NowInForce ==
  ASSUME WalkTypeOK, EffectiveRead, NEW e \in Entries, Read(e),
         NEW n \in Nat, n = Len(entries), effective' = effective \cup {n}
  PROVE  KeysInForce(n + 1)' =
           GivenKeys(n)' \cup {o \in KeysInForce(n) : ~Overrides(n, o.key)'}
<1> DEFINE Kept(x) == {o \in GivenKeys(x) : \A y \in effective : x < y => ~Overrides(y, o.key)}
           Now(x) == {o \in GivenKeys(x)' : \A y \in effective' : x < y => ~Overrides(y, o.key)'}
<1>1. effective \subseteq Nat /\ \A x \in effective : x < n
  BY DEF WalkTypeOK, EffectiveRead
<1>2. Before(n) = effective
  BY AllBefore
<1>3. Before(n + 1)' = effective'
  <2>1. \A x \in effective' : x < n + 1
    BY <1>1
  <2>2. Before(n + 1)' = {x \in effective' : x < n + 1}
    BY DEF Before
  <2> QED BY <2>1, <2>2, Zenon
<1>4. \A x \in effective : Stated(x)' = Stated(x)
  BY <1>1, StatedStable
<1>5. \A x \in effective : GivenKeys(x)' = GivenKeys(x)
  BY <1>4 DEF GivenKeys
<1>6. \A x \in effective : \A p : Overrides(x, p)' = Overrides(x, p)
  BY <1>4 DEF Overrides
<1>7. \A x \in effective : Now(x) = {o \in Kept(x) : ~Overrides(n, o.key)'}
  <2> SUFFICES ASSUME NEW x \in effective
               PROVE  Now(x) = {o \in Kept(x) : ~Overrides(n, o.key)'}
    OBVIOUS
  <2>1. x < n
    BY <1>1
  <2>2. \A p : (\A y \in effective' : x < y => ~Overrides(y, p)') <=>
               (\A y \in effective : x < y => ~Overrides(y, p)) /\ ~Overrides(n, p)'
    <3>1. \A p : \A y \in effective : Overrides(y, p)' <=> Overrides(y, p)
      BY <1>6
    <3> QED BY <3>1, <2>1
  <2>3. \A o : o \in Now(x) <=> o \in Kept(x) /\ ~Overrides(n, o.key)'
    BY <1>5, <2>2
  <2> HIDE DEF Now, Kept
  <2> QED BY <2>3
<1>8. Now(n) = GivenKeys(n)'
  BY <1>1
<1>9. KeysInForce(n) = UNION {Kept(x) : x \in effective}
  BY <1>2 DEF KeysInForce
<1>10. KeysInForce(n + 1)' = UNION {Now(x) : x \in effective'}
  BY <1>3 DEF KeysInForce
<1>11. \A o : o \in KeysInForce(n + 1)' <=>
                o \in Now(n) \/ \E x \in effective : o \in Now(x)
  <2> HIDE DEF Now
  <2> QED BY <1>10
<1>12. \A o : o \in KeysInForce(n) <=> \E x \in effective : o \in Kept(x)
  BY <1>9
<1> QED BY <1>7, <1>8, <1>11, <1>12

LEMMA ProducersToldStep ==
  ASSUME WalkTypeOK, EffectiveRead, ProducersTold, NEW e \in Entries, Read(e)
  PROVE  ProducersTold'
<1>0. PICK n \in Nat : n = Len(entries)
  BY DEF WalkTypeOK
<1>1. Len(entries') = n + 1 /\ Stated(n)' = Says[e]
  BY <1>0, StatedStable
<1>2. walk \in WalkState /\ walk.versions \in Seq(Version)
  BY DEF WalkTypeOK, WalkState
<1>3. ~Unresolved(walk) => walk.producers = KeysInForce(n)
  BY <1>0 DEF ProducersTold
<1>4. ProducersTold' <=>
        /\ Unresolved(walk') <=> effective' = {}
        /\ ~Unresolved(walk') => walk'.producers = KeysInForce(n + 1)'
  BY <1>1 DEF ProducersTold
<1>5. CASE effective' = effective /\ (walk' = walk \/ walk' = [walk EXCEPT !.aborted = TRUE])
  <2>1. walk'.versions = walk.versions /\ walk'.producers = walk.producers
    BY <1>2, <1>5 DEF WalkState
  <2>2. Unresolved(walk') <=> Unresolved(walk)
    BY <2>1 DEF Unresolved
  <2>3. KeysInForce(n + 1)' = KeysInForce(n)
    <3>1. \A x \in effective : x \in Nat /\ x < n
      BY <1>0 DEF WalkTypeOK, EffectiveRead
    <3>2. Before(n + 1)' = effective'
      <4>1. \A x \in effective' : x < n + 1
        BY <1>5, <3>1
      <4>2. Before(n + 1)' = {x \in effective' : x < n + 1}
        BY DEF Before
      <4> QED BY <4>1, <4>2, Zenon
    <3>3. Before(n) = effective /\ Before(n)' = effective
      BY <1>0, AllBefore, BeforeStable
    <3>4. KeysInForce(n + 1)' = KeysInForce(n)'
      BY <1>5, <3>2, <3>3 DEF KeysInForce
    <3> QED BY <1>0, <3>4, KeysStable
  <2> QED BY <1>3, <1>4, <1>5, <2>1, <2>2, <2>3 DEF ProducersTold
<1>6. CASE /\ Installs(walk, e, n)
           /\ walk' = [walk EXCEPT !.versions = Append(@, VersionOf(e, n)),
                                   !.producers = Says[e].producers]
           /\ effective' = effective \cup {n}
  <2>1. Says[e].type = "manifest"
    BY <1>6 DEF Installs
  <2>2. KeysInForce(n + 1)' =
          GivenKeys(n)' \cup {o \in KeysInForce(n) : ~Overrides(n, o.key)'}
    BY <1>0, <1>6, NowInForce
  <2>3. GivenKeys(n)' = Says[e].producers /\ \A p : Overrides(n, p)'
    BY <1>1, <2>1 DEF GivenKeys, Overrides
  <2>4. walk'.producers = Says[e].producers /\ walk'.versions = Append(walk.versions, VersionOf(e, n))
    BY <1>2, <1>6 DEF WalkState
  <2>5. ~Unresolved(walk')
    BY <1>2, <2>4 DEF Unresolved
  <2>6. KeysInForce(n + 1)' = Says[e].producers
    BY <2>2, <2>3
  <2> QED BY <1>4, <1>6, <2>4, <2>5, <2>6
<1>7. CASE /\ Changes(walk, e, n)
           /\ walk' = [walk EXCEPT !.producers = ApplyKey(walk, Says[e])]
           /\ effective' = effective \cup {n}
  <2>1. Says[e].type = "key" /\ Says[e] \in KeyStatement /\ ~Unresolved(walk)
    BY <1>7, CandidateTypes DEF Changes
  <2>2. KeysInForce(n + 1)' =
          GivenKeys(n)' \cup {o \in KeysInForce(n) : ~Overrides(n, o.key)'}
    BY <1>0, <1>7, NowInForce
  <2>3. \A p : Overrides(n, p)' <=> Says[e].key = p
    BY <1>1, <2>1 DEF Overrides
  <2>4. GivenKeys(n)' = IF Says[e].action = "add"
                        THEN {[key |-> Says[e].key, from |-> Says[e].from]} ELSE {}
    BY <1>1, <2>1 DEF GivenKeys
  <2>5. walk'.producers = ApplyKey(walk, Says[e]) /\ walk'.versions = walk.versions
    BY <1>2, <1>7 DEF WalkState
  <2>6. ~Unresolved(walk')
    BY <2>1, <2>5 DEF Unresolved
  <2>7. {o \in KeysInForce(n) : ~Overrides(n, o.key)'} = WithoutKey(walk.producers, Says[e].key)
    BY <1>3, <2>1, <2>3 DEF WithoutKey
  <2>8. KeysInForce(n + 1)' = ApplyKey(walk, Says[e])
    BY <2>2, <2>4, <2>7 DEF ApplyKey, WithKey
  <2> QED BY <1>4, <1>7, <2>5, <2>6, <2>8
<1> QED BY <1>0, <1>5, <1>6, <1>7, ReadCases

-----------------------------------------------------------------------------
(* The properties *)

\* What verifies under the running key map is signed by a key in force.
LEMMA VerifiesInForce ==
  ASSUME WalkTypeOK, EffectiveRead, ProducersTold, NEW e \in Entries,
         NEW n \in Nat, n = Len(entries), Says[e].type \in {"manifest", "key"}
  PROVE  /\ effective # {} => (Verifies(walk, e, n) <=> InForceAt(Says[e].sig, n))
         /\ effective = {} =>
              /\ ~InForceAt(Says[e].sig, n)
              /\ Verifies(walk, e, n) <=>
                   /\ Says[e].type = "manifest"
                   /\ e = Anchor.genesis
                   /\ ConfiguredAt(Says[e].sig, n)
<1>1. effective = {} <=> Unresolved(walk)
  BY DEF ProducersTold
<1>2. CASE effective # {}
  <2>1. Candidate(walk, e) /\ Authority(walk) = KeysInForce(n)
    BY <1>1, <1>2 DEF Candidate, Authority, ProducersTold
  <2> QED BY <1>2, <2>1 DEF Verifies, InForceAt
<1>3. CASE effective = {}
  <2>1. Authority(walk) = Anchor.producers
    BY <1>1, <1>3 DEF Authority
  <2>2. Candidate(walk, e) <=> Says[e].type = "manifest" /\ e = Anchor.genesis
    BY <1>1, <1>3 DEF Candidate
  <2>3. Before(n) = {}
    BY <1>3 DEF Before
  <2>4. KeysInForce(n) = {}
    BY <2>3 DEF KeysInForce
  <2> QED BY <1>3, <2>1, <2>2, <2>4 DEF Verifies, InForceAt, ConfiguredAt
<1> QED BY <1>2, <1>3

LEMMA AuthorizedStep ==
  ASSUME WalkTypeOK, EffectiveRead, ProducersTold, EffectiveAuthorized,
         NEW e \in Entries, Read(e)
  PROVE  EffectiveAuthorized'
<1>0. PICK n \in Nat : n = Len(entries)
  BY DEF WalkTypeOK
<1> DEFINE Authorized(x) ==
             IF Before(x) = {}
             THEN entries[x + 1] = Anchor.genesis /\ ConfiguredAt(Stated(x).sig, x)
             ELSE InForceAt(Stated(x).sig, x)
<1>1. \A x \in effective : x \in Nat /\ x < n
  BY <1>0 DEF WalkTypeOK, EffectiveRead
<1>2. \A x \in effective : Authorized(x)'
  <2> SUFFICES ASSUME NEW x \in effective PROVE Authorized(x)'
    OBVIOUS
  <2>1. x \in Nat /\ x < n /\ Authorized(x)
    BY <1>1 DEF EffectiveAuthorized
  <2>2. Before(x)' = Before(x) /\ KeysInForce(x)' = KeysInForce(x)
    BY <1>0, <2>1, BeforeStable, KeysStable
  <2>3. entries'[x + 1] = entries[x + 1] /\ Stated(x)' = Stated(x)
    BY <1>0, <2>1, StatedStable
  <2> QED BY <2>1, <2>2, <2>3 DEF InForceAt, ConfiguredAt
<1>3. effective' # effective => Authorized(n)'
  <2> SUFFICES ASSUME effective' # effective PROVE Authorized(n)'
    OBVIOUS
  <2>1. Verifies(walk, e, n) /\ Says[e].type \in {"manifest", "key"}
    BY <1>0, ReadCases DEF Installs, Changes
  <2>2. Before(n)' = effective
    BY <1>0, BeforeStable, AllBefore
  <2>3. KeysInForce(n)' = KeysInForce(n)
    BY <1>0, KeysStable
  <2>4. entries'[n + 1] = e /\ Stated(n)' = Says[e]
    BY <1>0, StatedStable
  <2>5. /\ effective # {} => InForceAt(Says[e].sig, n)
        /\ effective = {} => e = Anchor.genesis /\ ConfiguredAt(Says[e].sig, n)
    BY <1>0, <2>1, VerifiesInForce
  <2> QED BY <2>2, <2>3, <2>4, <2>5 DEF InForceAt, ConfiguredAt
<1>4. effective' = effective \/ effective' = effective \cup {n}
  BY <1>0, EffectiveGrows
<1>5. \A x \in effective' : Authorized(x)'
  BY <1>2, <1>3, <1>4
<1> QED BY <1>5 DEF EffectiveAuthorized

LEMMA RevisionStep ==
  ASSUME WalkTypeOK, EffectiveRead, ProducersTold, EarlierRevisionNeverSkipped,
         NEW e \in Entries, Read(e)
  PROVE  EarlierRevisionNeverSkipped'
<1>0. PICK n \in Nat : n = Len(entries)
  BY DEF WalkTypeOK
<1> DEFINE Seen(x) ==
             Stated(x).type \in {"manifest", "key"} /\ ~Stated(x).current =>
               /\ ~InForceAt(Stated(x).sig, x)
               /\ ~(/\ Before(x) = {}
                    /\ Stated(x).type = "manifest"
                    /\ entries[x + 1] = Anchor.genesis
                    /\ ConfiguredAt(Stated(x).sig, x))
<1> SUFFICES ASSUME ~walk'.aborted
             PROVE  \A x \in 0..n : Seen(x)'
  <2>1. Len(entries') - 1 = n
    BY <1>0, StatedStable
  <2> QED BY <2>1 DEF EarlierRevisionNeverSkipped
<1>1. ~walk.aborted /\ ~Aborts(walk, e, n)
  <2>1. ~walk.aborted
    BY DEF Read
  <2>2. walk \in WalkState
    BY DEF WalkTypeOK
  <2>3. walk' = [walk EXCEPT !.aborted = TRUE] => walk'.aborted
    BY <2>2 DEF WalkState
  <2> QED BY <1>0, <2>1, <2>3, ReadCases
<1>2. \A x \in 0..(n - 1) : Seen(x)'
  <2> SUFFICES ASSUME NEW x \in 0..(n - 1) PROVE Seen(x)'
    OBVIOUS
  <2>1. Seen(x)
    BY <1>0, <1>1 DEF EarlierRevisionNeverSkipped
  <2>2. Before(x)' = Before(x) /\ KeysInForce(x)' = KeysInForce(x)
    BY <1>0, BeforeStable, KeysStable
  <2>3. entries'[x + 1] = entries[x + 1] /\ Stated(x)' = Stated(x)
    BY <1>0, StatedStable
  <2> QED BY <2>1, <2>2, <2>3 DEF InForceAt, ConfiguredAt
<1>3. Seen(n)'
  <2>1. Before(n)' = effective
    BY <1>0, BeforeStable, AllBefore
  <2>2. KeysInForce(n)' = KeysInForce(n)
    BY <1>0, KeysStable
  <2>3. entries'[n + 1] = e /\ Stated(n)' = Says[e]
    BY <1>0, StatedStable
  <2>4. ~(Verifies(walk, e, n) /\ ~Says[e].current)
    BY <1>1 DEF Aborts, EarlierRevision
  <2>5. Says[e].type \in {"manifest", "key"} /\ ~Says[e].current =>
          /\ ~InForceAt(Says[e].sig, n)
          /\ ~(/\ effective = {}
               /\ Says[e].type = "manifest"
               /\ e = Anchor.genesis
               /\ ConfiguredAt(Says[e].sig, n))
    BY <1>0, <2>4, VerifiesInForce
  <2> QED BY <2>1, <2>2, <2>3, <2>5 DEF InForceAt, ConfiguredAt
<1> QED BY <1>2, <1>3

\* A version that a step keeps.
LEMMA KeptVersions ==
  ASSUME WalkTypeOK, NEW e \in Entries, Read(e), ~Installs(walk, e, Len(entries))
  PROVE  walk'.versions = walk.versions
<1>1. walk \in WalkState
  BY DEF WalkTypeOK
<1> QED BY <1>1, ReadCases DEF WalkState

LEMMA InstalledVersion ==
  ASSUME WalkTypeOK, NEW e \in Entries, Read(e), Installs(walk, e, Len(entries))
  PROVE  /\ walk'.versions = Append(walk.versions, VersionOf(e, Len(entries)))
         /\ effective' = effective \cup {Len(entries)}
<1>1. walk \in WalkState
  BY DEF WalkTypeOK
<1>2. ~Aborts(walk, e, Len(entries)) /\ ~Changes(walk, e, Len(entries))
  BY CandidateTypes DEF Installs
<1> QED BY <1>1, <1>2, ReadCases DEF WalkState

LEMMA ChainStep ==
  ASSUME WalkTypeOK, EffectiveRead, ProducersTold, VersionsChained,
         NEW e \in Entries, Read(e)
  PROVE  VersionsChained'
<1>0. PICK n \in Nat : n = Len(entries)
  BY DEF WalkTypeOK
<1> DEFINE vs == walk.versions
           Placed(v) == v.index \in effective /\ v.id = entries[v.index + 1]
           Follows(v, u, first) ==
             u.index < v.index /\ Says[v.id].pred = u.id /\ v.epoch = first.epoch
<1>1. vs \in Seq(Version) /\ effective \subseteq Nat
  BY DEF WalkTypeOK, WalkState
<1>2. \A j \in DOMAIN vs :
        /\ Placed(vs[j])
        /\ j = 1 => vs[j].id = Anchor.genesis
        /\ j # 1 => Follows(vs[j], vs[j - 1], vs[1])
  BY DEF VersionsChained
<1>3. \A j \in DOMAIN vs : vs[j].index \in Nat /\ vs[j].index < n
  BY <1>0, <1>1, <1>2 DEF EffectiveRead
<1>4. \A j \in DOMAIN vs : vs[j].index \in effective' /\ vs[j].id = entries'[vs[j].index + 1]
  BY <1>0, <1>2, <1>3, EffectiveGrows, StatedStable
<1>5. CASE ~Installs(walk, e, n)
  <2>1. walk'.versions = vs
    BY <1>0, <1>5, KeptVersions
  <2> QED BY <1>2, <1>4, <2>1 DEF VersionsChained
<1>6. CASE Installs(walk, e, n)
  <2> DEFINE v == VersionOf(e, n)
             us == walk'.versions
  <2>1. us = Append(vs, v) /\ effective' = effective \cup {n}
    BY <1>0, <1>6, InstalledVersion
  <2>2. v.index = n /\ v.id = e /\ v.epoch = Says[e].epoch
    BY DEF VersionOf
  <2>3. v.index \in effective' /\ v.id = entries'[v.index + 1]
    BY <1>0, <2>1, <2>2, StatedStable
  <2>4. /\ DOMAIN us = 1..(Len(vs) + 1)
        /\ DOMAIN vs = 1..Len(vs)
        /\ us[Len(vs) + 1] = v
        /\ \A j \in 1..Len(vs) : us[j] = vs[j]
        /\ Len(vs) \in Nat
    BY <1>1, <2>1
  <2>5. Candidate(walk, e) /\ Linked(walk, Says[e]) /\ Valid(walk, Says[e])
    BY <1>6 DEF Installs, Verifies
  <2>6. CASE Len(vs) = 0
    <3>1. Unresolved(walk)
      BY <1>1, <2>6 DEF Unresolved
    <3>2. v.id = Anchor.genesis
      BY <2>2, <2>5, <3>1 DEF Candidate
    <3>3. \A j \in DOMAIN us : j = 1 /\ us[j] = v
      BY <2>4, <2>6
    <3> QED BY <2>3, <3>2, <3>3 DEF VersionsChained
  <2>7. CASE Len(vs) # 0
    <3>1. ~Unresolved(walk) /\ Running(walk) = vs[Len(vs)]
      BY <1>1, <2>7 DEF Unresolved, Running
    <3>2. Says[e].pred = vs[Len(vs)].id /\ Says[e].epoch = vs[Len(vs)].epoch
      BY <2>5, <3>1 DEF Linked, Valid
    <3>3. vs[Len(vs)].epoch = vs[1].epoch
      BY <1>2, <2>4, <2>7
    <3>4. vs[Len(vs)].index < n
      BY <1>3, <2>4, <2>7
    <3>5. Follows(v, vs[Len(vs)], vs[1])
      BY <2>2, <3>2, <3>3, <3>4
    <3>6. \A j \in DOMAIN us :
            /\ us[j].index \in effective' /\ us[j].id = entries'[us[j].index + 1]
            /\ j = 1 => us[j].id = Anchor.genesis
            /\ j # 1 => Follows(us[j], us[j - 1], us[1])
      <4> SUFFICES ASSUME NEW j \in DOMAIN us
                   PROVE /\ us[j].index \in effective' /\ us[j].id = entries'[us[j].index + 1]
                         /\ j = 1 => us[j].id = Anchor.genesis
                         /\ j # 1 => Follows(us[j], us[j - 1], us[1])
        OBVIOUS
      <4>0. us[1] = vs[1]
        BY <2>4, <2>7
      <4>1. CASE j = Len(vs) + 1
        <5>1. us[j] = v /\ us[j - 1] = vs[Len(vs)] /\ j # 1
          BY <2>4, <2>7, <4>1
        <5> HIDE DEF us, vs, v, Follows
        <5> QED BY <2>3, <3>5, <4>0, <5>1
      <4>2. CASE j \in 1..Len(vs)
        <5>1. us[j] = vs[j] /\ (j # 1 => us[j - 1] = vs[j - 1])
          BY <2>4, <4>2
        <5>2. j \in DOMAIN vs
          BY <2>4, <4>2
        <5> HIDE DEF us, vs, v, Follows
        <5> QED BY <1>2, <1>4, <4>0, <5>1, <5>2
      <4> QED BY <2>4, <4>1, <4>2
    <3> QED BY <3>6 DEF VersionsChained
  <2> QED BY <2>4, <2>6, <2>7
<1> QED BY <1>5, <1>6

-----------------------------------------------------------------------------
(* A log key is dropped by a rotation *)

\* With distinct key_ids the first object of a key_id is the only one, so the set
\* of objects decides what resolves.
LEMMA SetResolves ==
  ASSUME NEW v \in Version, NEW u \in Version, NEW k, NEW size \in Nat,
         DistinctKeys(v), DistinctKeys(u), LogKeySet(v) = LogKeySet(u),
         Resolves(u, k, size)
  PROVE  Resolves(v, k, size)
<1>1. v.logKeys \in Seq(LogKeyObject) /\ u.logKeys \in Seq(LogKeyObject)
  BY DEF Version
<1>2. PICK i \in DOMAIN u.logKeys : u.logKeys[i].key = k /\ u.logKeys[i].from <= size
  BY DEF Resolves
<1>3. u.logKeys[i] \in LogKeySet(v)
  BY <1>2 DEF LogKeySet
<1>4. PICK j \in DOMAIN v.logKeys : v.logKeys[j] = u.logKeys[i]
  BY <1>3 DEF LogKeySet
<1>5. \A h \in 1..(j - 1) : h \in DOMAIN v.logKeys /\ h # j
  BY <1>1, <1>4
<1>6. \A h \in 1..(j - 1) : v.logKeys[h].key # k
  BY <1>2, <1>4, <1>5 DEF DistinctKeys
<1> QED BY <1>2, <1>4, <1>6 DEF Resolves

LEMMA BridgeStep ==
  ASSUME WalkTypeOK, NEW e \in Entries, Read(e), NEW size \in Nat, BridgesAt(size)
  PROVE  BridgesAt(size)'
<1>0. PICK n \in Nat : n = Len(entries)
  BY DEF WalkTypeOK
<1> DEFINE vs == walk.versions
           us == walk'.versions
           Bridge(ws, i, j, k, h) ==
             h \in 2..Len(ws) /\ Rotates(ws[h], ws[h - 1]) /\ Resolves(ws[h - 1], k, size)
<1>1. vs \in Seq(Version) /\ us \in Seq(Version)
  BY TypeStep DEF WalkTypeOK, WalkState
<1>2. CASE ~Installs(walk, e, n)
  <2>1. us = vs
    BY <1>0, <1>2, KeptVersions
  <2> QED BY <2>1 DEF BridgesAt, RotationsIn
<1>3. CASE Installs(walk, e, n)
  <2> DEFINE v == VersionOf(e, n)
  <2>1. us = Append(vs, v)
    BY <1>0, <1>3, InstalledVersion
  <2>2. /\ DOMAIN us = 1..Len(us)
        /\ DOMAIN vs = 1..Len(vs)
        /\ Len(us) = Len(vs) + 1
        /\ \A j \in 1..Len(vs) : us[j] = vs[j]
        /\ Len(vs) \in Nat
    BY <1>1, <2>1
  <2> SUFFICES ASSUME \A j \in DOMAIN us : DistinctKeys(us[j]),
                      NEW i \in DOMAIN us, NEW j \in DOMAIN us, NEW k \in LogKeyIds,
                      i < j, Resolves(us[i], k, size), ~Resolves(us[j], k, size)
               PROVE  \E h \in (i + 1)..j :
                        /\ h \in {x \in 2..Len(us) : Rotates(us[x], us[x - 1])}
                        /\ Resolves(us[h - 1], k, size)
    BY DEF BridgesAt, RotationsIn
  <2> HIDE DEF us, vs, v
  <2>3. \A x \in DOMAIN vs : DistinctKeys(vs[x])
    <3>1. \A x \in DOMAIN vs : x \in DOMAIN us /\ us[x] = vs[x]
      BY <2>2
    <3> QED BY <3>1
  <2>4. \A x, y \in DOMAIN vs :
          x < y /\ Resolves(vs[x], k, size) /\ ~Resolves(vs[y], k, size) =>
            \E h \in (x + 1)..y :
              /\ h \in 2..Len(vs)
              /\ Rotates(vs[h], vs[h - 1])
              /\ Resolves(vs[h - 1], k, size)
    BY <2>3 DEF BridgesAt, RotationsIn, vs
  <2>5. \A h \in 2..Len(vs) : us[h] = vs[h] /\ us[h - 1] = vs[h - 1] /\ h \in 2..Len(us)
    BY <2>2
  <2>6. \A y \in DOMAIN vs :
          i < y /\ i \in DOMAIN vs /\ ~Resolves(vs[y], k, size) =>
            \E h \in (i + 1)..y :
              /\ h \in 2..Len(us)
              /\ Rotates(us[h], us[h - 1])
              /\ Resolves(us[h - 1], k, size)
    <3> SUFFICES ASSUME NEW y \in DOMAIN vs, i < y, i \in DOMAIN vs, ~Resolves(vs[y], k, size)
                 PROVE \E h \in (i + 1)..y :
                         /\ h \in 2..Len(us)
                         /\ Rotates(us[h], us[h - 1])
                         /\ Resolves(us[h - 1], k, size)
      OBVIOUS
    <3>1. Resolves(vs[i], k, size)
      BY <2>2
    <3>2. PICK h \in (i + 1)..y : /\ h \in 2..Len(vs)
                                  /\ Rotates(vs[h], vs[h - 1])
                                  /\ Resolves(vs[h - 1], k, size)
      BY <2>4, <3>1
    <3> QED BY <2>5, <3>2
  <2>7. i \in DOMAIN vs
    BY <2>2
  <2>8. CASE j \in DOMAIN vs
    <3>1. us[j] = vs[j]
      BY <2>2, <2>8
    <3> QED BY <2>6, <2>7, <2>8, <3>1
  <2>9. CASE j = Len(us)
    <3>1. j - 1 \in DOMAIN vs /\ us[j - 1] = vs[j - 1] /\ j - 1 \in DOMAIN us
      BY <2>2, <2>7, <2>9
    <3>2. CASE Resolves(us[j - 1], k, size)
      <4>1. us[j] \in Version /\ us[j - 1] \in Version
        BY <1>1, <3>1 DEF us
      <4>2. LogKeySet(us[j]) # LogKeySet(us[j - 1])
        BY <3>1, <3>2, <4>1, SetResolves
      <4>3. Rotates(us[j], us[j - 1])
        BY <4>2 DEF Rotates
      <4>4. j \in 2..Len(us) /\ j \in (i + 1)..j
        BY <2>2, <2>7, <2>9
      <4> QED BY <3>2, <4>3, <4>4
    <3>3. CASE ~Resolves(us[j - 1], k, size)
      <4>1. i # j - 1
        BY <3>3
      <4>2. i < j - 1 /\ (i + 1)..(j - 1) \subseteq (i + 1)..j
        BY <2>2, <4>1
      <4> QED BY <2>6, <2>7, <3>1, <3>3, <4>2
    <3> QED BY <3>2, <3>3
  <2> QED BY <2>2, <2>8, <2>9
<1> QED BY <1>2, <1>3

-----------------------------------------------------------------------------
(* The theorems *)

LEMMA WalkInvInit == Init => WalkInv
<1> SUFFICES ASSUME Init PROVE WalkInv
  OBVIOUS
<1>1. entries = <<>> /\ walk.versions = <<>> /\ effective = {}
  BY DEF Init, WalkInit
<1>2. WalkTypeOK
  BY TypeInit
<1>3. EffectiveRead /\ EffectiveAuthorized /\ EarlierRevisionNeverSkipped
  BY <1>1 DEF EffectiveRead, EffectiveAuthorized, EarlierRevisionNeverSkipped
<1>4. ProducersTold /\ VersionsChained
  BY <1>1 DEF ProducersTold, VersionsChained, Unresolved
<1>5. WalkComputed
  BY WalkEmpty DEF Init, WalkComputed
<1> QED BY <1>2, <1>3, <1>4, <1>5 DEF WalkInv

LEMMA WalkInvStep == WalkInv /\ [Next]_walkVars => WalkInv'
<1> SUFFICES ASSUME WalkInv, [Next]_walkVars PROVE WalkInv'
  OBVIOUS
<1>1. CASE Next
  <2>1. PICK e \in Entries : Read(e)
    BY <1>1 DEF Next
  <2> QED BY <2>1, TypeStep, ComputedStep, EffectiveReadStep, ProducersToldStep, AuthorizedStep,
             RevisionStep, ChainStep DEF WalkInv
<1>2. CASE UNCHANGED walkVars
  <2>1. WalkComputed'
    BY <1>2 DEF walkVars, WalkInv, WalkComputed
  <2>2. WalkTypeOK' /\ EffectiveRead' /\ ProducersTold' /\ EffectiveAuthorized'
          /\ EarlierRevisionNeverSkipped' /\ VersionsChained'
    BY <1>2 DEF walkVars, WalkInv, WalkTypeOK, EffectiveRead, ProducersTold, EffectiveAuthorized,
                EarlierRevisionNeverSkipped, VersionsChained, Stated, Before, KeysInForce, GivenKeys,
                Overrides, InForceAt, ConfiguredAt, Unresolved
  <2> QED BY <2>1, <2>2 DEF WalkInv
<1> QED BY <1>1, <1>2

\* The inductive invariant of the walk (walk, try_apply_manifest, try_apply_key)
\* holds over every log: in particular its running key map is what the statements
\* that took effect say.
THEOREM WalkInvariant == Spec => []WalkInv
BY WalkInvInit, WalkInvStep, PTL DEF Spec

\* The states of the machine are those of the walk over a whole prefix (walk), so
\* what is proved of the machine holds of what witness_checkpoint computes.
THEOREM WalkIsComputed == Spec => [](walk = Walk(entries))
<1>1. WalkInv => walk = Walk(entries)
  BY DEF WalkInv, WalkComputed
<1> QED BY <1>1, WalkInvariant, PTL

\* Every statement that took effect was signed by a producer key that the earlier
\* ones put in force at its index, back to the configured genesis manifest.
THEOREM Authorized == Spec => []EffectiveAuthorized
<1>1. WalkInv => EffectiveAuthorized
  BY DEF WalkInv
<1> QED BY <1>1, WalkInvariant, PTL

\* A walk that did not abort has skipped no statement of an earlier revision by a
\* producer in force, wherever in the log it stands and whatever it says.
THEOREM RevisionNeverSkipped == Spec => []EarlierRevisionNeverSkipped
<1>1. WalkInv => EarlierRevisionNeverSkipped
  BY DEF WalkInv
<1> QED BY <1>1, WalkInvariant, PTL

\* The manifest versions a walk collects are one chain from the configured genesis.
THEOREM Chained == Spec => []VersionsChained
<1>1. WalkInv => VersionsChained
  BY DEF WalkInv
<1> QED BY <1>1, WalkInvariant, PTL

\* A log key that an earlier version accepts and a later one does not was dropped by
\* a rotation whose outgoing version still accepts it (rotates, rotations_in).
THEOREM DroppedKeysBridge == Spec => []DroppedKeyBridges
<1> DEFINE Bridges == \A size \in Nat : BridgesAt(size)
<1>1. Init => Bridges
  BY DEF Init, WalkInit, BridgesAt
<1>2. WalkInv /\ Bridges /\ [Next]_walkVars => Bridges'
  <2> SUFFICES ASSUME WalkInv, Bridges, [Next]_walkVars, NEW size \in Nat
               PROVE  BridgesAt(size)'
    OBVIOUS
  <2>1. CASE Next
    <3>1. PICK e \in Entries : Read(e)
      BY <2>1 DEF Next
    <3> QED BY <3>1, BridgeStep DEF WalkInv
  <2>2. CASE UNCHANGED walkVars
    BY <2>2 DEF walkVars, BridgesAt
  <2> QED BY <2>1, <2>2
<1>3. WalkInv /\ Bridges => DroppedKeyBridges
  BY DEF WalkInv, WalkTypeOK, DroppedKeyBridges
<1> QED BY <1>1, <1>2, <1>3, WalkInvariant, PTL DEF Spec

=============================================================================
