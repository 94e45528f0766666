--------------------------- MODULE AdmissionProofs ---------------------------
(***************************************************************************)
(* Theorems about admission, for every set of requests, every declaration  *)
(* of manifests and every configuration.                                   *)
(***************************************************************************)
EXTENDS Admission, SequenceTheorems, TLAPS

-----------------------------------------------------------------------------
(* Lists of checks *)

\* A check fails when its condition holds.
LEMMA CheckFails ==
  ASSUME NEW fails \in BOOLEAN, NEW error
  PROVE  Check(fails, error).fails <=> fails
  BY DEF Check

\* A checks list passes when each of its checks does.
LEMMA EveryCheckPasses ==
  ASSUME NEW checks, Passes(checks), NEW i \in DOMAIN checks
  PROVE  ~checks[i].fails
  BY DEF Passes, Failures

\* An error that is reported is the error of a check that fails.
LEMMA ReportedFails ==
  ASSUME NEW checks, NEW error \in Reported(checks)
  PROVE  /\ ~Passes(checks)
         /\ \E i \in DOMAIN checks : error = checks[i].error
  BY DEF Passes, Failures, Reported

IsList(s, n) == n \in Nat /\ s = [i \in 1..n |-> s[i]]

\* A list of n checks is a sequence, of whatever is in it.
LEMMA ListIsSeq ==
  ASSUME NEW S, NEW s, NEW n, IsList(s, n), \A i \in 1..n : s[i] \in S
  PROVE  s \in Seq(S)
  BY SeqDef DEF IsList

\* Two lists pass, one after the other, when each passes.
LEMMA ChecksConcatenate ==
  ASSUME NEW s, NEW t, NEW k, NEW n, IsList(s, k), IsList(t, n)
  PROVE  /\ Passes(s \o t) <=> Passes(s) /\ Passes(t)
         /\ \A i \in DOMAIN (s \o t) :
              (\E j \in DOMAIN s : (s \o t)[i] = s[j]) \/ (\E j \in DOMAIN t : (s \o t)[i] = t[j])
<1> DEFINE S == {s[i] : i \in 1..k} \cup {t[j] : j \in 1..n}
<1>0. s \in Seq(S) /\ t \in Seq(S)
  BY ListIsSeq
<1> HIDE DEF S
<1>1. /\ DOMAIN (s \o t) = 1..(Len(s) + Len(t))
      /\ DOMAIN s = 1..Len(s) /\ DOMAIN t = 1..Len(t)
      /\ Len(s) \in Nat /\ Len(t) \in Nat
  BY <1>0
<1>2. /\ \A i \in DOMAIN s : i \in DOMAIN (s \o t) /\ (s \o t)[i] = s[i]
      /\ \A j \in DOMAIN t : Len(s) + j \in DOMAIN (s \o t) /\ (s \o t)[Len(s) + j] = t[j]
  BY <1>0, <1>1
<1>3. \A i \in DOMAIN (s \o t) :
        \/ i \in DOMAIN s
        \/ i - Len(s) \in DOMAIN t /\ i = Len(s) + (i - Len(s))
  BY <1>1
<1>4. \A i \in DOMAIN (s \o t) :
        (\E j \in DOMAIN s : (s \o t)[i] = s[j]) \/ (\E j \in DOMAIN t : (s \o t)[i] = t[j])
  BY <1>2, <1>3
<1>5. ASSUME Passes(s \o t) PROVE Passes(s) /\ Passes(t)
  BY <1>2, <1>5, EveryCheckPasses DEF Passes, Failures
<1>6. ASSUME Passes(s), Passes(t) PROVE Passes(s \o t)
  BY <1>4, <1>6, EveryCheckPasses DEF Passes, Failures
<1> QED
  BY <1>4, <1>5, <1>6

-----------------------------------------------------------------------------
(* Authentication *)

\* What a checkpoint that verifies is signed by, and over.
LEMMA VerifiedIsSigned ==
  ASSUME NEW a, NEW n, NEW m \in Versions(a, n), NEW r, Passes(Verification(m, r))
  PROVE  /\ r.cp.sig = [by |-> r.cp.key, over |-> BlobOf(r.cp)]
         /\ r.cp.log = r.path
         /\ r.raw \subseteq {BlobOf(r.cp)}
<1> DEFINE key == KeyObject(m, r.cp.key)
           checks == Verification(m, r)
<1>0. DOMAIN checks = 1..8
  BY DEF Verification
<1>1. /\ checks[3] = Check(r.cp.log # r.path, "WrongLogId")
      /\ checks[6] = Check(\E blob \in r.raw : blob # BlobOf(r.cp), "RawBlobMismatch")
      /\ checks[8] = Check(\A o \in key : ~Signed(o.pub, r.cp), "SignatureInvalid")
  BY DEF Verification
<1>2. /\ r.cp.log = r.path
      /\ ~\E blob \in r.raw : blob # BlobOf(r.cp)
      /\ ~\A o \in key : ~Signed(o.pub, r.cp)
  <2>1. Passes(checks)
    OBVIOUS
  <2> HIDE DEF checks, key
  <2>2. ~checks[3].fails /\ ~checks[6].fails /\ ~checks[8].fails
    <3>1. 3 \in DOMAIN checks /\ 6 \in DOMAIN checks /\ 8 \in DOMAIN checks
      BY <1>0
    <3> QED
      BY <2>1, <3>1, EveryCheckPasses
  <2>3. r.cp.log = r.path
    BY <1>1, <2>2, CheckFails
  <2>4. ~\E blob \in r.raw : blob # BlobOf(r.cp)
    BY <1>1, <2>2, CheckFails
  <2>5. ~\A o \in key : ~Signed(o.pub, r.cp)
    BY <1>1, <2>2, CheckFails
  <2> QED
    BY <2>3, <2>4, <2>5
<1>3. PICK o \in key : Signed(o.pub, r.cp)
  BY <1>2
<1>4. PICK i \in DOMAIN m.keys : o = m.keys[i] /\ m.keys[i].id = r.cp.key
  BY DEF KeyObject
<1>5. o.pub = r.cp.key
  BY <1>4 DEF Versions, KeyResolves
<1> QED
  BY <1>2, <1>3, <1>5 DEF Signed

\* A rotation's material verifies under the version the rotation retires.
LEMMA AnchoredVerifies ==
  ASSUME NEW versions, NEW r, Anchored(versions, r) # {}
  PROVE  \E m \in versions : Passes(Verification(m, r))
<1>1. PICK p \in Rotations(versions) : Passes(Material(p, r))
  BY DEF Anchored
<1>2. p[1] \in versions
  BY DEF Rotations
<1>3. DOMAIN Material(p, r) = 1..3
      /\ Material(p, r)[2].fails = ~Passes(Verification(p[1], r))
  BY DEF Material, Check
<1>4. ~Material(p, r)[2].fails
  BY <1>1, <1>3, EveryCheckPasses
<1> QED
  BY <1>2, <1>3, <1>4

\* The checks of an authentication, with what they are lists of.
LEMMA CheckLists ==
  ASSUME NEW versions, NEW m, NEW r
  PROVE  /\ IsList(NamedChecks(versions, r), 2)
         /\ IsList(Verification(m, r), 8)
         /\ Passes(NamedChecks(versions, r)) <=> r.named \subseteq Anchored(versions, r)
<1>1. IsList(NamedChecks(versions, r), 2)
  BY DEF NamedChecks, IsList
<1>2. IsList(Verification(m, r), 8)
  BY DEF Verification, IsList
<1> DEFINE missing == r.named \ Anchored(versions, r)
           checks == NamedChecks(versions, r)
<1>3. /\ DOMAIN checks = 1..2
      /\ checks[2].fails <=> missing # {}
      /\ checks[1].fails => missing # {}
  <2> DEFINE undeclared == {p[2].index : p \in {q \in Rotations(versions) :
                              Reported(Material(q, r)) = {"WitnessNotInOutgoingSet"}}}
             list(U, N) == <<Check(U \ N # {}, "NotRotationMaterial"),
                             Check(U # {}, "WitnessNotInOutgoingSet")>>
  <2>1. ASSUME NEW U, NEW N
        PROVE  /\ DOMAIN list(U, N) = 1..2
               /\ list(U, N)[2].fails <=> U # {}
               /\ list(U, N)[1].fails => U # {}
    <3>1. /\ list(U, N)[1] = Check(U \ N # {}, "NotRotationMaterial")
          /\ list(U, N)[2] = Check(U # {}, "WitnessNotInOutgoingSet")
          /\ DOMAIN list(U, N) = 1..2
      OBVIOUS
    <3> HIDE DEF list
    <3> QED
      BY <3>1, CheckFails
  <2>2. checks = list(missing, undeclared)
    BY DEF NamedChecks
  <2> HIDE DEF list
  <2> QED
    BY <2>1, <2>2
<1>4. Passes(checks) <=> missing = {}
  <2>1. ASSUME Passes(checks) PROVE missing = {}
    BY <1>3, <2>1, EveryCheckPasses
  <2>2. ASSUME missing = {} PROVE Passes(checks)
    <3>1. \A i \in DOMAIN checks : i = 1 \/ i = 2
      BY <1>3
    <3> QED
      BY <1>3, <2>2, <3>1 DEF Passes, Failures
  <2> QED
    BY <2>1, <2>2
<1> QED
  BY <1>1, <1>2, <1>4

\* When a request passes authentication: a rotation that is named is one it anchors,
\* and it is in the series or anchors one, or verifies as the latest version has it.
LEMMA AuthenticationPasses ==
  ASSUME NEW versions, NEW r
  PROVE  Passes(Authentication(versions, r)) <=>
           /\ r.named \subseteq Anchored(versions, r)
           /\ \/ SeriesMember(versions, r)
              \/ Anchored(versions, r) # {}
              \/ Passes(Verification(CHOOSE m \in Active(versions) : TRUE, r))
<1> DEFINE m == CHOOSE m \in Active(versions) : TRUE
<1>1. /\ IsList(NamedChecks(versions, r), 2)
      /\ IsList(Verification(m, r), 8)
      /\ Passes(NamedChecks(versions, r)) <=> r.named \subseteq Anchored(versions, r)
  BY CheckLists
<1> HIDE DEF m
<1>2. Passes(NamedChecks(versions, r) \o Verification(m, r)) <=>
        Passes(NamedChecks(versions, r)) /\ Passes(Verification(m, r))
  BY <1>1, ChecksConcatenate
<1> QED
  BY <1>1, <1>2 DEF Authentication, m

\* A request and the same request without its name differ in the name alone.
LEMMA UnnamedSame ==
  ASSUME NEW r \in Request, NEW versions
  PROVE  /\ Unnamed(r).named = {}
         /\ Anchored(versions, Unnamed(r)) = Anchored(versions, r)
         /\ SeriesMember(versions, Unnamed(r)) = SeriesMember(versions, r)
         /\ \A m : Verification(m, Unnamed(r)) = Verification(m, r)
<1> DEFINE u == Unnamed(r)
<1>1. u.cp = r.cp /\ u.path = r.path /\ u.raw = r.raw /\ u.named = {}
  <2> DEFINE fields == {"path", "extra", "cpExtra", "typed", "cp", "raw", "have", "base64",
                        "chain", "named"}
  <2>1. DOMAIN r = fields
    BY DEF Request
  <2>2. r = [f \in fields |-> r[f]]
    BY DEF Request
  <2> QED
    BY <2>1, <2>2 DEF Unnamed
<1> HIDE DEF u
<1>2. \A m : Verification(m, u) = Verification(m, r)
  BY <1>1 DEF Verification
<1>3. \A p : Material(p, u) = Material(p, r)
  BY <1>1, <1>2 DEF Material
<1>4. Anchored(versions, u) = Anchored(versions, r)
  BY <1>3 DEF Anchored
<1>5. SeriesMember(versions, u) = SeriesMember(versions, r)
  BY <1>2 DEF SeriesMember
<1> QED
  BY <1>1, <1>2, <1>4, <1>5 DEF u

-----------------------------------------------------------------------------
(* Errors *)

SendersErrors == EntryErrors \cup GovernanceErrors \cup CheckpointErrors \cup {"Ahl", "Json"}

\* The errors a submission earns on its way are answered with 400 or 404.
LEMMA SendersStatus ==
  ASSUME NEW error \in SendersErrors
  PROVE  Status(error) \in {400, 404}
  BY DEF Status, SendersErrors, EntryErrors, GovernanceErrors, CheckpointErrors

LEMMA IntakeLong ==
  ASSUME NEW r, NEW i \in DOMAIN Intake(r)
  PROVE  i \in {1, 2, 3, 4, 5, 6, 7, 8, 9, 10}
  BY DEF Intake

\* Every check on the way has such an error.
LEMMA IntakeErrors ==
  ASSUME NEW r, NEW error \in Reported(Intake(r))
  PROVE  error \in SendersErrors
<1>1. PICK i \in DOMAIN Intake(r) : error = Intake(r)[i].error
  BY ReportedFails
<1>2. i \in {1, 2, 3, 4, 5, 6, 7, 8, 9, 10}
  BY IntakeLong
<1>3. /\ Intake(r)[1].error = "UnknownLog"
      /\ Intake(r)[2].error = "UnknownRequestMember"
      /\ Intake(r)[3].error = "UnknownCheckpointMember"
      /\ Intake(r)[4].error = "Json"
      /\ Intake(r)[5].error = "MalformedEnvelope"
      /\ Intake(r)[6].error = "MalformedEnvelope"
      /\ Intake(r)[7].error = "IncompleteEntries"
      /\ Intake(r)[8].error = "Ahl"
      /\ Intake(r)[9].error = "UnsupportedStatementVersion"
      /\ Intake(r)[10].error = "GovernanceChainUnresolvable"
  BY DEF Intake, Check
<1> QED
  BY <1>1, <1>2, <1>3 DEF SendersErrors, EntryErrors, GovernanceErrors

LEMMA VerificationErrors ==
  ASSUME NEW m, NEW r, NEW i \in DOMAIN Verification(m, r)
  PROVE  Verification(m, r)[i].error \in SendersErrors
<1> DEFINE checks == Verification(m, r)
<1>1. DOMAIN checks = 1..8
  BY DEF Verification
<1>2. /\ checks[1].error = "UnknownSigningKey"
      /\ checks[2].error = "KeyNotYetActive"
      /\ checks[3].error = "WrongLogId"
      /\ checks[4].error = "Ahl"
      /\ checks[5].error = "BadCheckpointTime"
      /\ checks[6].error = "RawBlobMismatch"
      /\ checks[7].error = "Ahl"
      /\ checks[8].error = "SignatureInvalid"
  BY DEF Verification, Check
<1>3. i \in {1, 2, 3, 4, 5, 6, 7, 8}
  BY <1>1
<1> QED
  BY <1>2, <1>3 DEF SendersErrors, CheckpointErrors

LEMMA NamedErrors ==
  ASSUME NEW versions, NEW r, NEW i \in DOMAIN NamedChecks(versions, r)
  PROVE  NamedChecks(versions, r)[i].error \in SendersErrors
<1> DEFINE checks == NamedChecks(versions, r)
<1>1. DOMAIN checks = 1..2
  BY DEF NamedChecks
<1>2. checks[1].error = "NotRotationMaterial" /\ checks[2].error = "WitnessNotInOutgoingSet"
  BY DEF NamedChecks, Check
<1>3. i \in {1, 2}
  BY <1>1
<1> QED
  BY <1>2, <1>3 DEF SendersErrors, CheckpointErrors

LEMMA AuthenticationErrors ==
  ASSUME NEW versions, NEW r, NEW error \in Reported(Authentication(versions, r))
  PROVE  error \in SendersErrors
<1> DEFINE m == CHOOSE m \in Active(versions) : TRUE
           named == NamedChecks(versions, r)
           verified == Verification(m, r)
           checks == Authentication(versions, r)
<1>1. PICK i \in DOMAIN checks : error = checks[i].error
  BY ReportedFails
<1>2. checks = named \/ checks = named \o verified
  BY DEF Authentication
<1>3. IsList(named, 2) /\ IsList(verified, 8)
  BY CheckLists
<1>4. /\ \A j \in DOMAIN named : named[j].error \in SendersErrors
      /\ \A j \in DOMAIN verified : verified[j].error \in SendersErrors
  BY NamedErrors, VerificationErrors
<1> HIDE DEF named, verified, checks, m
<1>5. \A j \in DOMAIN (named \o verified) : (named \o verified)[j].error \in SendersErrors
  BY <1>3, <1>4, ChecksConcatenate
<1> QED
  BY <1>1, <1>2, <1>4, <1>5

-----------------------------------------------------------------------------
(* The machine *)

\* One anchor per log, and nothing answered before the server runs.
OneAnchor == \A a, b \in anchors : a.log = b.log => a = b

AdmissionInv ==
  /\ OneAnchor
  /\ signer = {} => exchange = {}
  /\ \A e \in exchange : e.request \in Request
  /\ AdmissionSound
  /\ NamingNarrowsNothing

\* Of two anchors for one log a deployment keeps the last.
LEMMA AnchorsDiffer ==
  ASSUME NEW d \in DeploymentSpec
  PROVE  \A a, b \in AnchorsOf(d) : a.log = b.log => a = b
<1> SUFFICES ASSUME NEW a \in AnchorsOf(d), NEW b \in AnchorsOf(d), a.log = b.log
             PROVE  a = b
  OBVIOUS
<1>1. PICK i \in DOMAIN d.logs :
        a = d.logs[i] /\ \A k \in (i + 1)..Len(d.logs) : d.logs[k].log # d.logs[i].log
  BY DEF AnchorsOf
<1>2. PICK j \in DOMAIN d.logs :
        b = d.logs[j] /\ \A k \in (j + 1)..Len(d.logs) : d.logs[k].log # d.logs[j].log
  BY DEF AnchorsOf
<1>3. d.logs \in Seq(LogAnchorSpec)
  BY DEF DeploymentSpec
<1>4. DOMAIN d.logs = 1..Len(d.logs) /\ Len(d.logs) \in Nat
  BY <1>3
<1>5. i <= j /\ j <= i
  BY <1>1, <1>2, <1>4
<1>6. i = j
  BY <1>4, <1>5
<1> QED
  BY <1>1, <1>2, <1>6

\* What a request that is admitted is: signed by the key it names.
LEMMA AdmittedSound ==
  ASSUME OneAnchor, NEW r \in Request, Admit(r)
  PROVE  /\ r.cp.sig = [by |-> r.cp.key, over |-> BlobOf(r.cp)]
         /\ r.cp.log = r.path
         /\ Watched(r.path) # {}
         /\ r.raw \subseteq {BlobOf(r.cp)}
<1>1. PICK a \in anchors :
        /\ Authenticating(r, Versions(a, r.have))
        /\ Passes(Authentication(Versions(a, r.have), r))
  BY DEF Admit
<1> DEFINE versions == Versions(a, r.have)
<1>2. PICK b \in anchors : b.log = r.path /\ versions = Versions(b, r.have)
  BY <1>1 DEF Authenticating, Watched
<1>3. Active(versions) # {}
  <2>1. Passes(Intake(r))
    BY <1>1 DEF Authenticating
  <2>2. 10 \in DOMAIN Intake(r)
    BY DEF Intake
  <2>3. Intake(r)[10] = Check(\A c \in Watched(r.path) : Active(Versions(c, r.have)) = {},
                              "GovernanceChainUnresolvable")
    BY DEF Intake
  <2>4. ~Intake(r)[10].fails
    BY <2>1, <2>2, EveryCheckPasses
  <2>5. ~\A c \in Watched(r.path) : Active(Versions(c, r.have)) = {}
    BY <2>3, <2>4, CheckFails
  <2>6. PICK c \in anchors : c.log = r.path /\ Active(Versions(c, r.have)) # {}
    BY <2>5 DEF Watched
  <2> QED
    BY <1>2, <2>6 DEF OneAnchor
<1>4. \E m \in versions : Passes(Verification(m, r))
  <2>1. \/ SeriesMember(versions, r)
        \/ Anchored(versions, r) # {}
        \/ Passes(Verification(CHOOSE m \in Active(versions) : TRUE, r))
    BY <1>1, AuthenticationPasses
  <2>2. Active(versions) \subseteq versions
    BY DEF Active
  <2> HIDE DEF versions
  <2>3. CASE SeriesMember(versions, r)
    BY <2>2, <2>3 DEF SeriesMember
  <2>4. CASE Anchored(versions, r) # {}
    BY <2>4, AnchoredVerifies
  <2>5. CASE Passes(Verification(CHOOSE m \in Active(versions) : TRUE, r))
    BY <1>3, <2>2, <2>5
  <2> QED
    BY <2>1, <2>3, <2>4, <2>5
<1>5. PICK m \in versions : Passes(Verification(m, r))
  BY <1>4
<1>6. /\ r.cp.sig = [by |-> r.cp.key, over |-> BlobOf(r.cp)]
      /\ r.cp.log = r.path
      /\ r.raw \subseteq {BlobOf(r.cp)}
  BY <1>5, VerifiedIsSigned
<1> QED
  BY <1>2, <1>6 DEF Watched

\* A request passes authentication when it does without its name and anchors the
\* rotation it names.
LEMMA NameNarrowsNothing ==
  ASSUME NEW versions, NEW r \in Request
  PROVE  Passes(Authentication(versions, r)) <=>
           /\ Passes(Authentication(versions, Unnamed(r)))
           /\ r.named \subseteq Anchored(versions, Unnamed(r))
<1> DEFINE u == Unnamed(r)
           m == CHOOSE m \in Active(versions) : TRUE
<1>1. /\ u.named = {}
      /\ Anchored(versions, u) = Anchored(versions, r)
      /\ SeriesMember(versions, u) = SeriesMember(versions, r)
      /\ Verification(m, u) = Verification(m, r)
  BY UnnamedSame
<1>2. Passes(Authentication(versions, r)) <=>
        /\ r.named \subseteq Anchored(versions, r)
        /\ \/ SeriesMember(versions, r)
           \/ Anchored(versions, r) # {}
           \/ Passes(Verification(m, r))
  BY AuthenticationPasses
<1>3. Passes(Authentication(versions, u)) <=>
        /\ u.named \subseteq Anchored(versions, u)
        /\ \/ SeriesMember(versions, u)
           \/ Anchored(versions, u) # {}
           \/ Passes(Verification(m, u))
  BY AuthenticationPasses
<1> HIDE DEF u, m
<1>4. Passes(Authentication(versions, r)) <=>
        /\ Passes(Authentication(versions, u))
        /\ r.named \subseteq Anchored(versions, u)
  BY <1>1, <1>2, <1>3
<1> QED
  BY <1>4 DEF u

LEMMA AdmissionInitially == AdmissionInit => AdmissionInv
  BY DEF AdmissionInit, AdmissionInv, OneAnchor, AdmissionSound, AdmittedIsSigned,
         RejectionsAreSenders, NamingNarrowsNothing

LEMMA StartKeeps ==
  ASSUME AdmissionInv, NEW d \in Deployments, Start(d)
  PROVE  AdmissionInv'
<1>1. exchange' = {}
  BY DEF Start, AdmissionInv
<1>2. OneAnchor'
  <2>1. anchors' = AnchorsOf(d)
    BY DEF Start
  <2>2. d \in DeploymentSpec
    BY DeploymentsAssumption
  <2> QED
    BY <2>1, <2>2, AnchorsDiffer DEF OneAnchor
<1> QED
  BY <1>1, <1>2 DEF AdmissionInv, AdmissionSound, AdmittedIsSigned, RejectionsAreSenders,
                    NamingNarrowsNothing

\* What an answer has to satisfy, where the anchors stay what they were.
Answered(e) ==
  /\ e.request \in Request
  /\ e.admitted =>
       LET cp == e.request.cp
       IN /\ cp.sig = [by |-> cp.key, over |-> BlobOf(cp)]
          /\ cp.log = e.request.path
          /\ Watched(e.request.path) # {}
          /\ e.request.raw \subseteq {BlobOf(cp)}
  /\ ~e.admitted =>
       /\ e.status \in {400, 404}
       /\ e.error \in EntryErrors \cup GovernanceErrors \cup CheckpointErrors \cup {"Ahl", "Json"}
  /\ \A a \in anchors :
       LET r == e.request
           versions == Versions(a, r.have)
       IN a.log = r.path /\ Passes(Intake(r)) =>
            /\ e.admitted <=> /\ Passes(Authentication(versions, Unnamed(r)))
                              /\ r.named \subseteq Anchored(versions, Unnamed(r))
            /\ e.admitted => /\ e.series = SeriesMember(versions, Unnamed(r))
                             /\ e.anchors = Anchored(versions, Unnamed(r))

LEMMA AnsweredSame ==
  ASSUME AdmissionInv, signer # {} \/ exchange' = {},
         \A e \in exchange' : Answered(e), UNCHANGED <<signer, anchors>>
  PROVE  AdmissionInv'
<1>1. OneAnchor' /\ (signer' = {} => exchange' = {})
  BY DEF AdmissionInv, OneAnchor
<1>2. /\ \A x : BlobOf(x)' = BlobOf(x)
      /\ \A x : Intake(x)' = Intake(x)
      /\ \A v, x : Authentication(v, x)' = Authentication(v, x)
      /\ \A v, x : Anchored(v, x)' = Anchored(v, x)
      /\ \A v, x : SeriesMember(v, x)' = SeriesMember(v, x)
  <2>1. \A x : BlobOf(x)' = BlobOf(x)
    BY DEF BlobOf
  <2>2. \A x : Intake(x)' = Intake(x)
    BY DEF Intake, Watched
  <2>3. \A p, x : Material(p, x)' = Material(p, x)
    BY DEF Material, DeclaresWitness
  <2>4. \A v, x : Anchored(v, x)' = Anchored(v, x)
    BY <2>3 DEF Anchored
  <2>5. \A v, x : SeriesMember(v, x)' = SeriesMember(v, x)
    BY DEF SeriesMember
  <2>6. \A v, x : NamedChecks(v, x)' = NamedChecks(v, x)
    BY <2>3, <2>4 DEF NamedChecks
  <2>7. \A v, x : Authentication(v, x)' = Authentication(v, x)
    BY <2>4, <2>5, <2>6 DEF Authentication
  <2> QED
    BY <2>1, <2>2, <2>4, <2>5, <2>7
<1>3. \A e \in exchange' : e.request \in Request
  BY DEF Answered
<1>4. AdmittedIsSigned'
  BY <1>2 DEF Answered, AdmittedIsSigned, Watched
<1>5. RejectionsAreSenders'
  BY DEF Answered, RejectionsAreSenders
<1>6. NamingNarrowsNothing'
  <2> SUFFICES ASSUME NEW e \in exchange', NEW a \in anchors',
                      a.log = e.request.path, Passes(Intake(e.request)')
               PROVE  LET r == e.request
                          versions == Versions(a, r.have)
                      IN /\ e.admitted <=> /\ Passes(Authentication(versions, Unnamed(r))')
                                           /\ r.named \subseteq Anchored(versions, Unnamed(r))'
                         /\ e.admitted => /\ e.series = SeriesMember(versions, Unnamed(r))'
                                          /\ e.anchors = Anchored(versions, Unnamed(r))'
    BY DEF NamingNarrowsNothing
  <2>1. Answered(e) /\ a \in anchors /\ Passes(Intake(e.request))
    BY <1>2
  <2> DEFINE u == Unnamed(e.request)
             v == Versions(a, e.request.have)
  <2>2. /\ e.admitted <=> Passes(Authentication(v, u)) /\ e.request.named \subseteq Anchored(v, u)
        /\ e.admitted => e.series = SeriesMember(v, u) /\ e.anchors = Anchored(v, u)
    BY <2>1 DEF Answered
  <2>3. /\ Authentication(v, u)' = Authentication(v, u)
        /\ Anchored(v, u)' = Anchored(v, u)
        /\ SeriesMember(v, u)' = SeriesMember(v, u)
    BY <1>2
  <2> QED
    BY <2>2, <2>3
<1> QED
  BY <1>1, <1>3, <1>4, <1>5, <1>6 DEF AdmissionInv, AdmissionSound

LEMMA AnsweredKeeps ==
  ASSUME AdmissionInv, NEW e, Answered(e), signer # {},
         exchange' = {e}, UNCHANGED <<signer, anchors>>
  PROVE  AdmissionInv'
  BY AnsweredSame

LEMMA RejectIntakeKeeps ==
  ASSUME AdmissionInv, NEW r \in Requests, RejectIntake(r)
  PROVE  AdmissionInv'
<1>1. PICK error \in Reported(Intake(r)) : exchange' = {Rejected(r, error)}
  BY DEF RejectIntake
<1> DEFINE e == Rejected(r, error)
<1>2. e.request = r /\ ~e.admitted /\ e.error = error /\ e.status = Status(error)
  BY DEF Rejected
<1>3. r \in Request
  BY RequestsAssumption
<1>4. ~Passes(Intake(r))
  BY ReportedFails
<1>5. error \in SendersErrors
  BY IntakeErrors
<1>6. Status(error) \in {400, 404}
  BY <1>5, SendersStatus
<1>7. signer # {} /\ UNCHANGED <<signer, anchors>>
  BY DEF RejectIntake
<1> HIDE DEF e
<1>8. Answered(e)
  BY <1>2, <1>3, <1>4, <1>5, <1>6 DEF Answered, SendersErrors
<1> QED
  BY <1>1, <1>7, <1>8, AnsweredKeeps DEF e

LEMMA RejectAuthenticationKeeps ==
  ASSUME AdmissionInv, NEW r \in Requests, RejectAuthentication(r)
  PROVE  AdmissionInv'
<1>1. PICK a \in anchors :
        /\ Authenticating(r, Versions(a, r.have))
        /\ \E error \in Reported(Authentication(Versions(a, r.have), r)) :
             exchange' = {Rejected(r, error)}
  BY DEF RejectAuthentication
<1>2. PICK b \in anchors : b.log = r.path /\ Versions(a, r.have) = Versions(b, r.have)
  BY <1>1 DEF Authenticating, Watched
<1>3. PICK error \in Reported(Authentication(Versions(b, r.have), r)) :
        exchange' = {Rejected(r, error)}
  BY <1>1, <1>2
<1> DEFINE e == Rejected(r, error)
<1>4. e.request = r /\ ~e.admitted /\ e.error = error /\ e.status = Status(error)
  BY DEF Rejected
<1>5. r \in Request
  BY RequestsAssumption
<1>6. error \in SendersErrors /\ Status(error) \in {400, 404}
  BY AuthenticationErrors, SendersStatus
<1>7. signer # {} /\ UNCHANGED <<signer, anchors>>
  BY <1>1 DEF RejectAuthentication, Authenticating
<1>8. ~Passes(Authentication(Versions(b, r.have), r))
  BY ReportedFails
<1>9. ASSUME NEW c \in anchors, c.log = r.path
      PROVE  ~(/\ Passes(Authentication(Versions(c, r.have), Unnamed(r)))
               /\ r.named \subseteq Anchored(Versions(c, r.have), Unnamed(r)))
  <2>1. c = b
    BY <1>2, <1>9 DEF AdmissionInv, OneAnchor
  <2> QED
    BY <1>5, <1>8, <2>1, NameNarrowsNothing
<1> HIDE DEF e
<1>10. Answered(e)
  BY <1>4, <1>5, <1>6, <1>9 DEF Answered, SendersErrors
<1> QED
  BY <1>3, <1>7, <1>10, AnsweredKeeps DEF e

LEMMA AdmitKeeps ==
  ASSUME AdmissionInv, NEW r \in Requests, Admit(r)
  PROVE  AdmissionInv'
<1>1. PICK a \in anchors :
        /\ Authenticating(r, Versions(a, r.have))
        /\ Passes(Authentication(Versions(a, r.have), r))
        /\ exchange' = {Admitted(r, Versions(a, r.have))}
  BY DEF Admit
<1> DEFINE e == Admitted(r, Versions(a, r.have))
<1>2. PICK b \in anchors : b.log = r.path /\ Versions(a, r.have) = Versions(b, r.have)
  BY <1>1 DEF Authenticating, Watched
<1>3. /\ e.request = r /\ e.admitted
      /\ e.series = SeriesMember(Versions(b, r.have), r)
      /\ e.anchors = Anchored(Versions(b, r.have), r)
  BY <1>2 DEF Admitted
<1>4. r \in Request
  BY RequestsAssumption
<1>5. /\ r.cp.sig = [by |-> r.cp.key, over |-> BlobOf(r.cp)]
      /\ r.cp.log = r.path
      /\ Watched(r.path) # {}
      /\ r.raw \subseteq {BlobOf(r.cp)}
  BY <1>4, AdmittedSound DEF AdmissionInv
<1>6. signer # {} /\ UNCHANGED <<signer, anchors>>
  BY <1>1 DEF Admit, Authenticating
<1>7. ASSUME NEW c \in anchors, c.log = r.path
      PROVE  /\ Passes(Authentication(Versions(c, r.have), Unnamed(r)))
             /\ r.named \subseteq Anchored(Versions(c, r.have), Unnamed(r))
             /\ e.series = SeriesMember(Versions(c, r.have), Unnamed(r))
             /\ e.anchors = Anchored(Versions(c, r.have), Unnamed(r))
  <2>1. c = b
    BY <1>2, <1>7 DEF AdmissionInv, OneAnchor
  <2>2. Passes(Authentication(Versions(c, r.have), r))
    BY <1>1, <1>2, <2>1
  <2> HIDE DEF e
  <2> QED
    BY <1>3, <1>4, <2>1, <2>2, NameNarrowsNothing, UnnamedSame
<1> HIDE DEF e
<1>8. Answered(e)
  BY <1>3, <1>4, <1>5, <1>7 DEF Answered
<1> QED
  BY <1>1, <1>6, <1>8, AnsweredKeeps DEF e

LEMMA AdmissionStep == AdmissionInv /\ [AdmissionNext]_admissionVars => AdmissionInv'
<1> SUFFICES ASSUME AdmissionInv, [AdmissionNext]_admissionVars PROVE AdmissionInv'
  OBVIOUS
<1>1. CASE \E d \in Deployments : Start(d)
  BY <1>1, StartKeeps
<1>2. CASE \E r \in Requests : RejectIntake(r)
  BY <1>2, RejectIntakeKeeps
<1>3. CASE \E r \in Requests : RejectAuthentication(r)
  BY <1>3, RejectAuthenticationKeeps
<1>4. CASE \E r \in Requests : Admit(r)
  BY <1>4, AdmitKeeps
<1>5. CASE UNCHANGED admissionVars
  <2>1. CASE exchange = {}
    <3>1. exchange' = {} /\ OneAnchor'
      BY <1>5, <2>1 DEF admissionVars, AdmissionInv, OneAnchor
    <3> QED
      BY <3>1 DEF AdmissionInv, AdmissionSound, AdmittedIsSigned, RejectionsAreSenders,
                  NamingNarrowsNothing
  <2>2. CASE exchange # {}
    <3>0. signer # {}
      BY <2>2 DEF AdmissionInv
    <3>1. \A e \in exchange : Answered(e)
      BY DEF Answered, AdmissionInv, AdmissionSound, AdmittedIsSigned, RejectionsAreSenders,
             NamingNarrowsNothing
    <3> QED
      BY <1>5, <3>0, <3>1, AnsweredSame DEF admissionVars
  <2> QED
    BY <2>1, <2>2
<1> QED
  BY <1>1, <1>2, <1>3, <1>4, <1>5 DEF AdmissionNext

-----------------------------------------------------------------------------
(* The theorems *)

\* Whatever a submission carries and however the server is configured, what is let
\* through to the store is signed as it stands by the key it names, and what is not
\* is its sender's mistake.
THEOREM AdmissionIsSound == AdmissionSpec => []AdmissionSound
<1>1. AdmissionInv => AdmissionSound
  BY DEF AdmissionInv
<1> QED
  BY <1>1, AdmissionInitially, AdmissionStep, PTL DEF AdmissionSpec

\* A rotation that a submission names takes nothing away from it, for every chain of
\* manifests.
THEOREM NamesNarrowNothing == AdmissionSpec => []NamingNarrowsNothing
<1>1. AdmissionInv => NamingNarrowsNothing
  BY DEF AdmissionInv
<1> QED
  BY <1>1, AdmissionInitially, AdmissionStep, PTL DEF AdmissionSpec

=============================================================================
