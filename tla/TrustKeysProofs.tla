---------------------------- MODULE TrustKeysProofs ----------------------------
(***************************************************************************)
(* Theorems about TrustKeys: type correctness, the margin between renewal  *)
(* and refusal, what the one-time key assertion is worth, and which key    *)
(* changes check-keys lets pass unreported.                                *)
(***************************************************************************)
EXTENDS TrustKeys, TLAPS

(* Every signature stays within the bound b of its age. *)
Within(signed, b) ==
    \A m \in Manifests : signed[m].sound /\ signed[m].reliable => signed[m].age \in 0..b

(* What a copy that is about to be pushed is: its base is main unless main *)
(* moved, every manifest is signed by the run's key, and what a working    *)
(* clock let pass was not due.                                             *)
CopyOK ==
    run.phase = "push" =>
        /\ ~run.stale => sig = run.base
        /\ \A m \in Manifests : run.copy[m].sound /\ run.copy[m].key = run.key
        /\ Within(run.copy, ResignAge + since + (IF run.error = 0 THEN 0 ELSE MaxGap))

KeyOK == run.phase # "idle" /\ ~run.force => run.key = run.committed

AnchorOK == \A r \in Roots : /\ keyfile[r] # NoKey => anchor[r] = keyfile[r]
                             /\ r \in ever <=> anchor[r] # NoKey

AgeInv == TypeOK /\ Within(sig, ResignAge + MaxGap + since) /\ CopyOK

------------------------------------------------------------------------------
(* The operators on signatures. *)

LEMMA FreshType ==
    ASSUME NEW key \in Keys, NEW error \in Int
    PROVE  Fresh(key, error) \in Signature
BY DEF Fresh, Signature

LEMMA NoCopyType == NoCopy \in Signed
BY DEF NoCopy, Signed, NoSignature, Signature

LEMMA IdleType == Idle \in Run
BY NoCopyType, BoundsAssumption DEF Idle, Run

LEMMA OlderType ==
    ASSUME NEW s \in Signed
    PROVE  /\ Older(s) \in Signed
           /\ \A m \in Manifests : /\ Older(s)[m].sound = s[m].sound
                                   /\ Older(s)[m].reliable = s[m].reliable
                                   /\ Older(s)[m].key = s[m].key
                                   /\ Older(s)[m].age \in {s[m].age, s[m].age + 1}
<1> \A m \in Manifests : s[m] \in Signature
    BY DEF Signed
<1> QED
    BY BoundsAssumption DEF Older, Signed, Signature

LEMMA OlderWithin ==
    ASSUME NEW s \in Signed, NEW b \in Nat, Within(s, b)
    PROVE  Within(Older(s), b + 1)
<1> SUFFICES ASSUME NEW m \in Manifests, Older(s)[m].sound, Older(s)[m].reliable
             PROVE  Older(s)[m].age \in 0..(b + 1)
    BY DEF Within
<1>1. s[m].age \in 0..b
    BY OlderType DEF Within
<1> QED
    BY <1>1, OlderType

LEMMA RestorableType ==
    ASSUME NEW s \in Restorable
    PROVE  s \in Signature /\ ~s.reliable
<1>1. CASE s = NoSignature
    BY <1>1 DEF NoSignature, Signature
<1>2. CASE s \in [key : Keys, age : {MaxAge}, sound : {TRUE}, reliable : {FALSE}]
    <2>1. s = [key |-> s.key, age |-> MaxAge, sound |-> TRUE, reliable |-> FALSE]
          /\ s.key \in Keys
        BY <1>2
    <2>2. [key |-> s.key, age |-> MaxAge, sound |-> TRUE, reliable |-> FALSE] \in Signature
        BY <2>1, BoundsAssumption DEF Signature
    <2>3. ~s.reliable
        BY <1>2
    <2> QED
        BY <2>1, <2>2, <2>3
<1> QED
    BY <1>1, <1>2 DEF Restorable

LEMMA StartedType ==
    ASSUME NEW t \in Trigger, NEW error \in Int, secret \in Keys
    PROVE  Started(t, error) \in Run
<1>1. t.force \in BOOLEAN /\ t.committed \in Keys \cup {NoKey} /\ 1 \in 0..MaxAttempts
    BY BoundsAssumption DEF Trigger
<1> QED
    BY <1>1, NoCopyType DEF Run, Started

LEMMA AgainType == ASSUME run \in Run PROVE Again \in Run
<1>1. CASE run.attempt = MaxAttempts
    BY <1>1, IdleType DEF Again
<1>2. CASE run.attempt # MaxAttempts
    <2>1. run.attempt + 1 \in 0..MaxAttempts
        BY <1>2, BoundsAssumption DEF Run
    <2>2. Again = [run EXCEPT !.phase = "ready", !.attempt = run.attempt + 1,
                              !.base = NoCopy, !.copy = NoCopy]
        BY <1>2 DEF Again
    <2> QED
        BY <2>1, <2>2, NoCopyType DEF Run
<1> QED
    BY <1>1, <1>2

LEMMA AgainFacts ==
    ASSUME run \in Run
    PROVE  /\ Again.phase # "push"
           /\ Again.phase # "idle" => /\ Again.force = run.force /\ Again.key = run.key
                                      /\ Again.committed = run.committed
<1>1. CASE run.attempt = MaxAttempts
    BY <1>1 DEF Again, Idle
<1>2. CASE run.attempt # MaxAttempts
    <2>1. Again = [run EXCEPT !.phase = "ready", !.attempt = run.attempt + 1,
                              !.base = NoCopy, !.copy = NoCopy]
        BY <1>2 DEF Again
    <2> QED
        BY <2>1 DEF Run
<1> QED
    BY <1>1, <1>2

------------------------------------------------------------------------------
(* Type correctness. *)

LEMMA InitType == Init => TypeOK
<1> SUFFICES ASSUME Init PROVE TypeOK
    OBVIOUS
<1>1. sig \in Signed
    BY FreshType DEF Init, Signed
<1>2. run \in Run
    BY IdleType DEF Init
<1>3. queue \in Seq(Trigger) /\ Len(queue) = 0
    BY DEF Init
<1> QED
    BY <1>1, <1>2, <1>3, BoundsAssumption, AgeAssumption DEF Init, TypeOK

LEMMA StepType == TypeOK /\ [Next]_vars => TypeOK'
<1> SUFFICES ASSUME TypeOK, [Next]_vars PROVE TypeOK'
    OBVIOUS
<1> USE DEF TypeOK
<1>0. ASSUME Edit PROVE edits' \in 0..MaxEdits
    BY <1>0, BoundsAssumption DEF Edit
<1>1. ASSUME NEW files \in [Roots -> Keys \cup {NoKey}], NEW added \in SUBSET Records,
             PushKeys(files, added)
      PROVE  TypeOK'
    <2>1. run' \in Run
        BY <1>1 DEF PushKeys, Outdated, Run
    <2>2. anchor' \in [Roots -> Keys \cup {NoKey}]
        BY <1>1 DEF PushKeys
    <2> QED
        BY <1>0, <1>1, <2>1, <2>2 DEF PushKeys
<1>2. ASSUME NEW m \in Manifests, NEW s \in Restorable, PushManifest(m, s)
      PROVE  TypeOK'
    <2>1. s \in Signature
        BY RestorableType
    <2>2. run' \in Run
        BY <1>2 DEF PushManifest, Outdated, Run
    <2>3. sig' \in Signed
        BY <1>2, <2>1 DEF PushManifest, Signed
    <2> QED
        BY <1>0, <1>2, <2>2, <2>3 DEF PushManifest
<1>3. ASSUME NEW k \in Keys, SetSecret(k) PROVE TypeOK'
    BY <1>0, <1>3 DEF SetSecret
<1>4. CASE Tick
    <2>1. sig' \in Signed
        BY <1>4, OlderType DEF Tick
    <2>2. run' \in Run
        BY <1>4, OlderType DEF Tick, Run
    <2> QED
        BY <1>4, <2>1, <2>2, AgeAssumption DEF Tick
<1>5. ASSUME NEW force \in BOOLEAN, TriggerRun(force) PROVE TypeOK'
    <2>1. [force |-> force, committed |-> keyfile["manifest"]] \in Trigger
        BY DEF Trigger, Roots
    <2> QED
        BY <1>5, <2>1, BoundsAssumption DEF TriggerRun
<1>6. ASSUME NEW error \in Broken \cup {0}, Start(error) PROVE TypeOK'
    <2>1. Head(queue) \in Trigger /\ queue' \in Seq(Trigger) /\ Len(queue') <= MaxQueued
        BY <1>6, BoundsAssumption DEF Start
    <2>2. error \in Int
        BY BoundsAssumption
    <2>3. run' \in Run
        <3>1. CASE ~MayStart(Head(queue))
            BY <1>6, <3>1 DEF Start
        <3>2. CASE MayStart(Head(queue))
            <4>1. run' = Started(Head(queue), error)
                BY <1>6, <3>2 DEF Start
            <4> QED
                BY <4>1, <2>1, <2>2, StartedType
        <3> QED
            BY <3>1, <3>2
    <2>4. edits' \in 0..MaxEdits
        BY <1>0, <1>6 DEF Start
    <2> QED
        BY <1>6, <2>1, <2>3, <2>4 DEF Start
<1>7. ASSUME NEW rewritten \in SUBSET Manifests, Rebuild(rewritten) PROVE TypeOK'
    <2>1. run.key \in Keys \cup {NoKey} /\ run.error \in Int
        BY DEF Run
    <2>2. Fresh(run.key, run.error) \in Signature
        BY <2>1 DEF Fresh, Signature
    <2>3. run' \in Run
        BY <1>7, <2>2 DEF Rebuild, Run, Signed
    <2> QED
        BY <1>7, <2>3 DEF Rebuild
<1>8. CASE Nothing
    BY <1>8, IdleType, AgeAssumption DEF Nothing, Landed
<1>9. CASE Push
    <2>1. sig' \in Signed
        BY <1>9 DEF Push, Run
    <2> QED
        BY <1>9, <2>1, IdleType, AgainType, AgeAssumption DEF Push, Landed
<1>10. CASE Rejected
    BY <1>10, AgainType DEF Rejected
<1>11. CASE Fail
    BY <1>0, <1>11, IdleType DEF Fail
<1>12. CASE UNCHANGED vars
    BY <1>12 DEF vars
<1> QED
    BY <1>1, <1>2, <1>3, <1>4, <1>5, <1>6, <1>7, <1>8, <1>9, <1>10, <1>11, <1>12
       DEF Next, RunStep, People

(* Every variable keeps its type. *)
THEOREM TypeCorrect == Spec => []TypeOK
BY InitType, StepType, PTL DEF Spec

------------------------------------------------------------------------------
(* The age of what is served. *)

LEMMA NoteFresh ==
    ASSUME NEW key, NEW error \in Int
    PROVE  /\ Fresh(key, error).sound /\ Fresh(key, error).key = key
           /\ Fresh(key, error).reliable => error = 0 /\ Fresh(key, error).age = 0
<1>1. Fresh(key, error).sound /\ Fresh(key, error).key = key /\ Fresh(key, error).age = -error
    BY Zenon DEF Fresh
<1>2. Fresh(key, error).reliable => error = 0
    BY Zenon DEF Fresh
<1> QED
    BY <1>1, <1>2

LEMMA InitAge == Init => AgeInv
<1> SUFFICES ASSUME Init PROVE AgeInv
    OBVIOUS
<1>1. Within(sig, ResignAge + MaxGap + since)
    BY NoteFresh, AgeAssumption DEF Init, Within
<1>2. CopyOK
    BY DEF Init, CopyOK, Idle
<1> QED
    BY <1>1, <1>2, InitType DEF AgeInv

(* A wider bound holds too. *)
LEMMA Wider ==
    ASSUME NEW s, NEW b \in Nat, NEW c \in Nat, b <= c, Within(s, b)
    PROVE  Within(s, c)
<1> SUFFICES ASSUME NEW m \in Manifests, s[m].sound, s[m].reliable PROVE s[m].age \in 0..c
    BY DEF Within
<1>1. s[m].age \in 0..b
    BY DEF Within
<1> QED
    BY <1>1

LEMMA StepAge == AgeInv /\ [Next]_vars => AgeInv'
<1> SUFFICES ASSUME AgeInv, [Next]_vars PROVE AgeInv'
    OBVIOUS
<1> USE DEF AgeInv
<1>0. TypeOK'
    BY StepType
<1>a. /\ ResignAge \in Nat /\ MaxGap \in Nat /\ since \in 0..MaxGap /\ run \in Run
      /\ sig \in Signed
    BY AgeAssumption DEF TypeOK
<1> DEFINE Slack == IF run.error = 0 THEN 0 ELSE MaxGap
<1>1. ASSUME NEW files, NEW added, PushKeys(files, added) PROVE AgeInv'
    <2>1. CopyOK'
        BY <1>1, <1>a DEF PushKeys, Outdated, CopyOK, Within, Run
    <2> QED
        BY <1>0, <1>1, <2>1 DEF PushKeys, Within
<1>2. ASSUME NEW m \in Manifests, NEW s \in Restorable, PushManifest(m, s) PROVE AgeInv'
    <2>1. ~s.reliable
        BY RestorableType
    <2>2. Within(sig, ResignAge + MaxGap + since)'
        BY <1>2, <1>a, <2>1 DEF PushManifest, Within, Signed
    <2>3. CopyOK'
        BY <1>2, <1>a DEF PushManifest, Outdated, CopyOK, Within, Run
    <2> QED
        BY <1>0, <2>2, <2>3
<1>3. ASSUME NEW k, SetSecret(k) PROVE AgeInv'
    BY <1>0, <1>3 DEF SetSecret, CopyOK, Within
<1>4. CASE Tick
    <2>1. since' = since + 1
        BY <1>4 DEF Tick
    <2>2. Within(Older(sig), ResignAge + MaxGap + since + 1)
        BY <1>a, OlderWithin
    <2>3. CopyOK'
        <3> SUFFICES ASSUME run.phase = "push" PROVE CopyOK'
            BY <1>4 DEF Tick, CopyOK
        <3>1. run' = [run EXCEPT !.base = Older(run.base), !.copy = Older(run.copy)]
            BY <1>4 DEF Tick
        <3>2. run.copy \in Signed /\ Within(run.copy, ResignAge + since + Slack)
            BY <1>a DEF CopyOK, Run
        <3>3. Within(Older(run.copy), ResignAge + since + Slack + 1)
            BY <1>a, <3>2, OlderWithin
        <3>4. \A m \in Manifests : Older(run.copy)[m].sound /\ Older(run.copy)[m].key = run.key
            BY <3>2, OlderType DEF CopyOK
        <3>5. /\ run'.copy = Older(run.copy) /\ run'.base = Older(run.base)
              /\ run'.error = run.error /\ run'.key = run.key /\ run'.stale = run.stale
            BY <1>a, <3>1 DEF Run
        <3>6. ~run.stale => sig' = Older(run.base)
            BY <1>4 DEF Tick, CopyOK
        <3>7. ResignAge + since' + (IF run'.error = 0 THEN 0 ELSE MaxGap)
                = ResignAge + since + Slack + 1
            BY <1>a, <2>1, <3>5
        <3> QED
            BY <3>3, <3>4, <3>5, <3>6, <3>7 DEF CopyOK, Within
    <2>4. ResignAge + MaxGap + since' = ResignAge + MaxGap + since + 1
        BY <1>a, <2>1
    <2> QED
        BY <1>0, <1>4, <2>2, <2>3, <2>4 DEF Tick, Within
<1>5. ASSUME NEW force, TriggerRun(force) PROVE AgeInv'
    BY <1>0, <1>5 DEF TriggerRun, CopyOK, Within
<1>6. ASSUME NEW error, Start(error) PROVE AgeInv'
    BY <1>0, <1>6 DEF Start, Started, CopyOK, Within
<1>7. ASSUME NEW rewritten, Rebuild(rewritten) PROVE AgeInv'
    <2> DEFINE due(m) == m \in rewritten \/ run.force \/ NeedsResign(sig[m], run.key, run.error)
               copy == [m \in Manifests |->
                           IF due(m) THEN Fresh(run.key, run.error) ELSE sig[m]]
    <2>1. run' = [run EXCEPT !.phase = "push", !.stale = FALSE, !.base = sig, !.copy = copy]
        BY <1>7 DEF Rebuild
    <2>2. /\ run'.copy = copy /\ run'.base = sig /\ run'.error = run.error
          /\ run'.key = run.key /\ sig' = sig /\ since' = since
        BY <1>7, <1>a, <2>1 DEF Rebuild, Run
    <2>3. ASSUME NEW m \in Manifests
          PROVE  /\ copy[m].sound /\ copy[m].key = run.key
                 /\ copy[m].reliable => copy[m].age \in 0..(ResignAge + since + Slack)
        <3>0. run.error \in Int /\ sig[m] \in Signature
            BY <1>a DEF Run, Signed
        <3>1. CASE due(m)
            BY <1>a, <3>0, <3>1, NoteFresh
        <3>2. CASE ~due(m)
            <4>1. copy[m] = sig[m] /\ ~NeedsResign(sig[m], run.key, run.error)
                BY <3>2
            <4>2. sig[m].sound /\ sig[m].key = run.key /\ sig[m].age + run.error <= ResignAge
                BY <3>0, <4>1, <1>a DEF NeedsResign, Signature
            <4>3. sig[m].reliable => sig[m].age \in 0..(ResignAge + MaxGap + since)
                BY <4>2 DEF Within
            <4> QED
                BY <1>a, <3>0, <4>1, <4>2, <4>3 DEF Signature
        <3> QED
            BY <3>1, <3>2
    <2>4. CopyOK'
        BY <2>2, <2>3 DEF CopyOK, Within
    <2> QED
        BY <1>0, <2>2, <2>4 DEF Within
<1>8. CASE Nothing
    <2>1. CopyOK' /\ sig' = sig
        BY <1>8 DEF Nothing, CopyOK, Idle
    <2>2. CASE since' = since
        BY <1>0, <2>1, <2>2 DEF Within
    <2>3. CASE since' # since
        <3>1. since' = 0 /\ run.error = 0 /\ sig = run.copy
            BY <1>8, <2>3 DEF Nothing, Landed, CopyOK
        <3>2. Within(sig, ResignAge + since)
            BY <1>8, <3>1, <1>a DEF Nothing, CopyOK
        <3>3. Within(sig, ResignAge + MaxGap)
            BY <1>a, <3>2, Wider
        <3> QED
            BY <1>0, <1>a, <2>1, <3>1, <3>3 DEF Within
    <2> QED
        BY <2>2, <2>3
<1>9. CASE Push
    <2>1. CopyOK'
        BY <1>9, <1>a, AgainFacts DEF Push, CopyOK, Idle
    <2>2. Within(run.copy, ResignAge + since + Slack) /\ sig' = run.copy
        BY <1>9 DEF Push, CopyOK
    <2>3. CASE run.error = 0
        <3>1. since' = 0 /\ Within(run.copy, ResignAge + since)
            BY <1>9, <1>a, <2>2, <2>3 DEF Push, Landed
        <3>2. Within(run.copy, ResignAge + MaxGap)
            BY <1>a, <3>1, Wider
        <3> QED
            BY <1>0, <1>a, <2>1, <2>2, <3>1, <3>2 DEF Within
    <2>4. CASE run.error # 0
        <3>1. since' = since /\ Within(run.copy, ResignAge + since + MaxGap)
            BY <1>9, <2>2, <2>4 DEF Push, Landed
        <3>2. Within(run.copy, ResignAge + MaxGap + since)
            BY <1>a, <3>1, Wider
        <3> QED
            BY <1>0, <2>1, <2>2, <3>1, <3>2 DEF Within
    <2> QED
        BY <2>3, <2>4
<1>10. CASE Rejected
    BY <1>0, <1>10, <1>a, AgainFacts DEF Rejected, CopyOK, Within
<1>11. CASE Fail
    BY <1>0, <1>11 DEF Fail, CopyOK, Within, Idle
<1>12. CASE UNCHANGED vars
    BY <1>0, <1>12 DEF vars, CopyOK, Within
<1> QED
    BY <1>1, <1>2, <1>3, <1>4, <1>5, <1>6, <1>7, <1>8, <1>9, <1>10, <1>11, <1>12
       DEF Next, RunStep, People

(* For every number of manifests and every margin with                     *)
(* ResignAge + 2 * MaxGap <= RefuseAge, no signature that a run with a     *)
(* working clock put on main is refused for its stamp.                     *)
THEOREM ClientsNeverFreeze == Spec => []NeverRefused
<1>1. AgeInv => NeverRefused
    <2> SUFFICES ASSUME AgeInv, NEW m \in Manifests, sig[m].sound, sig[m].reliable
                 PROVE  Accepts(sig[m].key, sig[m])
        BY DEF NeverRefused
    <2>1. sig[m].age \in 0..(ResignAge + MaxGap + since) /\ since \in 0..MaxGap
        BY DEF AgeInv, Within, TypeOK
    <2> QED
        BY <2>1, AgeAssumption, SkewAssumption DEF Accepts
<1> QED
    BY <1>1, InitAge, StepAge, PTL DEF Spec

------------------------------------------------------------------------------
(* The key a run signs with. *)

LEMMA StepKey == TypeOK /\ KeyOK /\ [Next]_vars => KeyOK'
<1> SUFFICES ASSUME TypeOK, KeyOK, [Next]_vars PROVE KeyOK'
    OBVIOUS
<1>0. run \in Run
    BY DEF TypeOK
<1> USE DEF KeyOK
<1>1. CASE People \/ Tick \/ UNCHANGED vars
    BY <1>0, <1>1 DEF People, PushKeys, PushManifest, SetSecret, Outdated, Tick, vars, Run
<1>2. ASSUME NEW error, Start(error) PROVE KeyOK'
    BY <1>2 DEF Start, Started, MayStart
<1>3. ASSUME NEW rewritten, Rebuild(rewritten) PROVE KeyOK'
    BY <1>0, <1>3 DEF Rebuild, Run
<1>4. CASE Nothing \/ Fail
    BY <1>4 DEF Nothing, Fail, Idle
<1>6. CASE Push \/ Rejected
    <2>1. run' \in {Idle, Again} /\ run.phase # "idle"
        BY <1>6 DEF Push, Rejected
    <2> QED
        BY <1>0, <2>1, AgainFacts DEF Idle
<1>5. ASSUME NEW force, TriggerRun(force) PROVE KeyOK'
    BY <1>5 DEF TriggerRun
<1> QED
    BY <1>1, <1>2, <1>3, <1>4, <1>5, <1>6 DEF Next, RunStep

(* Every push of a run that was not forced leaves all manifests signed by  *)
(* the committed key, unless that key changed since the run was triggered. *)
THEOREM AssertionSuffices == Spec => NormalRunVerifies
<1>1. Init => KeyOK
    BY DEF Init, KeyOK, Idle
<1>2. AgeInv /\ KeyOK /\ [Next]_vars =>
        [PushedBy(FALSE) /\ run.committed = keyfile["manifest"] =>
            \A m \in Manifests : sig'[m].sound /\ sig'[m].key = keyfile["manifest"]]_vars
    BY DEF AgeInv, KeyOK, CopyOK, PushedBy
<1>3. AgeInv /\ KeyOK /\ [Next]_vars => KeyOK'
    BY StepKey DEF AgeInv
<1> QED
    BY <1>1, <1>2, <1>3, InitAge, StepAge, PTL DEF Spec, NormalRunVerifies

------------------------------------------------------------------------------
(* The chain of committed keys. *)

LEMMA StepAnchor == TypeOK /\ AnchorOK /\ [Next]_vars => AnchorOK'
<1> SUFFICES ASSUME TypeOK, AnchorOK, [Next]_vars PROVE AnchorOK'
    OBVIOUS
<1>1. ASSUME NEW files \in [Roots -> Keys \cup {NoKey}], NEW added, PushKeys(files, added)
      PROVE  AnchorOK'
    BY <1>1 DEF PushKeys, AnchorOK
<1>2. CASE UNCHANGED <<keyfile, ever, anchor>>
    BY <1>2 DEF AnchorOK
<1> QED
    BY <1>1, <1>2 DEF Next, RunStep, People, PushManifest, SetSecret, Tick, TriggerRun, Start,
                      Rebuild, Nothing, Push, Rejected, Fail, vars

LEMMA PushAuthorized ==
    ASSUME AnchorOK, NEW files \in [Roots -> Keys \cup {NoKey}], NEW added \in SUBSET Records,
           PushKeys(files, added), NEW r \in Roots,
           keyfile'[r] \notin {keyfile[r], NoKey}, anchor[r] \notin {keyfile'[r], NoKey}
    PROVE  r \in report' \cup granted'
<1>1. keyfile' = files /\ r \in ever
    BY DEF PushKeys, AnchorOK
<1>2. SUFFICES ASSUME ~KeyError(r, keyfile[r], files[r], added) PROVE r \in granted'
    BY DEF PushKeys
<1>3. keyfile[r] # NoKey
    BY <1>1, <1>2 DEF KeyError, Seedable
<1>4. anchor[r] = keyfile[r]
    BY <1>3 DEF AnchorOK
<1>5. PICK rec \in added : rec.file = r /\ RecordValid(rec, r, keyfile[r], files[r])
    BY <1>1, <1>2, <1>3 DEF KeyError
<1>6. rec \in Record
    BY KeysAssumption
<1>7. rec = [file |-> r, root |-> r, old |-> anchor[r], new |-> files[r], signer |-> anchor[r]]
    BY <1>4, <1>5, <1>6 DEF RecordValid, Record
<1> QED
    BY <1>5, <1>7 DEF PushKeys

(* check-keys lets no change of an installed key pass that its holder did  *)
(* not sign for, not even through a deletion and a later seed.             *)
THEOREM KeyChain == Spec => InstallsAuthorized
<1>1. Init => AnchorOK
    BY DEF Init, AnchorOK
<1>2. TypeOK /\ AnchorOK /\ [Next]_vars =>
        [\A r \in Roots :
            /\ keyfile'[r] \notin {keyfile[r], NoKey}
            /\ anchor[r] \notin {keyfile'[r], NoKey}
            => r \in report' \cup granted']_vars
    <2> SUFFICES ASSUME TypeOK, AnchorOK, Next, NEW r \in Roots,
                        keyfile'[r] \notin {keyfile[r], NoKey},
                        anchor[r] \notin {keyfile'[r], NoKey}
                 PROVE  r \in report' \cup granted'
        BY DEF vars
    <2>1. PICK files \in [Roots -> Keys \cup {NoKey}], added \in SUBSET Records :
              PushKeys(files, added)
        BY DEF Next, RunStep, People, PushManifest, SetSecret, Tick, TriggerRun, Start,
               Rebuild, Nothing, Push, Rejected, Fail
    <2> QED
        BY <2>1, PushAuthorized
<1> QED
    BY <1>1, <1>2, InitType, StepType, StepAnchor, PTL DEF Spec, InstallsAuthorized
==============================================================================
