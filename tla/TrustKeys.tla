------------------------------- MODULE TrustKeys -------------------------------
(***************************************************************************)
(* The keys and the age of the signatures.                                 *)
(*                                                                         *)
(* The committed public keys change by pushes of people, and ci_verify.py  *)
(* reports on each push (check_keys).  The secret key lives in the         *)
(* protected environment and changes on its own.  A signing run reads the  *)
(* committed key from the checkout it was triggered with and the secret    *)
(* when it starts, asserts once that they match unless it is forced, and   *)
(* then replays on whatever tip it finds: it signs anew what is unsigned,  *)
(* signed by another key, older than RESIGN_MAX_AGE or stamped further     *)
(* ahead than RESIGN_FUTURE_SKEW by its own clock.                         *)
(*                                                                         *)
(* Ages are relative: the age of a signature is the true time since its    *)
(* stamp, negative for a stamp that lies ahead.                            *)
(***************************************************************************)
EXTENDS Integers, Sequences

CONSTANTS Manifests, Keys, NoKey,
          ResignAge,     \* RESIGN_MAX_AGE, 7 days
          FutureSkew,    \* RESIGN_FUTURE_SKEW, 48 hours
          RefuseAge,     \* the client's refusal, 90 days
          ClientSkew,    \* the client's futureSkew, 48 hours
          MaxGap,        \* time within which some run with a working clock lands
          Broken,        \* bound: errors of a runner's clock that does not work
          Records,       \* bound: rotation records people may add
          MaxAge,        \* bound: stamps this far back, or this far ahead, stay so
          MaxAttempts,   \* pushes the loop tries, 5 in the script
          MaxQueued,     \* bound: triggered runs that wait
          MaxEdits       \* bound: commits of people, new secrets, broken clocks, crashes

Roots == {"manifest", "release"}

\* keys/rotations/<...>-<file>.json and who signed it
Record == [file : Roots, root : Roots, old : Keys, new : Keys, signer : Keys]

ASSUME KeysAssumption == NoKey \notin Keys /\ Records \subseteq Record
ASSUME BoundsAssumption == MaxQueued \in Nat /\ MaxEdits \in Nat /\ MaxAge \in Nat
                           /\ MaxAttempts \in Nat \ {0}
                           /\ Broken \subseteq Int
\* "keep the cron trigger <= the client refusal" (scrape-sign-push.sh:84-89)
ASSUME SkewAssumption == FutureSkew \in Nat /\ ClientSkew \in Nat /\ FutureSkew <= ClientSkew
\* "bounded at 7 days against a 30-day client warn and a 90-day refuse" (:79-82)
ASSUME AgeAssumption == /\ ResignAge \in Nat /\ RefuseAge \in Nat /\ MaxGap \in Nat
                        /\ ResignAge + 2 * MaxGap <= RefuseAge /\ RefuseAge < MaxAge

VARIABLES
    keyfile,   \* keys/*.pub on main
    ever,      \* roots whose key file is in the history of main
    sig,       \* the signatures of the manifests on main
    secret,    \* MINISIGN_SECRET_KEY
    queue,     \* triggered runs: one concurrency group, no run cancelled
    run,       \* the signing run
    report,    \* roots ci_verify check-keys complains of, at the last push of people
    edits,     \* bound: how much of MaxEdits is used
    (* history, not part of the system *)
    since,     \* time since a run with a working clock landed
    anchor,    \* the key each key file held last
    granted    \* roots whose last change came with a record of the key before it

vars == <<keyfile, ever, sig, secret, queue, run, report, edits, since, anchor, granted>>

\* sound: verifies for the bytes beside it, with one readable stamp.
\* reliable: made by a working clock, and put there by the run that made it.
\* NoKey: there is none.
Signature == [key : Keys \cup {NoKey}, age : Int, sound : BOOLEAN, reliable : BOOLEAN]
Signed == [Manifests -> Signature]

NoSignature == [key |-> NoKey, age |-> 0, sound |-> FALSE, reliable |-> FALSE]

Trigger == [force : BOOLEAN, committed : Keys \cup {NoKey}]

Run == [phase : {"idle", "ready", "push"}, attempt : 0..MaxAttempts, force : BOOLEAN,
        stale : BOOLEAN, committed : Keys \cup {NoKey}, key : Keys \cup {NoKey}, error : Int,
        base : Signed, copy : Signed]

NoCopy == [m \in Manifests |-> NoSignature]

Idle == [phase |-> "idle", attempt |-> 0, force |-> FALSE, stale |-> FALSE, committed |-> NoKey,
         key |-> NoKey, error |-> 0, base |-> NoCopy, copy |-> NoCopy]

------------------------------------------------------------------------------
(* ci_verify.py check-keys, on a push of people from one tip to another. *)

RecordValid(rec, r, old, new) ==
    rec.signer = old /\ rec.root = r /\ rec.old = old /\ rec.new = new

\* Slip: an absent key may be seeded at any time.
Seedable_Always(r) == TRUE

Seedable(r) == r \notin ever

KeyError(r, old, new, added) ==
    /\ old # new
    /\ \/ new = NoKey
       \/ old = NoKey /\ ~Seedable(r)
       \/ old # NoKey /\ ~\E rec \in added : rec.file = r /\ RecordValid(rec, r, old, new)

------------------------------------------------------------------------------
(* What a run and what a client make of a signature. *)

\* Slip: a signature stamped ahead is merely young.
NeedsResign_AgeOnly(s, key, error) == ~s.sound \/ s.key # key \/ s.age + error > ResignAge

\* Slip: only what does not verify is signed.
NeedsResign_NoAge(s, key, error) == ~s.sound \/ s.key # key

NeedsResign(s, key, error) ==
    \/ ~s.sound \/ s.key # key
    \/ s.age + error > ResignAge
    \/ -(s.age + error) > FutureSkew

Fresh(key, error) == [key |-> key, age |-> -error, sound |-> TRUE, reliable |-> error = 0]

Accepts(key, s) == s.sound /\ s.key = key /\ s.age <= RefuseAge /\ -s.age <= ClientSkew

------------------------------------------------------------------------------
Init ==
    /\ secret \in Keys
    /\ keyfile \in {f \in [Roots -> Keys \cup {NoKey}] : f["manifest"] = secret}
    /\ ever = {r \in Roots : keyfile[r] # NoKey}
    /\ sig = [m \in Manifests |-> Fresh(secret, 0)]
    /\ queue = <<>>
    /\ run = Idle
    /\ report = {}
    /\ edits = 0 /\ since = 0
    /\ anchor = keyfile /\ granted = {}

Edit == edits < MaxEdits /\ edits' = edits + 1

Outdated == run' = [run EXCEPT !.stale = run.phase = "push"]

\* A push of people that touches the trust keys.
PushKeys(files, added) ==
    /\ Edit
    /\ files # keyfile
    /\ \A a, b \in added : a.file = b.file => a = b
    /\ keyfile' = files
    /\ ever' = ever \cup {r \in Roots : files[r] # NoKey}
    /\ report' = {r \in Roots : KeyError(r, keyfile[r], files[r], added)}
    /\ anchor' = [r \in Roots |-> IF files[r] = NoKey THEN anchor[r] ELSE files[r]]
    /\ granted' = {r \in Roots : [file |-> r, root |-> r, old |-> anchor[r], new |-> files[r],
                                  signer |-> anchor[r]] \in added}
    /\ Outdated
    /\ UNCHANGED <<sig, secret, queue, since>>

\* A push of people that edits a manifest, or restores an older one with its
\* signature.
PushManifest(m, s) ==
    /\ Edit
    /\ s # sig[m] /\ ~s.reliable
    /\ sig' = [sig EXCEPT ![m] = s]
    /\ report' = {}
    /\ Outdated
    /\ UNCHANGED <<keyfile, ever, secret, queue, since, anchor, granted>>

SetSecret(k) ==
    /\ Edit
    /\ k # secret /\ secret' = k
    /\ UNCHANGED <<keyfile, ever, sig, queue, run, report, since, anchor, granted>>

\* Bound: what is MaxAge old or ahead stays so.
Older(signed) ==
    [m \in Manifests |-> [signed[m] EXCEPT !.age = IF @ \in 1 - MaxAge .. MaxAge - 1
                                                   THEN @ + 1 ELSE @]]

Tick ==
    /\ since < MaxGap /\ since' = since + 1
    /\ sig' = Older(sig)
    /\ run' = IF run.phase = "push" THEN [run EXCEPT !.base = Older(@), !.copy = Older(@)]
                                    ELSE run
    /\ UNCHANGED <<keyfile, ever, secret, queue, report, edits, anchor, granted>>

------------------------------------------------------------------------------
(* The signing run. *)

\* By cron or by hand; the checkout will be the tip of this moment.
TriggerRun(force) ==
    /\ Len(queue) < MaxQueued
    /\ queue' = Append(queue, [force |-> force, committed |-> keyfile["manifest"]])
    /\ UNCHANGED <<keyfile, ever, sig, secret, run, report, edits, since, anchor, granted>>

\* Slip: the assertion is dropped.
MayStart_Always(t) == t.committed # NoKey

\* Without the key file not even a forced run starts.
MayStart(t) == t.committed # NoKey /\ (t.force \/ secret = t.committed)

Started(t, error) ==
    [phase |-> "ready", attempt |-> 1, force |-> t.force, stale |-> FALSE,
     committed |-> t.committed, key |-> secret, error |-> error, base |-> NoCopy, copy |-> NoCopy]

Start(error) ==
    /\ run.phase = "idle" /\ queue # <<>>
    /\ queue' = Tail(queue)
    /\ LET t == Head(queue) IN
       run' = IF MayStart(t) THEN Started(t, error) ELSE run
    /\ IF error = 0 THEN UNCHANGED edits ELSE Edit
    /\ UNCHANGED <<keyfile, ever, sig, secret, report, since, anchor, granted>>

\* Fetch the tip, let the scripts rewrite some manifests, sign what needs it.
Rebuild(rewritten) ==
    /\ run.phase = "ready"
    /\ LET due(m) == m \in rewritten \/ run.force \/ NeedsResign(sig[m], run.key, run.error)
       IN  run' = [run EXCEPT !.phase = "push", !.stale = FALSE, !.base = sig,
                              !.copy = [m \in Manifests |->
                                  IF due(m) THEN Fresh(run.key, run.error) ELSE sig[m]]]
    /\ UNCHANGED <<keyfile, ever, sig, secret, queue, report, edits, since, anchor, granted>>

Landed == IF run.error = 0 THEN since' = 0 ELSE UNCHANGED since

\* Slip: one attempt too many.
Again_OneMore == IF run.attempt > MaxAttempts THEN Idle
                 ELSE [run EXCEPT !.phase = "ready", !.attempt = @ + 1, !.base = NoCopy, !.copy = NoCopy]

Again == IF run.attempt = MaxAttempts THEN Idle
         ELSE [run EXCEPT !.phase = "ready", !.attempt = @ + 1, !.base = NoCopy, !.copy = NoCopy]

\* "No manifest changes to commit."
Nothing ==
    /\ run.phase = "push" /\ run.copy = run.base
    /\ run' = Idle
    /\ IF run.stale THEN UNCHANGED since ELSE Landed
    /\ UNCHANGED <<keyfile, ever, sig, secret, queue, report, edits, anchor, granted>>

\* The push; when its answer is lost the loop starts over.
Push ==
    /\ run.phase = "push" /\ run.copy # run.base /\ ~run.stale
    /\ sig' = run.copy
    /\ run' \in {Idle, Again}
    /\ Landed
    /\ UNCHANGED <<keyfile, ever, secret, queue, report, edits, anchor, granted>>

\* Start over, or out of attempts.
Rejected ==
    /\ run.phase = "push" /\ run.copy # run.base /\ run.stale
    /\ run' = Again
    /\ UNCHANGED <<keyfile, ever, sig, secret, queue, report, edits, since, anchor, granted>>

\* A step of the run failed, or its runner died.
Fail ==
    /\ run.phase # "idle" /\ Edit
    /\ run' = Idle
    /\ UNCHANGED <<keyfile, ever, sig, secret, queue, report, since, anchor, granted>>

RunStep == \/ \E force \in BOOLEAN : TriggerRun(force)
           \/ \E error \in Broken \cup {0} : Start(error)
           \/ \E rewritten \in SUBSET Manifests : Rebuild(rewritten)
           \/ Nothing \/ Push \/ Rejected

Restorable == [key : Keys, age : {MaxAge}, sound : {TRUE}, reliable : {FALSE}]
                  \cup {NoSignature}

People == \/ \E files \in [Roots -> Keys \cup {NoKey}], added \in SUBSET Records :
                PushKeys(files, added)
          \/ \E m \in Manifests, s \in Restorable : PushManifest(m, s)
          \/ \E k \in Keys : SetSecret(k)

Next == RunStep \/ People \/ Tick \/ Fail

\* The cron triggers runs daily, and the runner of a started run progresses.
Spec == Init /\ [][Next]_vars /\ WF_vars(RunStep)

------------------------------------------------------------------------------
TypeOK == /\ keyfile \in [Roots -> Keys \cup {NoKey}] /\ anchor \in [Roots -> Keys \cup {NoKey}]
          /\ ever \subseteq Roots /\ sig \in Signed /\ secret \in Keys
          /\ queue \in Seq(Trigger) /\ Len(queue) <= MaxQueued
          /\ run \in Run
          /\ report \subseteq Roots /\ granted \subseteq Roots
          /\ edits \in 0..MaxEdits /\ since \in 0..MaxGap

(* Clients freeze on nothing that runs maintain: as long as a run with a    *)
(* working clock lands every MaxGap, a signature that such a run put on    *)
(* main is never too old or too far ahead for the client, however its      *)
(* refresh interleaves with commits, rejected pushes and broken clocks     *)
(* (the margin between the seven and the ninety days).                     *)
NeverRefused == \A m \in Manifests :
    sig[m].sound /\ sig[m].reliable => Accepts(sig[m].key, sig[m])

PushedBy(force) == run.phase = "push" /\ run.force = force /\ sig' = run.copy /\ sig' # sig

(* The assertion is evaluated once, on the checkout the run was triggered  *)
(* with, and the signatures are made later on another tip.  Still, a run   *)
(* that is not forced leaves every manifest signed by the committed key,   *)
(* those it did not rewrite included, unless that key was changed between. *)
NormalRunVerifies ==
    [][PushedBy(FALSE) /\ run.committed = keyfile["manifest"] =>
          \A m \in Manifests : sig'[m].sound /\ sig'[m].key = keyfile["manifest"]]_vars

(* A key that replaces another, at once or after its file was deleted, is  *)
(* reported by check-keys unless the push adds a record, signed by the key *)
(* that was last installed, that names both and the trust root.            *)
InstallsAuthorized ==
    [][\A r \in Roots :
          /\ keyfile'[r] \notin {keyfile[r], NoKey}
          /\ anchor[r] \notin {keyfile'[r], NoKey}
          => r \in report' \cup granted']_vars

(* A rotation completes, and a bad signature does not stay: once the       *)
(* secret and the committed key agree for good, every manifest is soon and *)
(* for ever accepted by the clients of that key, whatever runs of the old  *)
(* key were under way or queued, and however far ahead or back a broken    *)
(* clock or a restored file has put a stamp.                               *)
Recovers ==
    <>[](secret = keyfile["manifest"]) =>
        <>[](\A m \in Manifests : Accepts(keyfile["manifest"], sig[m]))
==============================================================================
