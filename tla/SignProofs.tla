------------------------------ MODULE SignProofs ------------------------------
(***************************************************************************)
(* Four arguments about the signing transaction, whoever else writes       *)
(* main, and wherever a run crashes, loses the race or loses the answer of *)
(* its push.                                                               *)
(*                                                                         *)
(* It implements PublishedManifest (IInv), and it overwrites nobody        *)
(* (SInv): both rest on next_revision, on the fetch before each attempt    *)
(* and on the push being a compare-and-swap, and assume nothing of what a  *)
(* script puts in a document.  The gates hold (CInv) because of what the   *)
(* scripts do put there, and what lands in the state files is explained by *)
(* the tree it replaces (EInv).                                            *)
(***************************************************************************)
EXTENDS SignTransaction, FiniteSetTheorems, WellFoundedInduction, TLAPS

\* The documents of a tree have a revision, a body and nothing else.
Numbered(t) ==
    /\ "doc" \in DOMAIN t
    /\ \A c \in Components :
          /\ t.doc[c].revision \in Nat \ {0}
          /\ t.doc[c] = [revision |-> t.doc[c].revision, body |-> t.doc[c].body]

Advanced(from, to) == \A c \in Components : Promise!Advances(from.doc[c], to.doc[c])

Working == job.phase \notin {"idle", "fetch"}

\* A working copy only moves forward from the tree it was fetched as, and that
\* tree is the tip until somebody else commits.
WorkSound == Working => /\ Numbered(job.from) /\ Numbered(job.work)
                        /\ Advanced(job.from, job.work)
                        /\ ~job.stale => job.from = main

IInv == /\ Numbered(main)
        /\ DOMAIN job = {"phase", "attempt", "stale", "from", "work", "resigned"}
        /\ WorkSound

LEMMA IdleRests == /\ Idle.phase = "idle"
                   /\ DOMAIN Idle = {"phase", "attempt", "stale", "from", "work", "resigned"}
  BY DEF Idle

(* schema.resolve leaves the document alone or raises its revision.        *)
LEMMA ResolveAdvances ==
    ASSUME NEW d, NEW body, d.revision \in Nat \ {0},
           d = [revision |-> d.revision, body |-> d.body]
    PROVE  LET new == Resolve(d, body)
           IN  /\ new.revision \in Nat \ {0}
               /\ new = [revision |-> new.revision, body |-> new.body]
               /\ new = d \/ new.revision > d.revision
  <1>1. CASE body = d.body
    BY <1>1 DEF Resolve
  <1>2. CASE body # d.body
    BY <1>2 DEF Resolve
  <1> QED BY <1>1, <1>2

LEMMA RewriteAdvances ==
    ASSUME NEW t, NEW record, NEW ledger, NEW affected, Numbered(t)
    PROVE  /\ Numbered(Rewrite(t, record, ledger, affected))
           /\ Advanced(t, Rewrite(t, record, ledger, affected))
  <1> DEFINE new == Rewrite(t, record, ledger, affected)
             body(c) == Recompose(record, ledger)[c]
  <1>1. /\ "doc" \in DOMAIN new
        /\ \A c \in Components :
              new.doc[c] = IF c \in affected THEN Resolve(t.doc[c], body(c)) ELSE t.doc[c]
    BY DEF Numbered, Rewrite
  <1>2. ASSUME NEW c \in Components
        PROVE  /\ new.doc[c].revision \in Nat \ {0}
               /\ new.doc[c] = [revision |-> new.doc[c].revision, body |-> new.doc[c].body]
               /\ Promise!Advances(t.doc[c], new.doc[c])
    <2> HIDE DEF new, body
    <2>1. CASE c \in affected
      BY <1>1, <2>1, ResolveAdvances DEF Numbered, Promise!Advances
    <2>2. CASE c \notin affected
      BY <1>1, <2>2 DEF Numbered, Promise!Advances
    <2> QED BY <2>1, <2>2
  <1> QED BY <1>1, <1>2 DEF Numbered, Advanced

LEMMA AdvancedTransitive ==
    ASSUME NEW s, NEW t, NEW u, Numbered(s), Numbered(t), Numbered(u),
           Advanced(s, t), Advanced(t, u)
    PROVE  Advanced(s, u)
  <1> SUFFICES ASSUME NEW c \in Components PROVE Promise!Advances(s.doc[c], u.doc[c])
    BY DEF Advanced
  <1>1. /\ s.doc[c].revision \in Nat /\ t.doc[c].revision \in Nat /\ u.doc[c].revision \in Nat
    BY DEF Numbered
  <1>2. Promise!Advances(s.doc[c], t.doc[c]) /\ Promise!Advances(t.doc[c], u.doc[c])
    BY DEF Advanced
  <1> QED BY <1>1, <1>2 DEF Promise!Advances

\* Each script leaves documents that have advanced.
LEMMA ScriptsAdvance ==
    ASSUME NEW t, NEW st, NEW f, Numbered(t)
    PROVE  /\ Numbered(AfterLifecycle(t)) /\ Advanced(t, AfterLifecycle(t))
           /\ Numbered(AfterRevocations(t, st)) /\ Advanced(t, AfterRevocations(t, st))
           /\ Numbered(AfterPending(t, st)) /\ Advanced(t, AfterPending(t, st))
           /\ Numbered(AfterScrape(t, f)) /\ Advanced(t, AfterScrape(t, f))
  <1>1. /\ Numbered([t EXCEPT !.revocations = {}]) /\ Numbered([t EXCEPT !.pending = {}])
        /\ [t EXCEPT !.revocations = {}].doc = t.doc /\ [t EXCEPT !.pending = {}].doc = t.doc
    BY DEF Numbered
  <1>2. Numbered(AfterLifecycle(t)) /\ Advanced(t, AfterLifecycle(t))
    BY RewriteAdvances DEF AfterLifecycle
  <1>3. Numbered(AfterRevocations(t, st)) /\ Advanced(t, AfterRevocations(t, st))
    BY <1>1, RewriteAdvances DEF AfterRevocations, Advanced
  <1>4. Numbered(AfterPending(t, st)) /\ Advanced(t, AfterPending(t, st))
    BY <1>1, RewriteAdvances DEF AfterPending, Advanced
  <1>5. Numbered(AfterScrape(t, f)) /\ Advanced(t, AfterScrape(t, f))
    BY RewriteAdvances DEF AfterScrape
  <1> QED BY <1>2, <1>3, <1>4, <1>5

------------------------------------------------------------------------------
\* Moving a run to its next script keeps what is known of its copy.
LEMMA ProceedSound ==
    ASSUME IInv, Working, UNCHANGED main, NEW phase, phase \notin {"idle", "fetch"},
           NEW t, Numbered(t), Advanced(job.work, t), Proceed(phase, t)
    PROVE  IInv'
  <1>1. /\ job'.phase = phase /\ job'.work = t
        /\ job'.from = job.from /\ job'.stale = job.stale
        /\ DOMAIN job' = DOMAIN job
    BY DEF IInv, Proceed
  <1>2. Advanced(job.from, t)
    BY AdvancedTransitive DEF IInv, WorkSound
  <1> QED BY <1>1, <1>2 DEF IInv, WorkSound, Working, Numbered, Advanced

\* A run that is not working has no copy to account for.
LEMMA RestSound ==
    ASSUME Numbered(main'), job'.phase \in {"idle", "fetch"},
           DOMAIN job' = {"phase", "attempt", "stale", "from", "work", "resigned"}
    PROVE  IInv'
  BY DEF IInv, WorkSound, Working, Numbered

\* A commit of someone else that leaves the documents alone.
LEMMA CommitSound ==
    ASSUME IInv, NEW t, Numbered(t), Commit(t)
    PROVE  IInv'
  <1>1. CASE ~Working
    <2>1. job' = job
      BY <1>1 DEF Commit, Working
    <2> QED BY <1>1, <2>1 DEF Commit, IInv, WorkSound, Working, Numbered
  <1>2. CASE Working
    <2>1. job' = [job EXCEPT !.stale = TRUE]
      BY <1>2 DEF Commit, Working
    <2>2. /\ job'.stale = TRUE /\ job'.work = job.work /\ job'.from = job.from
          /\ DOMAIN job' = DOMAIN job
      BY <2>1 DEF IInv
    <2> QED BY <1>2, <2>2 DEF Commit, IInv, WorkSound, Working, Numbered, Advanced
  <1> QED BY <1>1, <1>2

(* Every step that changes main's documents is the Land of a push whose    *)
(* copy was taken from the tip it replaces.                                *)
LEMMA NextSound == ASSUME IInv, Next PROVE IInv' /\ [Promise!Publish]_(Promise!vars)
  <1> USE DEF IInv
  <1> DEFINE Kept == main'.doc = main.doc /\ published' = published
  <1>0. Kept => [Promise!Publish]_(Promise!vars)
    BY DEF Promise!vars
  <1>1. CASE Start
    BY <1>0, <1>1, RestSound DEF Start, UnchangedByJob
  <1>2. CASE Fetch
    <2>1. /\ job'.phase = "lifecycle" /\ job'.from = main /\ job'.work = main /\ main' = main
          /\ DOMAIN job' = {"phase", "attempt", "stale", "from", "work", "resigned"}
      BY <1>2 DEF Fetch, UnchangedByJob
    <2>2. Advanced(main, main)
      BY DEF Advanced, Promise!Advances
    <2>3. IInv'
      BY <2>1, <2>2 DEF WorkSound, Numbered, Advanced
    <2> QED BY <1>0, <1>2, <2>3 DEF Fetch, UnchangedByJob
  <1>3. ASSUME Stop, UnchangedByJob
        PROVE  IInv' /\ [Promise!Publish]_(Promise!vars)
    BY <1>0, <1>3, IdleRests, RestSound DEF Stop, UnchangedByJob, Numbered
  <1>4. ASSUME Working, UnchangedByJob, NEW phase, phase \notin {"idle", "fetch"},
               NEW t, Numbered(t), Advanced(job.work, t), Proceed(phase, t)
        PROVE  IInv' /\ [Promise!Publish]_(Promise!vars)
    BY <1>0, <1>4, ProceedSound DEF UnchangedByJob
  <1>5. CASE ApplyLifecycle
    <2>1. Working /\ Numbered(job.work)
      BY <1>5 DEF ApplyLifecycle, Working, WorkSound
    <2> QED BY <1>3, <1>4, <1>5, <2>1, ScriptsAdvance DEF ApplyLifecycle
  <1>6. CASE ApplyRevocations
    <2>1. Working /\ Numbered(job.work)
      BY <1>6 DEF ApplyRevocations, Working, WorkSound
    <2>2. PICK st : IF st.ok THEN Proceed("pending", AfterRevocations(job.work, st)) ELSE Stop
      BY <1>6 DEF ApplyRevocations
    <2> QED BY <1>3, <1>4, <1>6, <2>1, <2>2, ScriptsAdvance DEF ApplyRevocations
  <1>7. CASE ApplyPending
    <2>1. Working /\ Numbered(job.work)
      BY <1>7 DEF ApplyPending, Working, WorkSound
    <2>2. PICK st : IF st.ok THEN Proceed("scrape", AfterPending(job.work, st)) ELSE Stop
      BY <1>7 DEF ApplyPending
    <2> QED BY <1>3, <1>4, <1>7, <2>1, <2>2, ScriptsAdvance DEF ApplyPending
  <1>8. CASE Scrape
    <2>1. Working /\ Numbered(job.work)
      BY <1>8 DEF Scrape, Working, WorkSound
    <2> QED BY <1>3, <1>4, <1>8, <2>1, ScriptsAdvance DEF Scrape
  <1>9. Advanced(job.work, job.work)
    BY DEF Advanced, Promise!Advances
  <1>10. CASE Validate
    <2>1. Working /\ Numbered(job.work)
      BY <1>10 DEF Validate, Working, WorkSound
    <2> QED BY <1>3, <1>4, <1>9, <1>10, <2>1 DEF Validate
  <1>11. CASE Sign
    <2>1. Working /\ Numbered(job.work)
      BY <1>11 DEF Sign, Working, WorkSound
    <2>2. /\ job'.phase = "commit" /\ job'.from = job.from /\ job'.stale = job.stale
          /\ DOMAIN job' = DOMAIN job
          /\ job'.work.doc = job.work.doc /\ DOMAIN job'.work = DOMAIN job.work
      BY <1>11, <2>1 DEF Sign, Numbered
    <2>3. IInv'
      BY <1>11, <2>1, <2>2 DEF Sign, UnchangedByJob, WorkSound, Working, Numbered, Advanced
    <2> QED BY <1>0, <1>11, <2>3 DEF Sign, UnchangedByJob
  <1>12. CASE CommitRun
    <2>1. Working /\ Numbered(job.work)
      BY <1>12 DEF CommitRun, Working, WorkSound
    <2> QED BY <1>3, <1>4, <1>9, <1>12, <2>1 DEF CommitRun
  <1>13. ASSUME Retry
         PROVE  /\ job'.phase \in {"idle", "fetch"}
                /\ DOMAIN job' = {"phase", "attempt", "stale", "from", "work", "resigned"}
    BY <1>13, IdleRests DEF Retry
  <1>14. ASSUME job.phase = "push", ~job.stale, Land, Stop \/ Retry
         PROVE  IInv' /\ [Promise!Publish]_(Promise!vars)
    <2>1. /\ job.from = main /\ main' = job.work /\ Numbered(main') /\ Advanced(main, main')
          /\ published' = published \cup DocsOf(main')
      BY <1>14 DEF WorkSound, Working, Land
    <2>2. IInv'
      BY <1>13, <1>14, <2>1, IdleRests, RestSound DEF Stop
    <2>3. Promise!Publish
      BY <2>1 DEF Promise!Publish, Promise!Numbered, Promise!Served, DocsOf, Numbered, Advanced
    <2> QED BY <2>2, <2>3
  <1>15. CASE Push \/ PushUnconfirmed
    BY <1>14, <1>15 DEF Push, PushUnconfirmed
  <1>16. CASE PushRejected
    BY <1>0, <1>13, <1>16, RestSound DEF PushRejected, UnchangedByJob, Numbered
  <1>17. ASSUME NEW t, Numbered(t), t.doc = main.doc, Commit(t)
         PROVE  IInv' /\ [Promise!Publish]_(Promise!vars)
    BY <1>0, <1>17, CommitSound DEF Commit
  <1>18. CASE \E b \in BOOLEAN : SetRetired(b)
    BY <1>17, <1>18 DEF SetRetired, Numbered
  <1>19. CASE \E c \in Managed!Config : Reconfigure(c)
    BY <1>17, <1>19 DEF Reconfigure, Numbered
  <1>20. CASE \E r \in Managed!PendingRecord : Finalize(r)
    BY <1>17, <1>20 DEF Finalize, Numbered
  <1>21. CASE \E v \in ScrapedRevocation \cup ManagedRevocation : Revoke(v) \/ Withdraw(v)
    BY <1>17, <1>21 DEF Revoke, Withdraw, Numbered
  <1>22. CASE FeedMoves \/ \E c \in Components : Age(c)
    BY <1>0, <1>22 DEF FeedMoves, Age, WorkSound, Working, Numbered, Advanced
  <1>23. CASE Crash
    BY <1>0, <1>23, IdleRests, RestSound DEF Crash, Stop, Numbered
  <1> QED BY <1>1, <1>2, <1>5, <1>6, <1>7, <1>8, <1>10, <1>11, <1>12, <1>15, <1>16,
             <1>18, <1>19, <1>20, <1>21, <1>22, <1>23 DEF Next, RunStep, Others

LEMMA InitSound == ASSUME Init PROVE IInv /\ Promise!Init
  <1>1. PICK t \in Scraped!Tuple : main = Genesis({t})
    BY DEF Init
  <1>2. Numbered(main)
    <2> DEFINE body(c) == Recompose(Scraped!Seed({t}), Managed!Empty)[c]
    <2>1. /\ "doc" \in DOMAIN main
          /\ main.doc = [c \in Components |-> [revision |-> 1, body |-> body(c)]]
      BY <1>1 DEF Genesis
    <2> HIDE DEF body
    <2> QED BY <2>1 DEF Numbered
  <1>3. IInv
    BY <1>2, IdleRests DEF Init, IInv, WorkSound, Working
  <1>4. Promise!Init
    BY <1>2 DEF Init, Promise!Init, Promise!Numbered, Promise!Served, DocsOf, Numbered
  <1> QED BY <1>3, <1>4

------------------------------------------------------------------------------
(* The signing transaction implements PublishedManifest: a run that lost   *)
(* the race, crashed, or was told that its push failed when it had landed, *)
(* never makes main reuse a revision or go back to one.                    *)
THEOREM ImplementsPromise == Spec => KeepsPromise
  <1>1. IInv /\ [Next]_vars => IInv' /\ [Promise!Publish]_(Promise!vars)
    <2>1. CASE UNCHANGED vars
      BY <2>1 DEF vars, Promise!vars, IInv, WorkSound, Working, Numbered, Advanced
    <2> QED BY <2>1, NextSound
  <1> QED BY <1>1, InitSound, PTL DEF Spec, KeepsPromise, Promise!Spec

LEMMA AdvancesTransitive ==
    ASSUME NEW a, NEW b, NEW c,
           Promise!Numbered(a), Promise!Numbered(b), Promise!Numbered(c),
           Promise!Advances(a, b), Promise!Advances(b, c)
    PROVE  Promise!Advances(a, c)
  BY DEF Promise!Numbered, Promise!Advances

(* The client protocol of schema.py:135-154 needs no more than documents   *)
(* that advance one at a time: marks of any age stay acceptable.           *)
THEOREM ClientsServed == Promise!Spec => []Promise!NoClientLockedOut
  <1> DEFINE PInv == Promise!TypeOK /\ Promise!NoClientLockedOut
  <1>1. Promise!Init => PInv
    BY DEF Promise!Init, Promise!Served, Promise!TypeOK, Promise!NoClientLockedOut,
           Promise!Advances
  <1>2. PInv /\ [Promise!Publish]_(Promise!vars) => PInv'
    <2>1. CASE UNCHANGED Promise!vars
      BY <2>1 DEF Promise!vars, Promise!TypeOK, Promise!NoClientLockedOut
    <2>2. ASSUME PInv, Promise!Publish PROVE Promise!TypeOK'
      BY <2>2 DEF Promise!Publish, Promise!Served, Promise!TypeOK
    <2>3. ASSUME PInv, Promise!Publish, NEW m \in published'
          PROVE  Promise!Advances(m[2], main'.doc[m[1]])
      <3>1. CASE m \in published
        <4>1. /\ m[1] \in Components /\ Promise!Numbered(m[2])
              /\ Promise!Numbered(main.doc[m[1]]) /\ Promise!Advances(m[2], main.doc[m[1]])
          BY <2>3, <3>1 DEF Promise!TypeOK, Promise!NoClientLockedOut
        <4>2. /\ Promise!Numbered(main'.doc[m[1]])
              /\ Promise!Advances(main.doc[m[1]], main'.doc[m[1]])
          BY <2>3, <4>1 DEF Promise!Publish
        <4> QED BY <4>1, <4>2, AdvancesTransitive
      <3>2. CASE m \in Promise!Served'
        BY <3>2 DEF Promise!Served, Promise!Advances
      <3> QED BY <2>3, <3>1, <3>2 DEF Promise!Publish
    <2> QED BY <2>1, <2>2, <2>3 DEF Promise!NoClientLockedOut
  <1> QED BY <1>1, <1>2, PTL DEF Promise!Spec

(* So whatever document a client last accepted, and whenever it polled, it *)
(* accepts the one main serves.                                            *)
THEOREM ClientsAreServed == Spec => []Promise!NoClientLockedOut
  BY ImplementsPromise, ClientsServed, PTL DEF KeepsPromise

------------------------------------------------------------------------------
(***************************************************************************)
(* Signatures, and the commits of others.  Again nothing is assumed of     *)
(* what the scripts compute: sign_changed comes after the last of them, no *)
(* script writes the configuration, and a copy that is pushed was taken    *)
(* from the tip.                                                           *)
(***************************************************************************)
Whole(t) == {"doc", "signed", "line", "retired"} \subseteq DOMAIN t

\* The scripts leave the configuration alone.
Follows(t, u) == Whole(u) /\ u.line = t.line /\ u.retired = t.retired

Signed(t) == \A c \in Components : t.signed[c] = t.doc[c]

SInv == /\ Whole(main) /\ Signed(main)
        /\ Working => Follows(job.from, job.work)
        /\ job.phase \in {"commit", "push"} => Signed(job.work)

LEMMA RewriteFollows ==
    ASSUME NEW t, NEW u, Follows(t, u), NEW record, NEW ledger, NEW affected
    PROVE  Follows(t, Rewrite(u, record, ledger, affected))
  BY DEF Follows, Whole, Rewrite

LEMMA ScriptsFollow ==
    ASSUME NEW t, NEW u, Follows(t, u), NEW st, NEW f
    PROVE  /\ Follows(t, AfterLifecycle(u)) /\ Follows(t, AfterRevocations(u, st))
           /\ Follows(t, AfterPending(u, st)) /\ Follows(t, AfterScrape(u, f))
  <1>1. Follows(t, [u EXCEPT !.revocations = {}]) /\ Follows(t, [u EXCEPT !.pending = {}])
    BY DEF Follows, Whole
  <1>2. Follows(t, AfterLifecycle(u))
    BY RewriteFollows DEF AfterLifecycle
  <1>3. Follows(t, AfterRevocations(u, st))
    BY <1>1, RewriteFollows DEF AfterRevocations
  <1>4. Follows(t, AfterPending(u, st))
    BY <1>1, RewriteFollows DEF AfterPending
  <1>5. Follows(t, AfterScrape(u, f))
    BY RewriteFollows DEF AfterScrape
  <1> QED BY <1>2, <1>3, <1>4, <1>5

LEMMA InitSigned == Init => SInv
  <1> SUFFICES ASSUME Init PROVE SInv
    OBVIOUS
  <1>1. PICK t \in Scraped!Tuple : main = Genesis({t})
    BY DEF Init
  <1>2. Whole(main) /\ Signed(main)
    BY <1>1 DEF Genesis, Whole, Signed
  <1> QED BY <1>2, IdleRests DEF Init, SInv, Working

LEMMA StepSigned ==
    ASSUME IInv, SInv, [Next]_vars
    PROVE  SInv' /\ [TakesOnlyWhatItRead]_vars
  <1> USE DEF SInv
  <1> DEFINE Goal == SInv' /\ [TakesOnlyWhatItRead]_vars
  <1>1. ASSUME main' = main PROVE [TakesOnlyWhatItRead]_vars
    BY <1>1 DEF TakesOnlyWhatItRead, Landed
  <1>2. ASSUME main' = main, job'.phase \in {"idle", "fetch"} PROVE Goal
    BY <1>1, <1>2 DEF Working
  <1>3. ASSUME Stop, main' = main PROVE Goal
    BY <1>2, <1>3, IdleRests DEF Stop
  <1>4. ASSUME Working, main' = main, NEW phase,
               phase \notin {"idle", "fetch", "commit", "push"},
               NEW t, Follows(job.from, t), Proceed(phase, t)
        PROVE  Goal
    <2>1. job'.phase = phase /\ job'.work = t /\ job'.from = job.from
      BY <1>4 DEF IInv, Proceed
    <2> QED BY <1>1, <1>4, <2>1 DEF Working
  <1>5. CASE Start
    BY <1>2, <1>5 DEF Start, UnchangedByJob, IInv
  <1>6. CASE Fetch
    <2>1. /\ job'.phase = "lifecycle" /\ job'.from = main /\ job'.work = main /\ main' = main
      BY <1>6 DEF Fetch, UnchangedByJob
    <2> QED BY <1>1, <2>1 DEF Follows
  <1>7. CASE ApplyLifecycle
    BY <1>3, <1>4, <1>7, ScriptsFollow DEF ApplyLifecycle, UnchangedByJob, Working
  <1>8. CASE ApplyRevocations
    <2>1. PICK st : IF st.ok THEN Proceed("pending", AfterRevocations(job.work, st)) ELSE Stop
      BY <1>8 DEF ApplyRevocations
    <2> QED BY <1>3, <1>4, <1>8, <2>1, ScriptsFollow DEF ApplyRevocations, UnchangedByJob, Working
  <1>9. CASE ApplyPending
    <2>1. PICK st : IF st.ok THEN Proceed("scrape", AfterPending(job.work, st)) ELSE Stop
      BY <1>9 DEF ApplyPending
    <2> QED BY <1>3, <1>4, <1>9, <2>1, ScriptsFollow DEF ApplyPending, UnchangedByJob, Working
  <1>10. CASE Scrape
    BY <1>3, <1>4, <1>10, ScriptsFollow DEF Scrape, UnchangedByJob, Working
  <1>11. CASE Validate
    BY <1>3, <1>4, <1>11 DEF Validate, UnchangedByJob, Working
  <1>12. CASE Sign
    <2>1. Working /\ Whole(job.work)
      BY <1>12 DEF Sign, Working, Follows
    <2>2. /\ job'.phase = "commit" /\ job'.from = job.from /\ main' = main
          /\ job'.work = [job.work EXCEPT !.signed = [c \in Components |->
                            IF c \in {x \in Components : NeedsResign(job.work, x)}
                            THEN job.work.doc[c] ELSE @[c]]]
      BY <1>12 DEF Sign, UnchangedByJob, IInv
    <2>3. Follows(job.from, job'.work)
      BY <2>1, <2>2 DEF Follows, Whole
    <2>4. Signed(job'.work)
      BY <2>1, <2>2 DEF Signed, Whole, NeedsResign
    <2> QED BY <1>1, <2>2, <2>3, <2>4
  <1>13. CASE CommitRun
    <2>1. CASE Proceed("push", job.work)
      <3>1. /\ job'.phase = "push" /\ job'.work = job.work /\ job'.from = job.from /\ main' = main
        BY <1>13, <2>1 DEF IInv, Proceed, CommitRun, UnchangedByJob
      <3> QED BY <1>1, <1>13, <3>1 DEF CommitRun, Working
    <2> QED BY <1>3, <1>13, <2>1 DEF CommitRun, UnchangedByJob
  <1>14. ASSUME Retry PROVE job'.phase \in {"idle", "fetch"}
    BY <1>14, IdleRests DEF Retry, Idle
  <1>15. CASE Push \/ PushUnconfirmed
    <2>1. job.phase = "push" /\ ~job.stale /\ main' = job.work
      BY <1>15 DEF Push, PushUnconfirmed, Land
    <2>2. job'.phase \in {"idle", "fetch"}
      BY <1>14, <1>15, IdleRests DEF Push, PushUnconfirmed, Stop
    <2>3. job.from = main /\ Follows(main, main') /\ Signed(main')
      BY <2>1 DEF IInv, WorkSound, Working
    <2> QED BY <2>2, <2>3 DEF Working, Follows, TakesOnlyWhatItRead
  <1>16. CASE PushRejected
    BY <1>2, <1>14, <1>16 DEF PushRejected, UnchangedByJob
  <1>17. ASSUME NEW t, Whole(t), Signed(t), Commit(t) PROVE Goal
    <2>1. /\ job'.phase = job.phase /\ job'.work = job.work /\ job'.from = job.from
      BY <1>17 DEF Commit, IInv
    <2> QED BY <1>17, <2>1 DEF Commit, Working, TakesOnlyWhatItRead, Landed
  <1>18. CASE \E b \in BOOLEAN : SetRetired(b)
    BY <1>17, <1>18 DEF SetRetired, Whole, Signed
  <1>19. CASE \E c \in Managed!Config : Reconfigure(c)
    BY <1>17, <1>19 DEF Reconfigure, Whole, Signed
  <1>20. CASE \E r \in Managed!PendingRecord : Finalize(r)
    BY <1>17, <1>20 DEF Finalize, Whole, Signed
  <1>21. CASE \E v \in ScrapedRevocation \cup ManagedRevocation : Revoke(v) \/ Withdraw(v)
    BY <1>17, <1>21 DEF Revoke, Withdraw, Whole, Signed
  <1>22. ASSUME main' = main, job' = job PROVE Goal
    BY <1>1, <1>22 DEF Working
  <1>23. CASE FeedMoves \/ \E c \in Components : Age(c)
    BY <1>22, <1>23 DEF FeedMoves, Age
  <1>24. CASE Crash
    BY <1>3, <1>24 DEF Crash
  <1>25. CASE UNCHANGED vars
    BY <1>22, <1>25 DEF vars
  <1> QED BY <1>5, <1>6, <1>7, <1>8, <1>9, <1>10, <1>11, <1>12, <1>13, <1>15, <1>16, <1>18,
             <1>19, <1>20, <1>21, <1>23, <1>24, <1>25 DEF Next, RunStep, Others

LEMMA AlwaysSigned == Spec => [](IInv /\ SInv)
  <1>1. Init => IInv /\ SInv
    BY InitSound, InitSigned
  <1>2. IInv /\ SInv /\ [Next]_vars => (IInv /\ SInv)'
    <2>1. CASE UNCHANGED vars
      BY <2>1, StepSigned DEF vars, IInv, WorkSound, Working, Numbered, Advanced
    <2> QED BY <2>1, NextSound, StepSigned
  <1> QED BY <1>1, <1>2, PTL DEF Spec

(* No commit of a run, and none of anybody else, leaves main with a        *)
(* document beside the signature of another one.                           *)
THEOREM AlwaysServedSigned == Spec => []SignedServed
  <1>1. SInv => SignedServed
    BY DEF SInv, Signed, SignedServed
  <1> QED BY <1>1, AlwaysSigned, PTL

(* Whatever was queued, revoked or configured while a run was working is   *)
(* still there when its push has landed.                                   *)
THEOREM NothingUnreadIsTaken == Spec => OverwritesNobody
  <1>1. IInv /\ SInv /\ [Next]_vars => [TakesOnlyWhatItRead]_vars
    BY StepSigned
  <1> QED BY <1>1, AlwaysSigned, PTL DEF Spec, OverwritesNobody

------------------------------------------------------------------------------
(***************************************************************************)
(* What the scripts compute.  The gates accept every tree they are handed  *)
(* because each script leaves the documents rebuilt from the state, and    *)
(* because a record holds snapshots exactly while it is a tombstone.       *)
(***************************************************************************)
Record == Scraped!ScrapeRecord

\* A record that serves has nothing to restore, and a tombstone has something.
Settles(r) == r.status = "active" <=> r.snapshots = {}

LEMMA LeastExists ==
    ASSUME NEW B \in SUBSET Nat, B # {}
    PROVE  \E m \in B : \A k \in B : m <= k
  <1> DEFINE T == {0..n : n \in B}
  <1>1. T \subseteq FiniteSubsetsOf(Nat) /\ T # {}
    <2>1. \A n \in Nat : IsFiniteSet(0..n) /\ 0..n \subseteq Nat
      BY FS_Interval
    <2> QED BY <2>1 DEF FiniteSubsetsOf
  <1>2. IsWellFoundedOn(StrictSubsetOrdering(Nat), FiniteSubsetsOf(Nat))
    BY FS_StrictSubsetOrderingWellFounded
  <1>3. PICK x \in T : \A y \in T : ~ (<<y, x>> \in StrictSubsetOrdering(Nat))
    <2> HIDE DEF T
    <2> QED BY <1>1, <1>2, WFMin
  <1>4. PICK m \in B : x = 0..m
    OBVIOUS
  <1>5. ASSUME NEW k \in B, k < m PROVE FALSE
    <2>1. 0..k \in T /\ 0..k \subseteq 0..m /\ 0..k # 0..m
      BY <1>5
    <2>2. <<0..k, 0..m>> \in StrictSubsetOrdering(Nat)
      BY <2>1, <1>4 DEF StrictSubsetOrdering
    <2> QED BY <1>3, <1>4, <2>1, <2>2
  <1> QED BY <1>5

(* A finite set of numbers has a greatest one: the least of its bounds.    *)
LEMMA GreatestExists ==
    ASSUME NEW S \in SUBSET Nat, IsFiniteSet(S), S # {}
    PROVE  \E m \in S : \A x \in S : x <= m
  <1> DEFINE HasMax(U) == \E m \in U : \A x \in U : x <= m
             Bad == {n \in Nat : \E U \in SUBSET S : /\ U # {} /\ Cardinality(U) = n
                                                     /\ ~HasMax(U)}
  <1>1. SUFFICES ASSUME Bad # {} PROVE FALSE
    <2>1. Cardinality(S) \in Nat
      BY FS_CardinalityType
    <2> QED BY <2>1
  <1>2. PICK n \in Bad : \A k \in Bad : n <= k
    <2>1. Bad \in SUBSET Nat
      OBVIOUS
    <2> HIDE DEF Bad
    <2> QED BY <1>1, <2>1, LeastExists
  <1>3. PICK U \in SUBSET S : U # {} /\ Cardinality(U) = n /\ ~HasMax(U)
    BY <1>2
  <1>4. PICK x \in U : TRUE
    BY <1>3
  <1> DEFINE V == U \ {x}
  <1>5. IsFiniteSet(U) /\ n \in Nat
    BY <1>3, <1>2, FS_Subset
  <1>6. Cardinality(V) = n - 1 /\ Cardinality(V) \in Nat
    BY <1>3, <1>4, <1>5, FS_RemoveElement, FS_CardinalityType
  <1>7. ~HasMax(V) => V = {}
    <2>1. n - 1 \notin Bad
      <3>1. \A k \in Bad : k \in Nat
        OBVIOUS
      <3> HIDE DEF Bad
      <3> QED BY <1>2, <1>5, <1>6, <3>1
    <2>2. V \in SUBSET S
      OBVIOUS
    <2> HIDE DEF V, HasMax
    <2> QED BY <1>6, <2>1, <2>2
  <1>8. CASE V = {}
    <2>1. U = {x} /\ x \in Nat
      BY <1>4, <1>8
    <2> QED BY <1>3, <2>1
  <1>9. CASE HasMax(V)
    <2>1. PICK m \in V : \A y \in V : y <= m
      BY <1>9
    <2>2. x \in Nat /\ m \in Nat /\ \A y \in V : y \in Nat
      BY <1>4
    <2>3. CASE x <= m
      BY <1>3, <2>1, <2>3
    <2>4. CASE ~(x <= m)
      <3>1. \A y \in U : y <= x
        BY <2>1, <2>2, <2>4
      <3> QED BY <1>3, <1>4, <3>1
    <2> QED BY <2>3, <2>4
  <1> QED BY <1>7, <1>8, <1>9

(* merge.py never stores a floor that no version gave it.                  *)
LEMMA HighWaterTyped ==
    ASSUME NEW ts \in SUBSET Scraped!Tuple, IsFiniteSet(ts),
           NEW floor \in ScrapedVersions \cup {Scraped!NoFloor}
    PROVE  Scraped!HighWater(floor, ts) \in ScrapedVersions \cup {Scraped!NoFloor}
  <1> DEFINE S == Scraped!VersionsOf(ts) \cup {floor}
             f == [t \in ts |-> t.version]
  <1>1. IsFiniteSet(Scraped!VersionsOf(ts))
    <2>1. f \in Surjection(ts, Scraped!VersionsOf(ts))
      BY DEF Surjection, Scraped!VersionsOf
    <2> QED BY <2>1, FS_Surjection
  <1>2. IsFiniteSet(S)
    BY <1>1, FS_AddElement
  <1>3. S \subseteq ScrapedVersions \cup {Scraped!NoFloor}
    BY DEF Scraped!VersionsOf, Scraped!Tuple
  <1>4. S # {}
    OBVIOUS
  <1> HIDE DEF S
  <1>5. S \in SUBSET Nat
    BY <1>3, ScrapedAssumption DEF Scraped!NoFloor
  <1>6. \E m \in S : \A x \in S : x <= m
    BY <1>2, <1>4, <1>5, GreatestExists
  <1> QED BY <1>3, <1>6 DEF Scraped!HighWater, S

\* reconcile_key takes a record of the file to a record of the file.
LEMMA ReconcileKeeps ==
    ASSUME NEW r \in Record, Settles(r),
           NEW offers \in SUBSET Scraped!Tuple, IsFiniteSet(offers)
    PROVE  Scraped!Reconcile(r, offers) \in Record /\ Settles(Scraped!Reconcile(r, offers))
  <1> DEFINE admits == Scraped!Admitted(r, offers)
             tuples == Scraped!Newest(r.tuples \cup admits, Retain)
             floor  == Scraped!HighWater(r.floor, admits)
  <1>1. admits \in SUBSET Scraped!Tuple /\ IsFiniteSet(admits)
    <2>1. admits \subseteq offers
      BY DEF Scraped!Admitted
    <2> QED BY <2>1, FS_Subset
  <1>2. floor \in ScrapedVersions \cup {Scraped!NoFloor}
    <2>1. r.floor \in ScrapedVersions \cup {Scraped!NoFloor}
      BY DEF Record, Scraped!ScrapeRecord
    <2> HIDE DEF admits
    <2> QED BY <1>1, <2>1, HighWaterTyped
  <1>3. tuples \in SUBSET Scraped!Tuple
    <2>1. tuples \subseteq r.tuples \cup admits
      BY DEF Scraped!Newest
    <2>2. r.tuples \subseteq Scraped!Tuple
      BY DEF Record, Scraped!ScrapeRecord
    <2> HIDE DEF admits, tuples
    <2> QED BY <1>1, <2>1, <2>2
  <1>4. CASE admits = {}
    <2>1. Scraped!Reconcile(r, offers) = r
      BY <1>4 DEF Scraped!Reconcile
    <2> QED BY <2>1
  <1>5. CASE admits # {}
    <2>1. Scraped!Reconcile(r, offers) = [r EXCEPT !.tuples = tuples, !.floor = floor]
      BY <1>5 DEF Scraped!Reconcile
    <2> HIDE DEF tuples, floor, admits
    <2> QED BY <1>2, <1>3, <2>1 DEF Record, Scraped!ScrapeRecord, Settles
  <1> QED BY <1>4, <1>5

LEMMA SeedTyped ==
    ASSUME NEW served \in SUBSET Scraped!Tuple, IsFiniteSet(served)
    PROVE  /\ Scraped!Seed(served) \in Record /\ Settles(Scraped!Seed(served))
           /\ Scraped!Published(Scraped!Seed(served)) \subseteq Scraped!Tuple
  <1> DEFINE tuples == Scraped!Newest(served, Retain)
             floor  == Scraped!HighWater(Scraped!NoFloor, served)
  <1>1. tuples \subseteq Scraped!Tuple
    BY DEF Scraped!Newest
  <1>2. floor \in ScrapedVersions \cup {Scraped!NoFloor}
    BY HighWaterTyped
  <1>3. Scraped!Seed(served) = [status |-> "active", floor |-> floor, tuples |-> tuples,
                                revoked |-> {}, snapshots |-> {}]
    <2>1. Scraped!Seed(served) = [Scraped!EmptyRecord EXCEPT !.tuples = tuples, !.floor = floor]
      BY DEF Scraped!Seed
    <2> HIDE DEF tuples, floor
    <2> QED BY <2>1 DEF Scraped!EmptyRecord
  <1> HIDE DEF tuples, floor
  <1> QED BY <1>1, <1>2, <1>3
          DEF Record, Scraped!ScrapeRecord, Scraped!Published, Settles

\* revoke.apply_scraped changes what is served and what is revoked, nothing else.
LEMMA OverrideKeeps ==
    ASSUME NEW r \in Record, Settles(r), NEW v \in ScrapedRevocation
    PROVE  OverriddenRecord(r, v) \in Record /\ Settles(OverriddenRecord(r, v))
  <1>1. v.tuple \in Scraped!Tuple /\ [version |-> v.tuple.version, content |-> v.by] \in Scraped!Tuple
    BY DEF ScrapedRevocation, Scraped!Tuple
  <1>2. CASE v.op = "delete"
    BY <1>1, <1>2 DEF OverriddenRecord, Scraped!RevokeDelete, Record, Scraped!ScrapeRecord, Settles
  <1>3. CASE v.op = "replace"
    BY <1>1, <1>3 DEF OverriddenRecord, Scraped!RevokeReplace, Record, Scraped!ScrapeRecord, Settles
  <1>4. CASE v.op \notin {"delete", "replace"}
    BY <1>1, <1>4 DEF OverriddenRecord, Scraped!RevokeReadmit, Record, Scraped!ScrapeRecord, Settles
  <1> QED BY <1>2, <1>3, <1>4

\* A retired record is given something to restore: it had something to serve.
LEMMA SettledKeeps ==
    ASSUME NEW t, t.record \in Record, Settles(t.record),
           t.doc["scraped"].body = Scraped!Published(t.record)
    PROVE  SettledRecord(t) \in Record /\ Settles(SettledRecord(t))
  <1> DEFINE r == t.record
             snapshots == {u \in t.doc["scraped"].body : u.version \in Scraped!VersionsOf(r.tuples)}
  <1>1. CASE ~t.retired
    BY <1>1 DEF SettledRecord, Scraped!ReactivateScrape, Record, Scraped!ScrapeRecord, Settles
  <1>2. CASE t.retired /\ (r.tuples = {} \/ r.status = "tombstone")
    BY <1>2 DEF SettledRecord, Scraped!RetireScrape
  <1>3. CASE t.retired /\ r.tuples # {} /\ r.status # "tombstone"
    <2>1. r.status = "active" /\ r.tuples \subseteq Scraped!Tuple
      BY <1>3 DEF Record, Scraped!ScrapeRecord
    <2>2. snapshots = r.tuples
      BY <2>1 DEF Scraped!Published, Scraped!VersionsOf
    <2>3. SettledRecord(t) = [r EXCEPT !.status = "tombstone", !.snapshots = snapshots]
      BY <1>3, <2>1 DEF SettledRecord, Scraped!RetireScrape
    <2> HIDE DEF snapshots
    <2> QED BY <1>3, <2>1, <2>2, <2>3 DEF Record, Scraped!ScrapeRecord, Settles
  <1> QED BY <1>1, <1>2, <1>3

------------------------------------------------------------------------------
Ledger == Managed!Ledger

LEMMA LedgerIsFunction ==
    ASSUME NEW l
    PROVE  l \in Ledger <=> /\ DOMAIN l \subseteq Managed!Slots
                            /\ l = [s \in DOMAIN l |-> l[s]]
                            /\ \A s \in DOMAIN l : l[s] \in Managed!LedgerRecord
  <1>1. ASSUME l \in Ledger PROVE /\ DOMAIN l \subseteq Managed!Slots
                                  /\ l = [s \in DOMAIN l |-> l[s]]
                                  /\ \A s \in DOMAIN l : l[s] \in Managed!LedgerRecord
    <2>1. PICK S \in SUBSET Managed!Slots : l \in [S -> Managed!LedgerRecord]
      BY <1>1 DEF Ledger, Managed!Ledger
    <2> QED BY <2>1
  <1>2. ASSUME DOMAIN l \subseteq Managed!Slots, l = [s \in DOMAIN l |-> l[s]],
               \A s \in DOMAIN l : l[s] \in Managed!LedgerRecord
        PROVE  l \in Ledger
    <2>1. l \in [DOMAIN l -> Managed!LedgerRecord]
      BY <1>2
    <2> QED BY <1>2, <2>1 DEF Ledger, Managed!Ledger
  <1> QED BY <1>1, <1>2

LEMMA PutTyped ==
    ASSUME NEW l \in Ledger, NEW s \in Managed!Slots, NEW e \in Managed!LedgerRecord
    PROVE  Managed!Put(l, s, e) \in Ledger
  <1> DEFINE new == [t \in DOMAIN l \cup {s} |-> IF t = s THEN e ELSE l[t]]
  <1>1. DOMAIN l \subseteq Managed!Slots /\ \A t \in DOMAIN l : l[t] \in Managed!LedgerRecord
    BY LedgerIsFunction
  <1>2. \A t \in DOMAIN new : new[t] \in Managed!LedgerRecord
    BY <1>1
  <1>3. DOMAIN new \subseteq Managed!Slots /\ new = [t \in DOMAIN new |-> new[t]]
    BY <1>1
  <1> HIDE DEF new
  <1>4. new \in Ledger
    BY <1>2, <1>3, LedgerIsFunction
  <1> QED BY <1>4 DEF Managed!Put, new

\* A fold of records keeps the ledger a ledger.
LEMMA ApplyRecordTyped ==
    ASSUME NEW l \in Ledger, NEW r \in Managed!PendingRecord
    PROVE  Managed!ApplyRecord(l, r) \in Ledger
  <1> DEFINE e == [epoch |-> r.epoch, source |-> r.source, key |-> r.key,
                   content |-> r.content, status |-> "active", revoked |-> FALSE]
  <1>1. r.slot \in Managed!Slots /\ e \in Managed!LedgerRecord
    BY DEF Managed!PendingRecord, Managed!LedgerRecord
  <1> HIDE DEF e
  <1>2. Managed!Put(l, r.slot, e) \in Ledger
    BY <1>1, PutTyped
  <1> QED BY <1>2 DEF Managed!ApplyRecord, e

\* apply_managed replaces the entry it was reviewed against, and no other.
LEMMA OverrideTyped ==
    ASSUME NEW l \in Ledger, NEW v \in ManagedRevocation, Managed!Expects(l, v)
    PROVE  OverriddenLedger(l, v) \in Ledger
  <1> DEFINE deleted    == [l[v.slot] EXCEPT !.revoked = TRUE]
             readmitted == [l[v.slot] EXCEPT !.revoked = FALSE, !.content = v.by]
  <1>1. v.slot \in Managed!Slots /\ l[v.slot] \in Managed!LedgerRecord /\ v.by \in Contents
    BY LedgerIsFunction DEF Managed!Expects, ManagedRevocation
  <1>2. deleted \in Managed!LedgerRecord /\ readmitted \in Managed!LedgerRecord
    BY <1>1 DEF Managed!LedgerRecord
  <1> HIDE DEF deleted, readmitted
  <1>3. Managed!Put(l, v.slot, deleted) \in Ledger /\ Managed!Put(l, v.slot, readmitted) \in Ledger
    BY <1>1, <1>2, PutTyped
  <1> QED BY <1>3 DEF OverriddenLedger, Managed!Delete, Managed!Readmit, deleted, readmitted

LEMMA LifecycleTyped ==
    ASSUME NEW c \in Managed!Config, NEW l \in Ledger
    PROVE  Managed!Lifecycle(c, l) \in Ledger
  <1> DEFINE retired == [s \in DOMAIN l |-> IF Managed!Served(l[s])
                                            THEN [l[s] EXCEPT !.status = "tombstone"] ELSE l[s]]
             restamped == [s \in DOMAIN l |->
                              IF s \in Managed!Tombstones(l)
                              THEN Managed!Restamp(c, Managed!PlatformOf(s), l[s]) ELSE l[s]]
  <1>1. DOMAIN l \subseteq Managed!Slots /\ \A s \in DOMAIN l : l[s] \in Managed!LedgerRecord
    BY LedgerIsFunction
  <1>2. \A e \in Managed!LedgerRecord : [e EXCEPT !.status = "tombstone"] \in Managed!LedgerRecord
    BY DEF Managed!LedgerRecord
  <1>3. ASSUME NEW p \in Platforms, NEW e \in Managed!LedgerRecord
        PROVE  Managed!Restamp(c, p, e) \in Managed!LedgerRecord
    <2>1. c.epoch[p] \in Epochs
      BY DEF Managed!Config
    <2> QED BY <2>1 DEF Managed!Restamp, Managed!LedgerRecord
  <1>4. \A s \in Managed!Slots : Managed!PlatformOf(s) \in Platforms
    BY DEF Managed!Slots, Managed!PlatformOf
  <1>5. retired \in Ledger
    <2>1. \A s \in DOMAIN retired : retired[s] \in Managed!LedgerRecord
      BY <1>1, <1>2
    <2>2. DOMAIN retired \subseteq Managed!Slots /\ retired = [s \in DOMAIN retired |-> retired[s]]
      BY <1>1
    <2> HIDE DEF retired
    <2> QED BY <2>1, <2>2, LedgerIsFunction
  <1>6. restamped \in Ledger
    <2>1. \A s \in DOMAIN restamped : restamped[s] \in Managed!LedgerRecord
      BY <1>1, <1>3, <1>4
    <2>2. /\ DOMAIN restamped \subseteq Managed!Slots
          /\ restamped = [s \in DOMAIN restamped |-> restamped[s]]
      BY <1>1
    <2> HIDE DEF restamped
    <2> QED BY <2>1, <2>2, LedgerIsFunction
  <1> QED BY <1>5, <1>6 DEF Managed!Lifecycle, Managed!Retire, Managed!Reactivate

------------------------------------------------------------------------------
(***************************************************************************)
(* The files of a queue, one after the other: what every file keeps, the   *)
(* queue keeps, in whichever order it is read.                             *)
(***************************************************************************)
Passed(F, base, n, g) == g = [i \in 0..n |-> IF i = 0 THEN base ELSE F[i][g[i - 1]]]

LEMMA PassExists ==
    ASSUME NEW S, NEW base \in S, NEW n \in Nat, NEW F \in [1..n -> [S -> S]]
    PROVE  \E g \in [0..n -> S] : Passed(F, base, n, g)
  <1> DEFINE Found(m) == \E g \in [0..m -> S] : Passed(F, base, m, g)
             Missing == {m \in 0..n : ~Found(m)}
  <1> SUFFICES ASSUME Missing # {} PROVE FALSE
    OBVIOUS
  <1>1. PICK m \in Missing : \A k \in Missing : m <= k
    <2>1. Missing \in SUBSET Nat
      OBVIOUS
    <2> HIDE DEF Missing
    <2> QED BY <2>1, LeastExists
  <1>2. m \in 0..n /\ ~Found(m)
    BY <1>1
  <1>3. CASE m = 0
    <2> DEFINE g == [i \in 0..0 |-> base]
    <2>1. g \in [0..0 -> S] /\ g = [i \in 0..0 |-> IF i = 0 THEN base ELSE F[i][g[i - 1]]]
      OBVIOUS
    <2> QED BY <1>2, <1>3, <2>1 DEF Passed
  <1>4. CASE m # 0
    <2>1. m - 1 \in 0..n /\ m \in 1..n /\ m \in Nat
      BY <1>2, <1>4
    <2>2. Found(m - 1)
      <3>1. \A k \in Missing : k \in Nat
        OBVIOUS
      <3>2. m - 1 \notin Missing
        <4> HIDE DEF Missing
        <4> QED BY <1>1, <2>1, <3>1
      <3> QED BY <2>1, <3>2
    <2>3. PICK g \in [0..(m - 1) -> S] : Passed(F, base, m - 1, g)
      BY <2>2
    <2>4. \A i \in 0..(m - 1) : g[i] = IF i = 0 THEN base ELSE F[i][g[i - 1]]
      BY <2>3 DEF Passed
    <2> DEFINE h == [i \in 0..m |-> IF i < m THEN g[i] ELSE F[m][g[m - 1]]]
    <2>5. \A i \in 0..m : h[i] = IF i < m THEN g[i] ELSE F[m][g[m - 1]]
      OBVIOUS
    <2>6. ASSUME NEW i \in 0..m
          PROVE  h[i] \in S /\ h[i] = IF i = 0 THEN base ELSE F[i][h[i - 1]]
      <3>1. g[m - 1] \in S /\ F[m] \in [S -> S] /\ F[m][g[m - 1]] \in S
        BY <2>1, <2>3
      <3>2. CASE i < m
        <4>1. i \in 0..(m - 1) /\ (i # 0 => i - 1 \in 0..m /\ i - 1 < m)
          BY <2>1, <3>2
        <4>2. h[i] = g[i] /\ g[i] \in S /\ (i # 0 => h[i - 1] = g[i - 1])
          BY <2>3, <2>5, <3>2, <4>1
        <4> HIDE DEF h
        <4> QED BY <2>4, <4>1, <4>2
      <3>3. CASE ~(i < m)
        <4>1. i = m /\ m - 1 \in 0..m /\ m - 1 < m
          BY <2>1, <3>3
        <4>2. h[m] = F[m][g[m - 1]] /\ h[m - 1] = g[m - 1]
          BY <2>1, <2>5, <4>1
        <4> HIDE DEF h
        <4> QED BY <1>4, <3>1, <4>1, <4>2
      <3> QED BY <3>2, <3>3
    <2>7. h = [i \in 0..m |-> h[i]]
      OBVIOUS
    <2> HIDE DEF h
    <2>8. h \in [0..m -> S] /\ Passed(F, base, m, h)
      BY <2>6, <2>7 DEF Passed
    <2> QED BY <1>2, <2>8
  <1> QED BY <1>3, <1>4

LEMMA PassKeeps ==
    ASSUME NEW S, NEW n \in Nat, NEW st, st[0] \in S,
           \A i \in 1..n : st[i - 1] \in S => st[i] \in S
    PROVE  st[n] \in S
  <1> DEFINE Bad == {m \in 0..n : st[m] \notin S}
  <1> SUFFICES ASSUME Bad # {} PROVE FALSE
    OBVIOUS
  <1>1. PICK m \in Bad : \A k \in Bad : m <= k
    <2>1. Bad \in SUBSET Nat
      OBVIOUS
    <2> HIDE DEF Bad
    <2> QED BY <2>1, LeastExists
  <1>2. m \in 1..n /\ m - 1 \in 0..n /\ m \in Nat /\ st[m] \notin S
    BY <1>1
  <1>3. m - 1 \notin Bad
    <2>1. \A k \in Bad : k \in Nat
      OBVIOUS
    <2> HIDE DEF Bad
    <2> QED BY <1>1, <1>2, <2>1
  <1> QED BY <1>2, <1>3

------------------------------------------------------------------------------
Framed(t) == /\ t \in Tree /\ t.line.managed = Platforms
             /\ IsFiniteSet(t.pending) /\ IsFiniteSet(t.revocations)

\* The documents say what the state says.
Rebuilt(t) == \A c \in Components : t.doc[c].body = Recompose(t.record, t.ledger)[c]

Coherent(t) == Framed(t) /\ Settles(t.record) /\ Rebuilt(t)

LEMMA TreeTyped ==
    ASSUME NEW t \in Tree
    PROVE  /\ t.retired \in BOOLEAN /\ t.line \in Managed!Config
           /\ t.record \in Record /\ t.ledger \in Ledger
           /\ \A c \in Components : t.doc[c] \in Document /\ t.signed[c] \in Document
           /\ t.doc \in [Components -> Document] /\ t.signed \in [Components -> Document]
           /\ t.pending \subseteq Managed!PendingRecord
           /\ t.revocations \subseteq ScrapedRevocation \cup ManagedRevocation
  BY DEF Tree, Record, Ledger

LEMMA Recomposed ==
    ASSUME NEW r \in Record, NEW l \in Ledger
    PROVE  /\ Recompose(r, l)["scraped"] = Scraped!Published(r)
           /\ \A c \in Components : Recompose(r, l)[c] \in Bodies
           /\ \A q : Recompose(q, l)["managed"] = Recompose(r, l)["managed"]
           /\ \A k : Recompose(r, k)["scraped"] = Recompose(r, l)["scraped"]
  <1>1. Scraped!Published(r) \subseteq Scraped!Tuple
    BY DEF Record, Scraped!ScrapeRecord, Scraped!Published
  <1>2. Recompose(r, l)["managed"] \subseteq Asset
    <2>1. \A s \in DOMAIN l : s \in Managed!Slots /\ l[s].content \in Contents
      BY LedgerIsFunction DEF Managed!LedgerRecord
    <2>2. Recompose(r, l)["managed"] = {[slot |-> s, content |-> l[s].content] :
                                            s \in {x \in DOMAIN l : Managed!Served(l[x])}}
      BY DEF Recompose
    <2> QED BY <2>1, <2>2 DEF Asset
  <1>3. Recompose(r, l)["scraped"] = Scraped!Published(r)
    BY DEF Recompose
  <1>4. \A c \in Components : Recompose(r, l)[c] \in Bodies
    BY <1>1, <1>2, <1>3 DEF Bodies, Components
  <1>5. /\ \A q : Recompose(q, l)["managed"] = Recompose(r, l)["managed"]
        /\ \A k : Recompose(r, k)["scraped"] = Recompose(r, l)["scraped"]
    BY DEF Recompose
  <1> QED BY <1>3, <1>4, <1>5

LEMMA ResolveTyped ==
    ASSUME NEW d \in Document, NEW body \in Bodies
    PROVE  Resolve(d, body) \in Document /\ Resolve(d, body).body = body
  <1>1. d.revision \in Nat \ {0} /\ d.revision + 1 \in Nat \ {0}
    BY DEF Document
  <1> QED BY <1>1 DEF Resolve, Document

\* A script that rebuilds what it changed leaves a coherent tree.
LEMMA RewriteKeeps ==
    ASSUME NEW t, Framed(t), NEW record \in Record, Settles(record), NEW ledger \in Ledger,
           NEW affected,
           \A c \in Components \ affected : t.doc[c].body = Recompose(record, ledger)[c]
    PROVE  Coherent(Rewrite(t, record, ledger, affected))
  <1> DEFINE new == Rewrite(t, record, ledger, affected)
             doc == [c \in Components |-> IF c \in affected
                                          THEN Resolve(t.doc[c], Recompose(record, ledger)[c])
                                          ELSE t.doc[c]]
  <1>1. t \in Tree /\ \A c \in Components : t.doc[c] \in Document
    BY TreeTyped DEF Framed
  <1>2. \A c \in Components : doc[c] \in Document /\ doc[c].body = Recompose(record, ledger)[c]
    BY <1>1, Recomposed, ResolveTyped
  <1>3. doc \in [Components -> Document]
    BY <1>2
  <1>4. new = [t EXCEPT !.record = record, !.ledger = ledger, !.doc = doc]
    BY DEF Rewrite
  <1> HIDE DEF new, doc
  <1>5. new \in Tree
    BY <1>1, <1>3, <1>4 DEF Tree, Record, Ledger
  <1>6. /\ new.record = record /\ new.ledger = ledger /\ new.doc = doc
        /\ new.line = t.line /\ new.pending = t.pending /\ new.revocations = t.revocations
    BY <1>1, <1>4 DEF Tree
  <1>7. Coherent(new)
    BY <1>2, <1>5, <1>6 DEF Coherent, Framed, Rebuilt
  <1> QED BY <1>7 DEF new

LEMMA LifecycleKeeps ==
    ASSUME NEW t, Coherent(t)
    PROVE  Coherent(AfterLifecycle(t))
  <1> DEFINE record == SettledRecord(t)
             ledger == Managed!Lifecycle(t.line, t.ledger)
  <1>1. Framed(t) /\ t.record \in Record /\ t.ledger \in Ledger /\ t.line \in Managed!Config
    BY TreeTyped DEF Coherent, Framed
  <1>2. record \in Record /\ Settles(record)
    <2>1. t.doc["scraped"].body = Scraped!Published(t.record)
      BY <1>1, Recomposed DEF Coherent, Rebuilt, Components
    <2> QED BY <1>1, <2>1, SettledKeeps DEF Coherent
  <1>3. ledger \in Ledger
    BY <1>1, LifecycleTyped
  <1> HIDE DEF record, ledger
  <1>4. ASSUME NEW c \in Components \ Changed(t, record, ledger)
        PROVE  t.doc[c].body = Recompose(record, ledger)[c]
    <2>1. t.doc[c].body = Recompose(t.record, t.ledger)[c]
      BY DEF Coherent, Rebuilt
    <2>2. CASE c = "scraped"
      BY <1>1, <1>2, <1>3, <2>1, <2>2, Recomposed DEF Changed
    <2>3. CASE c = "managed"
      BY <1>1, <1>2, <1>3, <2>1, <2>3, Recomposed DEF Changed
    <2> QED BY <2>2, <2>3 DEF Components
  <1>5. Coherent(Rewrite(t, record, ledger, Changed(t, record, ledger)))
    BY <1>1, <1>2, <1>3, <1>4, RewriteKeeps
  <1> QED BY <1>5 DEF AfterLifecycle, record, ledger

LEMMA ScrapeKeeps ==
    ASSUME NEW t, Coherent(t), NEW f \in Feeds
    PROVE  Coherent(AfterScrape(t, f))
  <1> DEFINE record == Scraped!Reconcile(t.record, f.offers)
  <1>1. Framed(t) /\ t.record \in Record /\ t.ledger \in Ledger /\ Settles(t.record)
    BY TreeTyped DEF Coherent, Framed
  <1>2. f.offers \in SUBSET Scraped!Tuple /\ IsFiniteSet(f.offers)
    BY FeedsAssumption DEF Feed
  <1>3. record \in Record /\ Settles(record)
    BY <1>1, <1>2, ReconcileKeeps
  <1> HIDE DEF record
  <1>4. \A c \in Components \ {"scraped"} : t.doc[c].body = Recompose(record, t.ledger)[c]
    BY <1>1, <1>3, Recomposed DEF Coherent, Rebuilt, Components
  <1>5. Coherent(Rewrite(t, record, t.ledger, {"scraped"}))
    BY <1>1, <1>3, <1>4, RewriteKeeps
  <1> QED BY <1>5 DEF AfterScrape, record

------------------------------------------------------------------------------
State == [ok : BOOLEAN, record : Record, ledger : Ledger]

LEMMA QueueRead ==
    ASSUME NEW Q, IsFiniteSet(Q), NEW files \in SetToSeqs(Q)
    PROVE  Len(files) \in Nat /\ \A i \in 1..Len(files) : files[i] \in Q
  <1>1. Cardinality(Q) \in Nat
    BY FS_CardinalityType
  <1>2. files \in [1..Cardinality(Q) -> Q]
    BY DEF SetToSeqs
  <1> HIDE DEF SetToSeqs
  <1>3. Len(files) = Cardinality(Q)
    BY <1>1, <1>2
  <1> QED BY <1>1, <1>2, <1>3

\* What the revocations of a tree leave alone: the component none of them names.
RevokedStates(t) ==
    {s \in State : /\ Settles(s.record)
                   /\ "scraped" \notin {v.scope : v \in t.revocations} => s.record = t.record
                   /\ "managed" \notin {v.scope : v \in t.revocations} => s.ledger = t.ledger}

LEMMA OverriddenStays ==
    ASSUME NEW t, Coherent(t), NEW st \in RevokedStates(t), NEW v \in t.revocations
    PROVE  Overridden(st, v) \in RevokedStates(t)
  <1>1. /\ st \in State /\ Settles(st.record)
        /\ st.record \in Record /\ st.ledger \in Ledger
    BY DEF RevokedStates, State
  <1>2. v \in ScrapedRevocation \cup ManagedRevocation
    BY TreeTyped DEF Coherent, Framed
  <1>3. CASE ~(st.ok /\ Matches(st, v))
    <2>1. Overridden(st, v) = [st EXCEPT !.ok = FALSE]
      BY <1>3 DEF Overridden
    <2> QED BY <2>1 DEF RevokedStates, State
  <1>4. CASE st.ok /\ Matches(st, v) /\ v.scope = "scraped"
    <2> DEFINE record == OverriddenRecord(st.record, v)
    <2>1. v \in ScrapedRevocation
      BY <1>2, <1>4 DEF ManagedRevocation
    <2>2. record \in Record /\ Settles(record)
      BY <1>1, <2>1, OverrideKeeps
    <2>3. Overridden(st, v) = [st EXCEPT !.record = record]
      BY <1>4 DEF Overridden
    <2> HIDE DEF record
    <2> QED BY <1>1, <1>4, <2>2, <2>3 DEF RevokedStates, State
  <1>5. CASE st.ok /\ Matches(st, v) /\ v.scope # "scraped"
    <2> DEFINE ledger == OverriddenLedger(st.ledger, v)
    <2>1. v \in ManagedRevocation /\ v.scope = "managed"
      BY <1>2, <1>5 DEF ScrapedRevocation, ManagedRevocation
    <2>2. Managed!Expects(st.ledger, v)
      BY <1>5 DEF Matches, Managed!CanReadmit
    <2>3. ledger \in Ledger
      BY <1>1, <2>1, <2>2, OverrideTyped
    <2>4. Overridden(st, v) = [st EXCEPT !.ledger = ledger]
      BY <1>5 DEF Overridden
    <2> HIDE DEF ledger
    <2> QED BY <1>1, <2>1, <2>3, <2>4 DEF RevokedStates, State
  <1> QED BY <1>3, <1>4, <1>5

\* What every revocation keeps, all of them keep.
LEMMA RevokedStays ==
    ASSUME NEW t, Coherent(t), NEW files \in SetToSeqs(t.revocations),
           NEW S, StateOf(t) \in S,
           \A st \in S, v \in t.revocations : Overridden(st, v) \in S
    PROVE  Revoked(t, files) \in S
  <1> DEFINE n == Len(files)
             step(i, x) == Overridden(x, files[i])
             F == [i \in 1..n |-> [x \in S |-> step(i, x)]]
             st == CHOOSE g : g = [i \in 0..Len(files) |->
                                      IF i = 0 THEN StateOf(t) ELSE Overridden(g[i - 1], files[i])]
  <1>1. n \in Nat /\ \A i \in 1..n : files[i] \in t.revocations
    BY QueueRead DEF Coherent, Framed
  <1>2. \A i \in 1..n, x \in S : step(i, x) \in S
    BY <1>1
  <1>3. StateOf(t) \in S
    OBVIOUS
  <1>4. F \in [1..n -> [S -> S]]
    <2> HIDE DEF n, step
    <2> QED BY <1>2
  <1>5. \E g : g = [i \in 0..n |-> IF i = 0 THEN StateOf(t) ELSE step(i, g[i - 1])]
    <2> HIDE DEF n, F
    <2>1. PICK g \in [0..n -> S] : Passed(F, StateOf(t), n, g)
      BY <1>1, <1>3, <1>4, PassExists
    <2>2. \A i \in 0..n : i # 0 => F[i][g[i - 1]] = step(i, g[i - 1])
      <3>1. \A i \in 0..n : i # 0 => i \in 1..n /\ i - 1 \in 0..n
        BY <1>1
      <3> HIDE DEF step
      <3> QED BY <2>1, <3>1 DEF F
    <2>3. g = [i \in 0..n |-> IF i = 0 THEN StateOf(t) ELSE step(i, g[i - 1])]
      <3> HIDE DEF step
      <3> QED BY <2>1, <2>2 DEF Passed
    <2> QED BY <2>3
  <1>6. st = [i \in 0..n |-> IF i = 0 THEN StateOf(t) ELSE step(i, st[i - 1])]
    BY <1>5
  <1>7. Revoked(t, files) = st[n]
    BY DEF Revoked
  <1> HIDE DEF n, step, st
  <1>8. st[0] \in S /\ \A i \in 1..n : st[i] = step(i, st[i - 1])
    BY <1>1, <1>3, <1>6
  <1>9. \A i \in 1..n : st[i - 1] \in S => st[i] \in S
    BY <1>2, <1>8
  <1>10. st[n] \in S
    BY <1>1, <1>8, <1>9, PassKeeps
  <1> QED BY <1>7, <1>10

LEMMA RevokedTyped ==
    ASSUME NEW t, Coherent(t), NEW files \in SetToSeqs(t.revocations)
    PROVE  Revoked(t, files) \in RevokedStates(t)
  <1>1. StateOf(t) \in RevokedStates(t)
    BY TreeTyped DEF StateOf, RevokedStates, State, Coherent, Framed
  <1> QED BY <1>1, OverriddenStays, RevokedStays

LEMMA RevocationsKeep ==
    ASSUME NEW t, Coherent(t), NEW files \in SetToSeqs(t.revocations)
    PROVE  Coherent(AfterRevocations(t, Revoked(t, files)))
  <1> DEFINE st == Revoked(t, files)
             u  == [t EXCEPT !.revocations = {}]
             scopes == {v.scope : v \in t.revocations}
  <1>1. st \in RevokedStates(t)
    BY RevokedTyped
  <1> HIDE DEF st
  <1>2. st.record \in Record /\ st.ledger \in Ledger /\ Settles(st.record)
    BY <1>1 DEF RevokedStates, State
  <1>3. t.record \in Record /\ t.ledger \in Ledger
    BY TreeTyped DEF Coherent, Framed
  <1>4. Framed(u) /\ u.doc = t.doc
    <2>1. u \in Tree /\ u.line = t.line /\ u.pending = t.pending /\ u.revocations = {}
                     /\ u.doc = t.doc
      BY DEF Coherent, Framed, Tree
    <2> QED BY <2>1, FS_EmptySet DEF Coherent, Framed
  <1>5. ASSUME NEW c \in Components \ scopes
        PROVE  u.doc[c].body = Recompose(st.record, st.ledger)[c]
    <2>1. u.doc[c].body = Recompose(t.record, t.ledger)[c]
      BY <1>4 DEF Coherent, Rebuilt
    <2>2. CASE c = "scraped"
      <3>1. st.record = t.record
        BY <1>1, <1>5, <2>2 DEF RevokedStates
      <3> QED BY <1>2, <1>3, <2>1, <2>2, <3>1, Recomposed
    <2>3. CASE c = "managed"
      <3>1. st.ledger = t.ledger
        BY <1>1, <1>5, <2>3 DEF RevokedStates
      <3> QED BY <1>2, <1>3, <2>1, <2>3, <3>1, Recomposed
    <2> QED BY <2>2, <2>3 DEF Components
  <1> HIDE DEF u, scopes
  <1>6. Coherent(Rewrite(u, st.record, st.ledger, scopes))
    BY <1>2, <1>4, <1>5, RewriteKeeps
  <1> QED BY <1>6 DEF AfterRevocations, st, u, scopes

\* What the pending records of a tree leave alone: the scrape record.
FoldedStates(t) == {s \in State : s.record = t.record}

LEMMA TakenStays ==
    ASSUME NEW t, Coherent(t), NEW st \in FoldedStates(t), NEW r \in t.pending
    PROVE  TakenInto(st, t.line, r) \in FoldedStates(t)
  <1>1. st \in State /\ st.ledger \in Ledger /\ st.ok \in BOOLEAN
    BY DEF FoldedStates, State
  <1>2. r \in Managed!PendingRecord
    BY TreeTyped DEF Coherent, Framed
  <1>3. CASE st.ok /\ Managed!Applies(t.line, st.ledger, r)
    <2> DEFINE ledger == Managed!ApplyRecord(st.ledger, r)
    <2>1. ledger \in Ledger
      BY <1>1, <1>2, ApplyRecordTyped
    <2>2. TakenInto(st, t.line, r) = [st EXCEPT !.ledger = ledger]
      BY <1>3 DEF TakenInto
    <2> HIDE DEF ledger
    <2> QED BY <1>1, <2>1, <2>2 DEF FoldedStates, State
  <1>4. CASE ~(st.ok /\ Managed!Applies(t.line, st.ledger, r))
    <2> DEFINE ok == st.ok /\ Managed!Discarded(t.line, st.ledger, r)
    <2>1. TakenInto(st, t.line, r) = [st EXCEPT !.ok = ok]
      BY <1>4 DEF TakenInto
    <2>2. ok \in BOOLEAN
      OBVIOUS
    <2> HIDE DEF ok
    <2> QED BY <1>1, <2>1, <2>2 DEF FoldedStates, State
  <1> QED BY <1>3, <1>4

\* What every pending record keeps, the queue keeps.
LEMMA FoldedStays ==
    ASSUME NEW t, Coherent(t), NEW files \in SetToSeqs(t.pending),
           NEW S, StateOf(t) \in S,
           \A st \in S, r \in t.pending : TakenInto(st, t.line, r) \in S
    PROVE  Folded(t, files) \in S
  <1> DEFINE n == Len(files)
             step(i, x) == TakenInto(x, t.line, files[i])
             F == [i \in 1..n |-> [x \in S |-> step(i, x)]]
             st == CHOOSE g : g = [i \in 0..Len(files) |->
                                      IF i = 0 THEN StateOf(t)
                                      ELSE TakenInto(g[i - 1], t.line, files[i])]
  <1>1. n \in Nat /\ \A i \in 1..n : files[i] \in t.pending
    BY QueueRead DEF Coherent, Framed
  <1>2. \A i \in 1..n, x \in S : step(i, x) \in S
    BY <1>1
  <1>3. StateOf(t) \in S
    OBVIOUS
  <1>4. F \in [1..n -> [S -> S]]
    <2> HIDE DEF n, step
    <2> QED BY <1>2
  <1>5. \E g : g = [i \in 0..n |-> IF i = 0 THEN StateOf(t) ELSE step(i, g[i - 1])]
    <2> HIDE DEF n, F
    <2>1. PICK g \in [0..n -> S] : Passed(F, StateOf(t), n, g)
      BY <1>1, <1>3, <1>4, PassExists
    <2>2. \A i \in 0..n : i # 0 => F[i][g[i - 1]] = step(i, g[i - 1])
      <3>1. \A i \in 0..n : i # 0 => i \in 1..n /\ i - 1 \in 0..n
        BY <1>1
      <3> HIDE DEF step
      <3> QED BY <2>1, <3>1 DEF F
    <2>3. g = [i \in 0..n |-> IF i = 0 THEN StateOf(t) ELSE step(i, g[i - 1])]
      <3> HIDE DEF step
      <3> QED BY <2>1, <2>2 DEF Passed
    <2> QED BY <2>3
  <1>6. st = [i \in 0..n |-> IF i = 0 THEN StateOf(t) ELSE step(i, st[i - 1])]
    BY <1>5
  <1>7. Folded(t, files) = st[n]
    BY DEF Folded
  <1> HIDE DEF n, step, st
  <1>8. st[0] \in S /\ \A i \in 1..n : st[i] = step(i, st[i - 1])
    BY <1>1, <1>3, <1>6
  <1>9. \A i \in 1..n : st[i - 1] \in S => st[i] \in S
    BY <1>2, <1>8
  <1>10. st[n] \in S
    BY <1>1, <1>8, <1>9, PassKeeps
  <1> QED BY <1>7, <1>10

LEMMA FoldedTyped ==
    ASSUME NEW t, Coherent(t), NEW files \in SetToSeqs(t.pending)
    PROVE  Folded(t, files) \in FoldedStates(t)
  <1>1. StateOf(t) \in FoldedStates(t)
    BY TreeTyped DEF StateOf, FoldedStates, State, Coherent, Framed
  <1> QED BY <1>1, TakenStays, FoldedStays

LEMMA PendingKeeps ==
    ASSUME NEW t, Coherent(t), NEW files \in SetToSeqs(t.pending)
    PROVE  Coherent(AfterPending(t, Folded(t, files)))
  <1> DEFINE st == Folded(t, files)
             u  == [t EXCEPT !.pending = {}]
             changed == Changed(t, st.record, st.ledger)
  <1>1. st \in FoldedStates(t)
    BY FoldedTyped
  <1> HIDE DEF st
  <1>2. /\ t.record \in Record /\ t.ledger \in Ledger /\ Settles(t.record)
        /\ st.record = t.record /\ st.ledger \in Ledger
    BY <1>1, TreeTyped DEF Coherent, Framed, FoldedStates, State
  <1>3. Framed(u) /\ u.doc = t.doc
    <2>1. u \in Tree /\ u.line = t.line /\ u.revocations = t.revocations /\ u.pending = {}
                     /\ u.doc = t.doc
      BY DEF Coherent, Framed, Tree
    <2> QED BY <2>1, FS_EmptySet DEF Coherent, Framed
  <1>4. ASSUME NEW c \in Components \ changed
        PROVE  u.doc[c].body = Recompose(st.record, st.ledger)[c]
    <2>1. u.doc[c].body = Recompose(t.record, t.ledger)[c]
      BY <1>3 DEF Coherent, Rebuilt
    <2>2. CASE c = "scraped"
      BY <1>2, <2>1, <2>2, Recomposed
    <2>3. CASE c = "managed"
      <3>1. st.ledger = t.ledger
        BY <1>4, <2>3 DEF Changed
      <3> QED BY <1>2, <2>1, <2>3, <3>1, Recomposed
    <2> QED BY <2>2, <2>3 DEF Components
  <1> HIDE DEF u, changed
  <1>5. Coherent(Rewrite(u, st.record, st.ledger, changed))
    BY <1>2, <1>3, <1>4, RewriteKeeps
  <1> QED BY <1>5 DEF AfterPending, st, u, changed

LEMMA GenesisCoherent ==
    ASSUME NEW served \in SUBSET Scraped!Tuple, IsFiniteSet(served)
    PROVE  Coherent(Genesis(served))
  <1> DEFINE record == Scraped!Seed(served)
             body(c) == Recompose(record, Managed!Empty)[c]
             first == CHOOSE e \in Epochs : \A f \in Epochs : e <= f
             some  == CHOOSE x \in Sources : TRUE
             line  == [retired |-> FALSE, managed |-> Platforms,
                       epoch |-> [p \in Platforms |-> first],
                       source |-> [p \in Platforms |-> some]]
             doc   == [c \in Components |-> [revision |-> 1, body |-> body(c)]]
             t     == Genesis(served)
  <1>1. record \in Record /\ Settles(record)
    BY SeedTyped
  <1>2. Managed!Empty \in Ledger
    BY LedgerIsFunction DEF Managed!Empty
  <1>3. \A c \in Components : body(c) \in Bodies
    <2> HIDE DEF record
    <2> QED BY <1>1, <1>2, Recomposed
  <1>4. first \in Epochs
    <2>1. Epochs \in SUBSET Nat /\ Epochs # {}
      BY OrderedAssumption
    <2>2. \E e \in Epochs : \A f \in Epochs : e <= f
      BY <2>1, LeastExists
    <2> QED BY <2>2
  <1>5. some \in Sources
    BY OrderedAssumption
  <1>6. line \in Managed!Config
    <2> HIDE DEF first, some
    <2> QED BY <1>4, <1>5 DEF Managed!Config
  <1>7. doc \in [Components -> Document] /\ \A c \in Components : doc[c].body = body(c)
    <2> HIDE DEF body
    <2> QED BY <1>3 DEF Document
  <1>8. t = [retired |-> FALSE, line |-> line, record |-> record, ledger |-> Managed!Empty,
             doc |-> doc, signed |-> doc, pending |-> {}, revocations |-> {}]
    BY DEF Genesis
  <1>9. line.managed = Platforms
    OBVIOUS
  <1> HIDE DEF line, doc, t, record
  <1>10. t \in Tree
    BY <1>1, <1>2, <1>6, <1>7, <1>8 DEF Tree, Record, Ledger
  <1>11. Coherent(t)
    BY <1>1, <1>7, <1>8, <1>9, <1>10, FS_EmptySet DEF Coherent, Framed, Rebuilt
  <1> QED BY <1>11 DEF t

------------------------------------------------------------------------------
(***************************************************************************)
(* The invariant behind the gates: every tree a run holds, and main, is    *)
(* coherent.  Others edit flags, lines and queues, never a document or     *)
(* what it is built from.                                                  *)
(***************************************************************************)
CInv == /\ Coherent(main)
        /\ job \in Job /\ Coherent(job.from) /\ Coherent(job.work)
        /\ feed \in Feeds
        /\ aged \subseteq Components /\ planned \subseteq Managed!PlannedItem
        /\ published \subseteq Components \X Document
        /\ edits \in 0..MaxEdits

LEMMA IdleCoherent ==
    Idle \in Job /\ Coherent(Idle.from) /\ Coherent(Idle.work)
  <1>1. Coherent(Genesis({}))
    <2>1. {} \in SUBSET Scraped!Tuple /\ IsFiniteSet({})
      BY FS_EmptySet
    <2> QED BY <2>1, GenesisCoherent
  <1>2. Genesis({}) \in Tree
    BY <1>1 DEF Coherent, Framed
  <1>3. 0 \in 0..MaxAttempts
    BY BoundsAssumption
  <1> QED BY <1>1, <1>2, <1>3 DEF Idle, Job, Phases

\* What a coherent tree shows the validators.
LEMMA ValidWhenServing ==
    ASSUME NEW t, Coherent(t)
    PROVE  Valid(t) <=> t.record.status = "active"
  <1>1. /\ t.record \in Record /\ t.ledger \in Ledger /\ Settles(t.record)
        /\ t.line.managed = Platforms
    BY TreeTyped DEF Coherent, Framed
  <1>2. /\ t.doc["scraped"].body = Scraped!Published(t.record)
        /\ t.doc["managed"].body = Recompose(t.record, t.ledger)["managed"]
    BY <1>1, Recomposed DEF Coherent, Rebuilt, Components
  <1>3. Managed!LedgerParity(t.line, t.ledger)
    <2>1. \A s \in DOMAIN t.ledger : Managed!PlatformOf(s) \in Platforms
      BY <1>1, LedgerIsFunction DEF Managed!Slots, Managed!PlatformOf
    <2> QED BY <1>1, <2>1 DEF Managed!LedgerParity
  <1>4. CASE t.record.status = "active"
    BY <1>1, <1>2, <1>3, <1>4
       DEF Valid, Scraped!ScrapeParity, Scraped!SnapshotsConsistent, Scraped!Published, Settles
  <1>5. CASE t.record.status # "active"
    <2>1. t.record.status = "tombstone" /\ t.record.snapshots # {}
      BY <1>1, <1>5 DEF Record, Scraped!ScrapeRecord, Settles
    <2>2. Scraped!VersionsOf(t.record.snapshots) # {}
      BY <2>1 DEF Scraped!VersionsOf
    <2>3. t.record.tuples = {} => Scraped!VersionsOf(t.record.tuples) = {}
      BY DEF Scraped!VersionsOf
    <2> QED BY <1>2, <2>1, <2>2, <2>3
            DEF Valid, Scraped!ScrapeParity, Scraped!SnapshotsConsistent, Scraped!Published
  <1> QED BY <1>4, <1>5

LEMMA CommitKeeps ==
    ASSUME CInv, NEW t, Coherent(t), Commit(t)
    PROVE  CInv'
  <1>1. job' \in Job /\ job'.from = job.from /\ job'.work = job.work
    BY DEF Commit, CInv, Job
  <1>2. edits' \in 0..MaxEdits
    BY BoundsAssumption DEF Commit, CInv
  <1>3. planned' \subseteq Managed!PlannedItem
    BY DEF Commit, CInv, Managed!Plannable
  <1>4. main' = t /\ aged' = aged /\ feed' = feed /\ published' = published
    BY DEF Commit
  <1> QED BY <1>1, <1>2, <1>3, <1>4 DEF CInv, Coherent, Framed, Rebuilt, Settles

\* Others leave record, ledger and documents as they are.
LEMMA EditKeeps ==
    ASSUME NEW t, Coherent(t), NEW u \in Tree, u.record = t.record, u.ledger = t.ledger,
           u.doc = t.doc, u.line.managed = Platforms,
           IsFiniteSet(u.pending), IsFiniteSet(u.revocations)
    PROVE  Coherent(u)
  BY DEF Coherent, Framed, Rebuilt

LEMMA ProceedKeeps ==
    ASSUME CInv, UnchangedByJob, NEW phase \in Phases, NEW t, Coherent(t), Proceed(phase, t)
    PROVE  CInv'
  <1>1. job' \in Job /\ job'.from = job.from /\ job'.work = t
    BY DEF Proceed, CInv, Job, Coherent, Framed
  <1> QED BY <1>1 DEF UnchangedByJob, CInv, Coherent, Framed, Rebuilt, Settles

LEMMA StopKeeps ==
    ASSUME CInv, Stop \/ Retry
    PROVE  job' \in Job /\ Coherent(job'.from) /\ Coherent(job'.work)
  <1>1. CASE Stop
    BY <1>1, IdleCoherent DEF Stop
  <1>2. CASE Retry /\ ~(job.attempt < MaxAttempts)
    BY <1>2, IdleCoherent DEF Retry
  <1>3. CASE Retry /\ job.attempt < MaxAttempts
    <2>1. job.attempt + 1 \in 0..MaxAttempts
      BY <1>3, BoundsAssumption DEF CInv, Job
    <2>2. job' = [Idle EXCEPT !.phase = "fetch", !.attempt = job.attempt + 1]
      BY <1>3 DEF Retry
    <2>3. job' \in Job /\ job'.from = Idle.from /\ job'.work = Idle.work
      BY <2>1, <2>2, IdleCoherent DEF Job, Phases
    <2> QED BY <2>3, IdleCoherent
  <1> QED BY <1>1, <1>2, <1>3

LEMMA InitCoherent == ASSUME Init PROVE CInv
  <1>1. PICK t \in Scraped!Tuple : main = Genesis({t})
    BY DEF Init
  <1>2. Coherent(main)
    <2>1. {t} \in SUBSET Scraped!Tuple /\ IsFiniteSet({t})
      BY FS_Singleton
    <2> QED BY <1>1, <2>1, GenesisCoherent
  <1>3. planned \subseteq Managed!PlannedItem
    BY DEF Init, Managed!Plannable
  <1>4. published \subseteq Components \X Document
    BY <1>2, TreeTyped DEF Init, DocsOf, Coherent, Framed
  <1>5. edits \in 0..MaxEdits
    BY BoundsAssumption DEF Init
  <1> QED BY <1>2, <1>3, <1>4, <1>5, IdleCoherent DEF Init, CInv

LEMMA OthersKeep == ASSUME CInv, Others PROVE CInv'
  <1>1. /\ main \in Tree /\ Coherent(main) /\ main.line.managed = Platforms
        /\ IsFiniteSet(main.pending) /\ IsFiniteSet(main.revocations)
    BY DEF CInv, Coherent, Framed
  <1>2. ASSUME NEW b \in BOOLEAN, SetRetired(b) PROVE CInv'
    <2> DEFINE u == [main EXCEPT !.retired = b]
    <2>1. u \in Tree /\ u.record = main.record /\ u.ledger = main.ledger /\ u.doc = main.doc
          /\ u.line = main.line /\ u.pending = main.pending /\ u.revocations = main.revocations
      BY <1>1 DEF Tree
    <2>2. Commit(u)
      BY <1>2 DEF SetRetired
    <2> HIDE DEF u
    <2> QED BY <1>1, <2>1, <2>2, EditKeeps, CommitKeeps
  <1>3. ASSUME NEW c \in Managed!Config, Reconfigure(c) PROVE CInv'
    <2> DEFINE u == [main EXCEPT !.line = c]
    <2>1. u \in Tree /\ u.record = main.record /\ u.ledger = main.ledger /\ u.doc = main.doc
          /\ u.line = c /\ u.pending = main.pending /\ u.revocations = main.revocations
      BY <1>1 DEF Tree
    <2>2. Commit(u) /\ c.managed = Platforms
      BY <1>1, <1>3 DEF Reconfigure
    <2> HIDE DEF u
    <2> QED BY <1>1, <2>1, <2>2, EditKeeps, CommitKeeps
  <1>4. ASSUME NEW r \in Managed!PendingRecord, Finalize(r) PROVE CInv'
    <2> DEFINE others == {q \in main.pending : Managed!PendingFile(q) # Managed!PendingFile(r)}
               queue  == others \cup {r}
               u == [main EXCEPT !.pending = queue]
    <2>1. queue \subseteq Managed!PendingRecord /\ IsFiniteSet(queue)
      <3>1. others \subseteq main.pending /\ main.pending \subseteq Managed!PendingRecord
        BY <1>1, TreeTyped
      <3>2. IsFiniteSet(others)
        BY <1>1, <3>1, FS_Subset
      <3> HIDE DEF others
      <3> QED BY <3>1, <3>2, FS_AddElement
    <2>2. Commit(u)
      BY <1>4 DEF Finalize
    <2> HIDE DEF queue
    <2>3. u \in Tree /\ u.record = main.record /\ u.ledger = main.ledger /\ u.doc = main.doc
          /\ u.line = main.line /\ u.pending = queue /\ u.revocations = main.revocations
      BY <1>1, <2>1 DEF Tree
    <2> HIDE DEF u
    <2> QED BY <1>1, <2>1, <2>2, <2>3, EditKeeps, CommitKeeps
  <1>5. ASSUME NEW Q, Q \subseteq ScrapedRevocation \cup ManagedRevocation, IsFiniteSet(Q),
               Commit([main EXCEPT !.revocations = Q])
        PROVE  CInv'
    <2> DEFINE u == [main EXCEPT !.revocations = Q]
    <2>1. u \in Tree /\ u.record = main.record /\ u.ledger = main.ledger /\ u.doc = main.doc
          /\ u.line = main.line /\ u.pending = main.pending /\ u.revocations = Q
      BY <1>1, <1>5 DEF Tree
    <2>2. Commit(u)
      BY <1>5
    <2> HIDE DEF u
    <2> QED BY <1>1, <1>5, <2>1, <2>2, EditKeeps, CommitKeeps
  <1>6. ASSUME NEW v \in ScrapedRevocation \cup ManagedRevocation, Revoke(v) PROVE CInv'
    <2>1. Commit([main EXCEPT !.revocations = main.revocations \cup {v}])
      BY <1>6 DEF Revoke
    <2>2. IsFiniteSet(main.revocations \cup {v})
      BY <1>1, FS_AddElement
    <2>3. main.revocations \cup {v} \subseteq ScrapedRevocation \cup ManagedRevocation
      BY <1>1, TreeTyped
    <2> QED BY <1>5, <2>1, <2>2, <2>3
  <1>7. ASSUME NEW v \in ScrapedRevocation \cup ManagedRevocation, Withdraw(v) PROVE CInv'
    <2>1. Commit([main EXCEPT !.revocations = main.revocations \ {v}])
      BY <1>7 DEF Withdraw
    <2>2. IsFiniteSet(main.revocations \ {v})
      BY <1>1, FS_RemoveElement, FS_Subset
    <2>3. main.revocations \ {v} \subseteq ScrapedRevocation \cup ManagedRevocation
      BY <1>1, TreeTyped
    <2> QED BY <1>5, <2>1, <2>2, <2>3
  <1>8. CASE FeedMoves
    BY <1>8 DEF FeedMoves, CInv, Coherent, Framed, Rebuilt, Settles
  <1>9. ASSUME NEW c \in Components, Age(c) PROVE CInv'
    BY <1>9 DEF Age, CInv, Coherent, Framed, Rebuilt, Settles
  <1>10. CASE Crash
    <2>1. job' \in Job /\ Coherent(job'.from) /\ Coherent(job'.work)
      BY <1>10, StopKeeps DEF Crash
    <2>2. edits' \in 0..MaxEdits
      BY <1>10, BoundsAssumption DEF Crash, CInv
    <2> QED BY <1>10, <2>1, <2>2 DEF Crash, CInv, Coherent, Framed, Rebuilt, Settles
  <1> QED BY <1>2, <1>3, <1>4, <1>6, <1>7, <1>8, <1>9, <1>10 DEF Others

LEMMA RunKeeps == ASSUME CInv, RunStep PROVE CInv'
  <1>1. /\ Coherent(main) /\ Coherent(job.work) /\ Coherent(job.from)
        /\ job \in Job /\ main \in Tree
    BY DEF CInv, Coherent, Framed
  <1>2. ASSUME UnchangedByJob, job' \in Job, Coherent(job'.from), Coherent(job'.work) PROVE CInv'
    BY <1>2 DEF UnchangedByJob, CInv, Coherent, Framed, Rebuilt, Settles
  <1>3. ASSUME UnchangedByJob, Stop \/ Retry PROVE CInv'
    BY <1>2, <1>3, StopKeeps
  <1>4. CASE Start
    <2>1. job' = [job EXCEPT !.phase = "fetch", !.attempt = 1] /\ UnchangedByJob
      BY <1>4 DEF Start
    <2>2. 1 \in 0..MaxAttempts
      BY BoundsAssumption
    <2>3. job' \in Job /\ job'.from = job.from /\ job'.work = job.work
      BY <1>1, <2>1, <2>2 DEF Job, Phases
    <2> QED BY <1>1, <1>2, <2>1, <2>3
  <1>5. CASE Fetch
    <2>1. job' = [phase |-> "lifecycle", attempt |-> job.attempt, stale |-> FALSE,
                  from |-> main, work |-> main, resigned |-> {}] /\ UnchangedByJob
      BY <1>5 DEF Fetch
    <2>2. job' \in Job /\ job'.from = main /\ job'.work = main
      BY <1>1, <2>1 DEF Job, Phases
    <2> QED BY <1>1, <1>2, <2>1, <2>2
  <1>6. CASE ApplyLifecycle
    <2>1. Coherent(AfterLifecycle(job.work)) /\ "revocations" \in Phases
      BY <1>1, LifecycleKeeps DEF Phases
    <2> QED BY <1>3, <1>6, <2>1, ProceedKeeps DEF ApplyLifecycle
  <1>7. CASE ApplyRevocations
    <2>1. PICK files \in SetToSeqs(job.work.revocations) :
              \/ Proceed("pending", AfterRevocations(job.work, Revoked(job.work, files)))
              \/ Stop
      BY <1>7 DEF ApplyRevocations
    <2>2. Coherent(AfterRevocations(job.work, Revoked(job.work, files))) /\ "pending" \in Phases
      BY <1>1, RevocationsKeep DEF Phases
    <2> QED BY <1>3, <1>7, <2>1, <2>2, ProceedKeeps DEF ApplyRevocations
  <1>8. CASE ApplyPending
    <2>1. PICK files \in SetToSeqs(job.work.pending) :
              \/ Proceed("scrape", AfterPending(job.work, Folded(job.work, files)))
              \/ Stop
      BY <1>8 DEF ApplyPending
    <2>2. Coherent(AfterPending(job.work, Folded(job.work, files))) /\ "scrape" \in Phases
      BY <1>1, PendingKeeps DEF Phases
    <2> QED BY <1>3, <1>8, <2>1, <2>2, ProceedKeeps DEF ApplyPending
  <1>9. CASE Scrape
    <2>1. Coherent(AfterScrape(job.work, feed)) /\ "validate" \in Phases
      BY <1>1, ScrapeKeeps DEF CInv, Phases
    <2> QED BY <1>3, <1>9, <2>1, ProceedKeeps DEF Scrape
  <1>10. CASE Validate
    <2>1. "sign" \in Phases
      BY DEF Phases
    <2> QED BY <1>1, <1>3, <1>10, <2>1, ProceedKeeps DEF Validate
  <1>11. CASE Sign
    <2> DEFINE new    == {c \in Components : NeedsResign(job.work, c)}
               signed == [c \in Components |-> IF c \in new THEN job.work.doc[c]
                                                            ELSE job.work.signed[c]]
               work   == [job.work EXCEPT !.signed = signed]
    <2>1. job.work \in Tree /\ \A c \in Components : /\ job.work.doc[c] \in Document
                                                     /\ job.work.signed[c] \in Document
      BY <1>1, TreeTyped DEF Coherent, Framed
    <2>2. signed \in [Components -> Document] /\ new \subseteq Components
      <3> HIDE DEF new
      <3>1. signed \in [Components -> Document]
        BY <2>1
      <3> QED BY <3>1 DEF new
    <2>3. job' = [job EXCEPT !.phase = "commit", !.resigned = new, !.work = work]
      BY <1>1, <1>11, <2>1 DEF Sign, Job, Tree
    <2> HIDE DEF signed, new
    <2>4. /\ work \in Tree /\ work.record = job.work.record /\ work.ledger = job.work.ledger
          /\ work.doc = job.work.doc /\ work.line = job.work.line
          /\ work.pending = job.work.pending /\ work.revocations = job.work.revocations
      BY <2>1, <2>2 DEF Tree
    <2> HIDE DEF work
    <2>5. Coherent(work)
      BY <1>1, <2>4, EditKeeps DEF Coherent, Framed
    <2>6. job' \in Job /\ job'.from = job.from /\ job'.work = work
      BY <1>1, <2>2, <2>3, <2>4 DEF Job, Phases
    <2>7. UnchangedByJob
      BY <1>11 DEF Sign
    <2> QED BY <1>1, <1>2, <2>5, <2>6, <2>7
  <1>12. CASE CommitRun
    <2>1. "push" \in Phases
      BY DEF Phases
    <2> QED BY <1>1, <1>3, <1>12, <2>1, ProceedKeeps DEF CommitRun
  <1>13. CASE Push \/ PushUnconfirmed
    <2>1. Land /\ (Stop \/ Retry)
      BY <1>13 DEF Push, PushUnconfirmed
    <2>2. job' \in Job /\ Coherent(job'.from) /\ Coherent(job'.work)
      BY <2>1, StopKeeps
    <2>3. DocsOf(job.work) \subseteq Components \X Document
      BY <1>1, TreeTyped DEF DocsOf, Coherent, Framed
    <2>4. planned' \subseteq Managed!PlannedItem
      BY <2>1 DEF Land, CInv, Managed!Plannable
    <2>5. /\ main' = job.work /\ aged' \subseteq aged /\ feed' = feed /\ edits' = edits
          /\ published' = published \cup DocsOf(job.work)
      BY <2>1 DEF Land
    <2> QED BY <1>1, <2>2, <2>3, <2>4, <2>5 DEF CInv, Coherent, Framed, Rebuilt, Settles
  <1>14. CASE PushRejected
    BY <1>3, <1>14 DEF PushRejected
  <1> QED BY <1>4, <1>5, <1>6, <1>7, <1>8, <1>9, <1>10, <1>11, <1>12, <1>13, <1>14 DEF RunStep

LEMMA AlwaysCoherent == Spec => [](IInv /\ CInv)
  <1>1. Init => IInv /\ CInv
    BY InitSound, InitCoherent
  <1>2. IInv /\ CInv /\ [Next]_vars => (IInv /\ CInv)'
    <2>1. CASE UNCHANGED vars
      BY <2>1 DEF vars, IInv, WorkSound, Working, Numbered, Advanced,
                  CInv, Coherent, Framed, Rebuilt, Settles
    <2>2. CASE Next
      BY <2>2, NextSound, OthersKeep, RunKeeps DEF Next
    <2> QED BY <2>1, <2>2
  <1> QED BY <1>1, <1>2, PTL DEF Spec

(* Whatever the queues hold and in whichever order they are read, main and *)
(* the copy a run works on hold records, entries, documents and queue      *)
(* files of the shape that from_dict and the schema give them.             *)
THEOREM TypeCorrect == Spec => []TypeOK
  <1>1. CInv => TypeOK
    BY FeedsAssumption DEF CInv, Coherent, Framed, TypeOK
  <1> QED BY <1>1, AlwaysCoherent, PTL

(* No run is stopped by validate_manifests or check_revision_history for   *)
(* what its own scripts left: the one tree that validation turns down is   *)
(* that of a tombstoned scrape record.                                     *)
THEOREM GatesAlwaysHold == Spec => []GatesHold
  <1>1. IInv /\ CInv => GatesHold
    <2> SUFFICES ASSUME IInv, CInv PROVE GatesHold
      OBVIOUS
    <2>1. Valid(job.work) <=> job.work.record.status = "active"
      BY ValidWhenServing DEF CInv
    <2>2. CASE job.phase = "commit"
      <3>1. Advanced(job.from, job.work)
        BY <2>2 DEF IInv, WorkSound, Working
      <3> QED BY <2>1, <2>2, <3>1 DEF GatesHold, Monotone, Advanced, Promise!Advances
    <2>3. CASE job.phase # "commit"
      BY <2>1, <2>3 DEF GatesHold
    <2> QED BY <2>2, <2>3
  <1> QED BY <1>1, AlwaysCoherent, PTL

------------------------------------------------------------------------------
(***************************************************************************)
(* What one landing may change.  ScrapeGuard and Ledger state the rules of *)
(* the two state files step by step; a run applies many steps, in scripts  *)
(* that do not know of each other, to a copy that is then pushed or lost.  *)
(***************************************************************************)
OneTuplePerVersion(ts) == \A t, u \in ts : t.version = u.version => t = u

\* The floor bounds what is on record, and no version is on record twice.
Guarded(r) == /\ \A u \in r.tuples \cup r.revoked : u.version <= r.floor
              /\ \A u \in r.tuples, w \in r.revoked : u.version # w.version
              /\ OneTuplePerVersion(r.tuples) /\ OneTuplePerVersion(r.revoked)

\* A file queued in t asks for the tuple, or for the end of its version.
Puts(t, u)    == \E q \in t.revocations : /\ q.scope = "scraped" /\ q.op # "delete"
                                          /\ u = [version |-> q.tuple.version, content |-> q.by]
Deletes(t, v) == \E q \in t.revocations : /\ q.scope = "scraped" /\ q.op = "delete"
                                          /\ q.tuple.version = v

RecordExplained(t, r) ==
    /\ r.floor >= t.record.floor
    /\ \A u \in r.tuples : \/ u \in t.record.tuples
                           \/ u.version > t.record.floor
                           \/ Puts(t, u)
    /\ \A u \in t.record.tuples : \/ \E w \in r.tuples : w.version = u.version
                                  \/ r.floor > t.record.floor
                                  \/ Deletes(t, u.version)

AtLeast(e, f) == f.epoch > e.epoch \/ (f.epoch = e.epoch /\ f.source = e.source /\ f.key >= e.key)

Readmits(t, s) == {q \in t.revocations : q.scope = "managed" /\ q.op = "readmit" /\ q.slot = s}

\* What e binds its slot to was bound before, queued by a leg, or reviewed.
Bound(t, s, e) ==
    \/ /\ s \in DOMAIN t.ledger
       /\ e.source = t.ledger[s].source /\ e.key = t.ledger[s].key
       /\ e.content = t.ledger[s].content
    \/ \E r \in t.pending : /\ r.slot = s /\ e.source = r.source /\ e.key = r.key
                            /\ e.content = r.content
    \/ \E q \in Readmits(t, s) : /\ e.source = q.source /\ e.key = q.key
                                 /\ e.content = q.by

EntryExplained(t, s, e) ==
    /\ Bound(t, s, e)
    /\ s \in DOMAIN t.ledger =>
          /\ AtLeast(t.ledger[s], e)
          /\ t.ledger[s].revoked /\ ~e.revoked =>
                e.epoch > t.ledger[s].epoch \/ Readmits(t, s) # {}

LedgerExplained(t, l) == /\ DOMAIN t.ledger \subseteq DOMAIN l
                         /\ \A s \in DOMAIN l : EntryExplained(t, s, l[s])

Explained(t, u) == RecordExplained(t, u.record) /\ LedgerExplained(t, u.ledger)

\* What is known of a copy that was fetched as t, whatever scripts it has been through.
Kept(t, u) == /\ Guarded(u.record) /\ Explained(t, u)
              /\ u.pending \subseteq t.pending /\ u.revocations \subseteq t.revocations

EInv == /\ Guarded(main.record)
        /\ Working => Kept(job.from, job.work)

LEMMA RecordTyped ==
    ASSUME NEW r \in Record
    PROVE  /\ r.tuples \subseteq Scraped!Tuple /\ r.revoked \subseteq Scraped!Tuple
           /\ r.floor \in ScrapedVersions \cup {Scraped!NoFloor} /\ r.floor \in Nat
           /\ \A u \in Scraped!Tuple : u.version \in ScrapedVersions /\ u.version \in Nat
  <1>1. /\ r.tuples \subseteq Scraped!Tuple /\ r.revoked \subseteq Scraped!Tuple
        /\ r.floor \in ScrapedVersions \cup {Scraped!NoFloor}
    BY DEF Record, Scraped!ScrapeRecord
  <1>2. \A u \in Scraped!Tuple : u.version \in ScrapedVersions /\ u.version \in Nat
    BY ScrapedAssumption DEF Scraped!Tuple
  <1>3. \A v \in ScrapedVersions \cup {Scraped!NoFloor} : v \in Nat
    BY ScrapedAssumption DEF Scraped!NoFloor
  <1>4. r.floor \in Nat
    BY <1>1, <1>3
  <1> QED BY <1>1, <1>2, <1>4

(* HighWater is the greatest of the floor and the versions it is given.    *)
LEMMA HighWaterIsMax ==
    ASSUME NEW ts \in SUBSET Scraped!Tuple, IsFiniteSet(ts), NEW floor \in Nat
    PROVE  /\ Scraped!HighWater(floor, ts) \in Scraped!VersionsOf(ts) \cup {floor}
           /\ \A v \in Scraped!VersionsOf(ts) \cup {floor} : v <= Scraped!HighWater(floor, ts)
  <1> DEFINE S == Scraped!VersionsOf(ts) \cup {floor}
             f == [t \in ts |-> t.version]
  <1>1. IsFiniteSet(Scraped!VersionsOf(ts))
    <2>1. f \in Surjection(ts, Scraped!VersionsOf(ts))
      BY DEF Surjection, Scraped!VersionsOf
    <2> QED BY <2>1, FS_Surjection
  <1>2. IsFiniteSet(S)
    BY <1>1, FS_AddElement
  <1>3. S # {}
    OBVIOUS
  <1>4. S \in SUBSET Nat
    <2>1. Scraped!VersionsOf(ts) \subseteq Nat
      BY ScrapedAssumption DEF Scraped!VersionsOf, Scraped!Tuple
    <2> QED BY <2>1
  <1> HIDE DEF S
  <1>5. \E m \in S : \A x \in S : x <= m
    BY <1>2, <1>3, <1>4, GreatestExists
  <1> QED BY <1>5 DEF Scraped!HighWater, S

(* A refresh raises the floor to what it admits, and admits nothing at or  *)
(* below it.                                                               *)
LEMMA ReconcileFacts ==
    ASSUME NEW r \in Record, NEW offers \in SUBSET Scraped!Tuple, IsFiniteSet(offers)
    PROVE  LET admits == Scraped!Admitted(r, offers)
               new    == Scraped!Reconcile(r, offers)
           IN  \/ new = r
               \/ /\ new.tuples \subseteq r.tuples \cup admits
                  /\ new.revoked = r.revoked
                  /\ new.floor \in Nat /\ new.floor > r.floor
                  /\ \A u \in admits : u.version <= new.floor
  <1> DEFINE admits == Scraped!Admitted(r, offers)
             tuples == Scraped!Newest(r.tuples \cup admits, Retain)
             floor  == Scraped!HighWater(r.floor, admits)
             new    == Scraped!Reconcile(r, offers)
  <1>1. admits \in SUBSET Scraped!Tuple /\ IsFiniteSet(admits)
    <2>1. admits \subseteq offers
      BY DEF Scraped!Admitted
    <2> QED BY <2>1, FS_Subset
  <1>2. CASE admits = {}
    BY <1>2 DEF Scraped!Reconcile
  <1>3. CASE admits # {}
    <2>1. new = [r EXCEPT !.tuples = tuples, !.floor = floor]
      BY <1>3 DEF Scraped!Reconcile
    <2>2. tuples \subseteq r.tuples \cup admits
      BY DEF Scraped!Newest
    <2>3. \A u \in admits : u.version > r.floor
      BY DEF Scraped!Admitted
    <2> HIDE DEF admits
    <2>4. r.floor \in Nat /\ \A u \in admits : u.version \in Nat
      BY <1>1, RecordTyped
    <2>5. /\ floor \in Scraped!VersionsOf(admits) \cup {r.floor}
          /\ \A v \in Scraped!VersionsOf(admits) \cup {r.floor} : v <= floor
      BY <1>1, <2>4, HighWaterIsMax
    <2> HIDE DEF floor, tuples, new
    <2>6. floor \in Nat /\ \A u \in admits : u.version <= floor
      BY <2>4, <2>5 DEF Scraped!VersionsOf
    <2>7. floor > r.floor
      <3>1. PICK u \in admits : TRUE
        BY <1>3
      <3> QED BY <2>3, <2>4, <2>6, <3>1
    <2>8. new.tuples = tuples /\ new.floor = floor /\ new.revoked = r.revoked
      BY <2>1 DEF Record, Scraped!ScrapeRecord
    <2> QED BY <2>2, <2>6, <2>7, <2>8 DEF new, admits
  <1> QED BY <1>2, <1>3

LEMMA ReconcileExplained ==
    ASSUME NEW t, t.record \in Record, NEW r \in Record, Guarded(r), RecordExplained(t, r),
           NEW offers \in SUBSET Scraped!Tuple, IsFiniteSet(offers), OneTuplePerVersion(offers)
    PROVE  /\ Guarded(Scraped!Reconcile(r, offers))
           /\ RecordExplained(t, Scraped!Reconcile(r, offers))
  <1> DEFINE admits == Scraped!Admitted(r, offers)
             new    == Scraped!Reconcile(r, offers)
  <1>1. /\ admits \subseteq offers
        /\ \A u \in admits : u.version > r.floor
        /\ \A u \in admits, w \in r.tuples : u.version # w.version
    BY DEF Scraped!Admitted, Scraped!VersionsOf
  <1>2. \/ new = r
        \/ /\ new.tuples \subseteq r.tuples \cup admits
           /\ new.revoked = r.revoked
           /\ new.floor \in Nat /\ new.floor > r.floor
           /\ \A u \in admits : u.version <= new.floor
    BY ReconcileFacts
  <1>3. /\ r.floor \in Nat /\ t.record.floor \in Nat
        /\ \A u \in r.tuples \cup r.revoked \cup offers : u.version \in Nat
    BY RecordTyped
  <1> HIDE DEF admits, new
  <1>4. CASE new = r
    BY <1>4 DEF new
  <1>5. CASE new # r
    <2>1. /\ new.tuples \subseteq r.tuples \cup admits /\ new.revoked = r.revoked
          /\ new.floor \in Nat /\ new.floor > r.floor
          /\ \A u \in admits : u.version <= new.floor
      BY <1>2, <1>5
    <2>2. \A u \in new.tuples \cup new.revoked : u.version <= new.floor
      BY <1>1, <1>3, <2>1 DEF Guarded
    <2>3. \A u \in new.tuples, w \in new.revoked : u.version # w.version
      BY <1>1, <1>3, <2>1 DEF Guarded
    <2>4. OneTuplePerVersion(new.tuples)
      BY <1>1, <2>1 DEF Guarded, OneTuplePerVersion
    <2>5. Guarded(new)
      BY <2>1, <2>2, <2>3, <2>4 DEF Guarded
    <2>6. new.floor >= t.record.floor /\ new.floor > t.record.floor
      BY <1>3, <2>1 DEF RecordExplained
    <2>7. ASSUME NEW u \in new.tuples
          PROVE  u \in t.record.tuples \/ u.version > t.record.floor \/ Puts(t, u)
      <3>1. CASE u \in r.tuples
        BY <3>1 DEF RecordExplained
      <3>2. CASE u \in admits
        BY <1>1, <1>3, <3>2 DEF RecordExplained
      <3> QED BY <2>1, <3>1, <3>2
    <2>8. RecordExplained(t, new)
      BY <2>6, <2>7 DEF RecordExplained
    <2> QED BY <2>5, <2>8 DEF new
  <1> QED BY <1>4, <1>5

LEMMA OverrideExplained ==
    ASSUME NEW t, NEW st, st.record \in Record, Guarded(st.record), RecordExplained(t, st.record),
           NEW v \in ScrapedRevocation, v \in t.revocations, Matches(st, v)
    PROVE  /\ Guarded(OverriddenRecord(st.record, v))
           /\ RecordExplained(t, OverriddenRecord(st.record, v))
  <1> DEFINE r   == st.record
             new == OverriddenRecord(r, v)
             put == [version |-> v.tuple.version, content |-> v.by]
  <1>1. v.scope = "scraped" /\ put.version = v.tuple.version /\ put.content = v.by
    BY DEF ScrapedRevocation
  <1>2. CASE v.op = "delete"
    <2>1. v.tuple \in r.tuples
      BY <1>1, <1>2 DEF Matches
    <2>2. new = [r EXCEPT !.tuples = r.tuples \ {v.tuple}, !.revoked = r.revoked \cup {v.tuple}]
      BY <1>2 DEF OverriddenRecord, Scraped!RevokeDelete
    <2> HIDE DEF new
    <2>3. /\ new.tuples = r.tuples \ {v.tuple} /\ new.revoked = r.revoked \cup {v.tuple}
          /\ new.floor = r.floor
      BY <2>2 DEF Record, Scraped!ScrapeRecord
    <2>4. Guarded(new)
      BY <2>1, <2>3 DEF Guarded, OneTuplePerVersion
    <2>5. Deletes(t, v.tuple.version)
      BY <1>1, <1>2 DEF Deletes
    <2>6. RecordExplained(t, new)
      BY <2>3, <2>5 DEF RecordExplained
    <2> QED BY <2>4, <2>6 DEF new
  <1>3. Puts(t, put) \/ v.op = "delete"
    BY <1>1 DEF Puts
  <1>4. CASE v.op = "replace"
    <2>1. v.tuple \in r.tuples
      BY <1>1, <1>4 DEF Matches
    <2>2. new = [r EXCEPT !.tuples = (r.tuples \ {v.tuple}) \cup {put}]
      BY <1>4 DEF OverriddenRecord, Scraped!RevokeReplace
    <2> HIDE DEF new, put
    <2>3. /\ new.tuples = (r.tuples \ {v.tuple}) \cup {put} /\ new.revoked = r.revoked
          /\ new.floor = r.floor
      BY <2>2 DEF Record, Scraped!ScrapeRecord
    <2>4. Guarded(new)
      BY <1>1, <2>1, <2>3 DEF Guarded, OneTuplePerVersion
    <2>5. RecordExplained(t, new)
      BY <1>1, <1>3, <1>4, <2>3 DEF RecordExplained
    <2> QED BY <2>4, <2>5 DEF new
  <1>5. CASE v.op = "readmit"
    <2>1. v.tuple \in r.revoked
      BY <1>1, <1>5 DEF Matches
    <2>2. new = [r EXCEPT !.tuples = r.tuples \cup {put}, !.revoked = r.revoked \ {v.tuple}]
      BY <1>5 DEF OverriddenRecord, Scraped!RevokeReadmit
    <2> HIDE DEF new, put
    <2>3. /\ new.tuples = r.tuples \cup {put} /\ new.revoked = r.revoked \ {v.tuple}
          /\ new.floor = r.floor
      BY <2>2 DEF Record, Scraped!ScrapeRecord
    <2>4. Guarded(new)
      BY <1>1, <2>1, <2>3 DEF Guarded, OneTuplePerVersion
    <2>5. RecordExplained(t, new)
      BY <1>1, <1>3, <1>5, <2>3 DEF RecordExplained
    <2> QED BY <2>4, <2>5 DEF new
  <1> QED BY <1>2, <1>4, <1>5 DEF ScrapedRevocation

LEMMA SettledExplained ==
    ASSUME NEW t, NEW u, u.record \in Record, Guarded(u.record), RecordExplained(t, u.record)
    PROVE  Guarded(SettledRecord(u)) /\ RecordExplained(t, SettledRecord(u))
  <1> DEFINE new == SettledRecord(u)
  <1>1. new.tuples = u.record.tuples /\ new.revoked = u.record.revoked /\ new.floor = u.record.floor
    BY DEF SettledRecord, Scraped!ReactivateScrape, Scraped!RetireScrape, Record, Scraped!ScrapeRecord
  <1> HIDE DEF new
  <1>2. Guarded(new)
    BY <1>1 DEF Guarded
  <1>3. RecordExplained(t, new)
    BY <1>1 DEF RecordExplained
  <1> QED BY <1>2, <1>3 DEF new

\* An entry's epoch and key are numbers.
LEMMA EntryTyped ==
    ASSUME NEW l \in Ledger, NEW s \in DOMAIN l
    PROVE  /\ s \in Managed!Slots /\ l[s] \in Managed!LedgerRecord
           /\ l[s].epoch \in Nat /\ l[s].key \in Nat
  <1>1. s \in Managed!Slots /\ l[s] \in Managed!LedgerRecord
    BY LedgerIsFunction
  <1> QED BY <1>1, OrderedAssumption DEF Managed!LedgerRecord

\* Replacing one entry by another that is explained keeps the ledger explained.
LEMMA PutExplained ==
    ASSUME NEW t, NEW l, LedgerExplained(t, l), NEW s, NEW e, EntryExplained(t, s, e)
    PROVE  LedgerExplained(t, Managed!Put(l, s, e))
  <1> DEFINE new == Managed!Put(l, s, e)
  <1>1. DOMAIN new = DOMAIN l \cup {s}
    BY DEF Managed!Put
  <1>2. \A x \in DOMAIN l \cup {s} : new[x] = IF x = s THEN e ELSE l[x]
    BY DEF Managed!Put
  <1> HIDE DEF new
  <1>3. DOMAIN t.ledger \subseteq DOMAIN new
    BY <1>1 DEF LedgerExplained
  <1>4. ASSUME NEW x \in DOMAIN new PROVE EntryExplained(t, x, new[x])
    <2>1. CASE x = s
      BY <1>1, <1>2, <2>1
    <2>2. CASE x # s
      <3>1. x \in DOMAIN l /\ new[x] = l[x]
        BY <1>1, <1>2, <2>2
      <3> QED BY <3>1 DEF LedgerExplained
    <2> QED BY <2>1, <2>2
  <1>5. LedgerExplained(t, new)
    BY <1>3, <1>4 DEF LedgerExplained
  <1> QED BY <1>5 DEF new

\* Retirement and reactivation leave what an entry binds, and only raise its epoch.
LEMMA LifecycleExplained ==
    ASSUME NEW t, t.ledger \in Ledger, NEW c \in Managed!Config, NEW l \in Ledger,
           LedgerExplained(t, l), ~c.retired => ~Managed!ReactivationRefused(c, l)
    PROVE  LedgerExplained(t, Managed!Lifecycle(c, l))
  <1> DEFINE new == Managed!Lifecycle(c, l)
  <1>1. DOMAIN new = DOMAIN l
    BY DEF Managed!Lifecycle, Managed!Retire, Managed!Reactivate
  <1>2. ASSUME NEW s \in DOMAIN l
        PROVE  /\ new[s].source = l[s].source /\ new[s].key = l[s].key
               /\ new[s].content = l[s].content /\ new[s].revoked = l[s].revoked
               /\ new[s].epoch = l[s].epoch \/ (new[s].epoch \in Nat /\ new[s].epoch > l[s].epoch)
    <2>1. s \in Managed!Slots /\ l[s] \in Managed!LedgerRecord
      BY EntryTyped
    <2>2. CASE c.retired
      <3>1. new[s] = IF Managed!Served(l[s]) THEN [l[s] EXCEPT !.status = "tombstone"] ELSE l[s]
        BY <2>2 DEF Managed!Lifecycle, Managed!Retire
      <3> HIDE DEF new
      <3> QED BY <2>1, <3>1 DEF Managed!LedgerRecord
    <2>3. CASE ~c.retired /\ s \notin Managed!Tombstones(l)
      BY <2>3 DEF Managed!Lifecycle, Managed!Reactivate
    <2>4. CASE ~c.retired /\ s \in Managed!Tombstones(l)
      <3> DEFINE p == Managed!PlatformOf(s)
      <3>1. new[s] = Managed!Restamp(c, p, l[s])
        BY <2>4 DEF Managed!Lifecycle, Managed!Reactivate
      <3>2. c.epoch[p] > l[s].epoch
        BY <2>4 DEF Managed!ReactivationRefused, Managed!Bumped
      <3>3. c.epoch[p] \in Nat
        <4>1. p \in Platforms
          BY <2>1 DEF Managed!Slots, Managed!PlatformOf
        <4> QED BY <4>1, OrderedAssumption DEF Managed!Config
      <3> HIDE DEF new, p
      <3> QED BY <2>1, <3>1, <3>2, <3>3 DEF Managed!Restamp, Managed!LedgerRecord
    <2> QED BY <2>2, <2>3, <2>4
  <1> HIDE DEF new
  <1>3. ASSUME NEW s \in DOMAIN l PROVE EntryExplained(t, s, new[s])
    <2>1. EntryExplained(t, s, l[s]) /\ l[s].epoch \in Nat /\ l[s].key \in Nat
      BY EntryTyped DEF LedgerExplained
    <2>2. Bound(t, s, new[s])
      BY <1>2, <2>1 DEF EntryExplained, Bound
    <2>3. ASSUME s \in DOMAIN t.ledger
          PROVE  /\ AtLeast(t.ledger[s], new[s])
                 /\ t.ledger[s].revoked /\ ~new[s].revoked =>
                      new[s].epoch > t.ledger[s].epoch \/ Readmits(t, s) # {}
      <3>1. t.ledger[s].epoch \in Nat /\ t.ledger[s].key \in Nat
        BY <2>3, EntryTyped
      <3> QED BY <1>2, <2>1, <2>3, <3>1 DEF EntryExplained, AtLeast
    <2> QED BY <2>2, <2>3 DEF EntryExplained
  <1>4. LedgerExplained(t, new)
    BY <1>1, <1>3 DEF LedgerExplained
  <1> QED BY <1>4 DEF new

LEMMA OverriddenExplained ==
    ASSUME NEW t, t.ledger \in Ledger, NEW st, st.ledger \in Ledger, LedgerExplained(t, st.ledger),
           NEW v \in ManagedRevocation, v \in t.revocations, Matches(st, v)
    PROVE  LedgerExplained(t, OverriddenLedger(st.ledger, v))
  <1> DEFINE l == st.ledger
             s == v.slot
             deleted    == [l[s] EXCEPT !.revoked = TRUE]
             readmitted == [l[s] EXCEPT !.revoked = FALSE, !.content = v.by]
  <1>1. v.scope = "managed" /\ v.op \in {"delete", "readmit"}
    BY DEF ManagedRevocation
  <1>2. /\ s \in DOMAIN l /\ l[s].epoch = v.epoch /\ l[s].source = v.source
        /\ l[s].key = v.key /\ l[s].content = v.content
    BY <1>1 DEF Matches, Managed!CanReadmit, Managed!Expects
  <1>3. l[s] \in Managed!LedgerRecord /\ EntryExplained(t, s, l[s])
    BY <1>2, EntryTyped DEF LedgerExplained
  <1> HIDE DEF l, s
  <1>4. CASE v.op = "delete"
    <2>1. /\ deleted.epoch = l[s].epoch /\ deleted.source = l[s].source
          /\ deleted.key = l[s].key /\ deleted.content = l[s].content /\ deleted.revoked = TRUE
      BY <1>3 DEF Managed!LedgerRecord
    <2> HIDE DEF deleted
    <2>2. EntryExplained(t, s, deleted)
      BY <1>3, <2>1 DEF EntryExplained, Bound, AtLeast
    <2>3. LedgerExplained(t, Managed!Put(l, s, deleted))
      BY <2>2, PutExplained DEF l
    <2> QED BY <1>4, <2>3 DEF OverriddenLedger, Managed!Delete, deleted, l, s
  <1>5. CASE v.op = "readmit"
    <2>1. /\ readmitted.epoch = l[s].epoch /\ readmitted.source = l[s].source
          /\ readmitted.key = l[s].key /\ readmitted.content = v.by
      BY <1>3 DEF Managed!LedgerRecord
    <2>2. v \in Readmits(t, s)
      BY <1>1, <1>5 DEF Readmits, s
    <2> HIDE DEF readmitted
    <2>3. EntryExplained(t, s, readmitted)
      BY <1>2, <1>3, <2>1, <2>2 DEF EntryExplained, Bound, AtLeast
    <2>4. LedgerExplained(t, Managed!Put(l, s, readmitted))
      BY <2>3, PutExplained DEF l
    <2>5. v.op # "delete"
      BY <1>5
    <2> QED BY <2>4, <2>5 DEF OverriddenLedger, Managed!Readmit, readmitted, l, s
  <1> QED BY <1>1, <1>4, <1>5

LEMMA AppliedExplained ==
    ASSUME NEW t, t.ledger \in Ledger, NEW c, NEW l \in Ledger, LedgerExplained(t, l),
           NEW r \in Managed!PendingRecord, r \in t.pending, Managed!Applies(c, l, r)
    PROVE  LedgerExplained(t, Managed!ApplyRecord(l, r))
  <1> DEFINE s == r.slot
             e == [epoch |-> r.epoch, source |-> r.source, key |-> r.key,
                   content |-> r.content, status |-> "active", revoked |-> FALSE]
  <1>1. /\ e.epoch = r.epoch /\ e.source = r.source /\ e.key = r.key
        /\ e.content = r.content /\ ~e.revoked
    OBVIOUS
  <1>2. e.epoch \in Nat /\ e.key \in Nat
    BY <1>1, OrderedAssumption DEF Managed!PendingRecord
  <1> HIDE DEF e
  <1>3. Bound(t, s, e)
    BY <1>1 DEF Bound
  <1>4. ASSUME s \in DOMAIN t.ledger
        PROVE  /\ AtLeast(t.ledger[s], e)
               /\ t.ledger[s].revoked =>
                      e.epoch > t.ledger[s].epoch \/ Readmits(t, s) # {}
    <2>1. s \in DOMAIN l
      BY <1>4 DEF LedgerExplained
    <2>2. /\ l[s].epoch \in Nat /\ l[s].key \in Nat
          /\ t.ledger[s].epoch \in Nat /\ t.ledger[s].key \in Nat
      BY <1>4, <2>1, EntryTyped
    <2>3. /\ AtLeast(t.ledger[s], l[s])
          /\ t.ledger[s].revoked /\ ~l[s].revoked =>
                l[s].epoch > t.ledger[s].epoch \/ Readmits(t, s) # {}
      BY <1>4, <2>1 DEF LedgerExplained, EntryExplained
    <2>4. CASE Managed!Supersedes(l, r)
      <3>1. l[s].epoch < e.epoch
        BY <1>1, <2>1, <2>4 DEF Managed!Supersedes
      <3>2. e.epoch > t.ledger[s].epoch
        BY <1>2, <2>2, <2>3, <3>1 DEF AtLeast
      <3> QED BY <3>2 DEF AtLeast
    <2>5. CASE Managed!Newer(l, r)
      <3>1. /\ l[s].epoch = e.epoch /\ l[s].source = e.source
            /\ ~l[s].revoked /\ e.key > l[s].key
        BY <1>1, <2>5 DEF Managed!Newer, Managed!Comparable
      <3> QED BY <1>2, <2>2, <2>3, <3>1 DEF AtLeast
    <2> QED BY <2>4, <2>5 DEF Managed!Applies
  <1>5. EntryExplained(t, s, e)
    BY <1>3, <1>4 DEF EntryExplained
  <1>6. LedgerExplained(t, Managed!Put(l, s, e))
    <2> HIDE DEF s
    <2> QED BY <1>5, PutExplained
  <1> QED BY <1>6 DEF Managed!ApplyRecord, e

------------------------------------------------------------------------------
\* A tree explains itself.
LEMMA NothingChanged ==
    ASSUME NEW t \in Tree, Guarded(t.record)
    PROVE  Kept(t, t)
  <1>1. t.record \in Record /\ t.ledger \in Ledger
    BY TreeTyped
  <1>2. t.record.floor \in Nat
    BY <1>1, RecordTyped
  <1>3. RecordExplained(t, t.record)
    BY <1>2 DEF RecordExplained
  <1>4. ASSUME NEW s \in DOMAIN t.ledger PROVE EntryExplained(t, s, t.ledger[s])
    <2>1. t.ledger[s].epoch \in Nat /\ t.ledger[s].key \in Nat
      BY <1>1, EntryTyped
    <2> QED BY <2>1 DEF EntryExplained, Bound, AtLeast
  <1> QED BY <1>3, <1>4 DEF Kept, Explained, LedgerExplained

\* Only record, ledger and the two queues are looked at.
LEMMA KeptBy ==
    ASSUME NEW t, NEW u, NEW w, Guarded(w.record), RecordExplained(t, w.record),
           LedgerExplained(t, w.ledger), Kept(t, u),
           w.pending \subseteq u.pending, w.revocations \subseteq u.revocations
    PROVE  Kept(t, w)
  BY DEF Kept, Explained

LEMMA Rewritten ==
    ASSUME NEW u, DOMAIN u = DOMAIN Genesis({}), NEW record, NEW ledger, NEW affected
    PROVE  LET w == Rewrite(u, record, ledger, affected)
           IN  /\ w.record = record /\ w.ledger = ledger
               /\ w.pending = u.pending /\ w.revocations = u.revocations
  BY DEF Rewrite, Genesis

LEMMA TreeDomain ==
    ASSUME NEW u \in Tree
    PROVE  /\ DOMAIN u = DOMAIN Genesis({})
           /\ LET w == [u EXCEPT !.revocations = {}]
              IN  /\ DOMAIN w = DOMAIN u /\ w.pending = u.pending /\ w.revocations = {}
           /\ LET w == [u EXCEPT !.pending = {}]
              IN  /\ DOMAIN w = DOMAIN u /\ w.pending = {} /\ w.revocations = u.revocations
  BY DEF Tree, Genesis

LEMMA LifecycleKept ==
    ASSUME NEW t \in Tree, NEW u, Coherent(u), Kept(t, u), ~LifecycleFails(u)
    PROVE  Kept(t, AfterLifecycle(u))
  <1> DEFINE record == SettledRecord(u)
             ledger == Managed!Lifecycle(u.line, u.ledger)
             w      == Rewrite(u, record, ledger, Changed(u, record, ledger))
  <1>1. /\ u \in Tree /\ u.record \in Record /\ u.ledger \in Ledger
        /\ u.line \in Managed!Config /\ t.ledger \in Ledger
    BY TreeTyped DEF Coherent, Framed
  <1>2. Guarded(record) /\ RecordExplained(t, record)
    BY <1>1, SettledExplained DEF Kept, Explained
  <1>3. LedgerExplained(t, ledger)
    BY <1>1, LifecycleExplained DEF Kept, Explained, LifecycleFails
  <1> HIDE DEF record, ledger
  <1>4. /\ w.record = record /\ w.ledger = ledger
        /\ w.pending = u.pending /\ w.revocations = u.revocations
    BY <1>1, TreeDomain, Rewritten
  <1> HIDE DEF w
  <1>5. Kept(t, w)
    BY <1>2, <1>3, <1>4, KeptBy
  <1> QED BY <1>5 DEF AfterLifecycle, w, record, ledger

LEMMA RevocationsKept ==
    ASSUME NEW t \in Tree, NEW u, Coherent(u), Kept(t, u),
           NEW files \in SetToSeqs(u.revocations)
    PROVE  Kept(t, AfterRevocations(u, Revoked(u, files)))
  <1> DEFINE S == {s \in RevokedStates(u) : /\ Guarded(s.record) /\ RecordExplained(t, s.record)
                                            /\ LedgerExplained(t, s.ledger)}
             st == Revoked(u, files)
             cleared == [u EXCEPT !.revocations = {}]
             w == Rewrite(cleared, st.record, st.ledger, {v.scope : v \in u.revocations})
  <1>1. u \in Tree /\ t.ledger \in Ledger
    BY TreeTyped DEF Coherent, Framed
  <1>2. StateOf(u) \in S
    <2>1. StateOf(u) \in RevokedStates(u)
      BY TreeTyped DEF StateOf, RevokedStates, State, Coherent, Framed
    <2>2. StateOf(u).record = u.record /\ StateOf(u).ledger = u.ledger
      BY DEF StateOf
    <2> QED BY <2>1, <2>2 DEF Kept, Explained
  <1>3. ASSUME NEW s \in S, NEW v \in u.revocations PROVE Overridden(s, v) \in S
    <2>1. s \in RevokedStates(u) /\ Guarded(s.record) /\ RecordExplained(t, s.record)
                                 /\ LedgerExplained(t, s.ledger)
      OBVIOUS
    <2>2. s \in State /\ s.record \in Record /\ s.ledger \in Ledger
      BY <2>1 DEF RevokedStates, State
    <2>3. v \in t.revocations /\ v \in ScrapedRevocation \cup ManagedRevocation
      BY <1>1, TreeTyped DEF Kept
    <2>4. Overridden(s, v) \in RevokedStates(u)
      BY <2>1, OverriddenStays
    <2>5. CASE ~(s.ok /\ Matches(s, v))
      <3>1. Overridden(s, v).record = s.record /\ Overridden(s, v).ledger = s.ledger
        BY <2>2, <2>5 DEF Overridden, State
      <3> QED BY <2>1, <2>4, <3>1
    <2>6. CASE s.ok /\ Matches(s, v) /\ v.scope = "scraped"
      <3>1. v \in ScrapedRevocation
        BY <2>3, <2>6 DEF ManagedRevocation
      <3>2. /\ Guarded(OverriddenRecord(s.record, v))
            /\ RecordExplained(t, OverriddenRecord(s.record, v))
        BY <2>1, <2>2, <2>3, <2>6, <3>1, OverrideExplained
      <3>3. /\ Overridden(s, v).record = OverriddenRecord(s.record, v)
            /\ Overridden(s, v).ledger = s.ledger
        BY <2>2, <2>6 DEF Overridden, State
      <3> QED BY <2>1, <2>4, <3>2, <3>3
    <2>7. CASE s.ok /\ Matches(s, v) /\ v.scope # "scraped"
      <3>1. v \in ManagedRevocation
        BY <2>3, <2>7 DEF ScrapedRevocation
      <3>2. LedgerExplained(t, OverriddenLedger(s.ledger, v))
        BY <1>1, <2>1, <2>2, <2>3, <2>7, <3>1, OverriddenExplained
      <3>3. /\ Overridden(s, v).record = s.record
            /\ Overridden(s, v).ledger = OverriddenLedger(s.ledger, v)
        BY <2>2, <2>7 DEF Overridden, State
      <3> QED BY <2>1, <2>4, <3>2, <3>3
    <2> QED BY <2>5, <2>6, <2>7
  <1>4. st \in S
    <2> HIDE DEF S
    <2> QED BY <1>2, <1>3, RevokedStays
  <1>5. /\ Guarded(st.record) /\ RecordExplained(t, st.record) /\ LedgerExplained(t, st.ledger)
    <2> HIDE DEF st
    <2> QED BY <1>4
  <1>6. /\ DOMAIN cleared = DOMAIN Genesis({})
        /\ cleared.pending = u.pending /\ cleared.revocations = {}
    BY <1>1, TreeDomain
  <1> HIDE DEF cleared, st, S
  <1>7. /\ w.record = st.record /\ w.ledger = st.ledger
        /\ w.pending = u.pending /\ w.revocations = {}
    BY <1>6, Rewritten
  <1> HIDE DEF w
  <1>8. Kept(t, w)
    BY <1>5, <1>7, KeptBy
  <1> QED BY <1>8 DEF AfterRevocations, w, cleared, st

LEMMA PendingKept ==
    ASSUME NEW t \in Tree, NEW u, Coherent(u), Kept(t, u),
           NEW files \in SetToSeqs(u.pending)
    PROVE  Kept(t, AfterPending(u, Folded(u, files)))
  <1> DEFINE S == {s \in FoldedStates(u) : LedgerExplained(t, s.ledger)}
             st == Folded(u, files)
             cleared == [u EXCEPT !.pending = {}]
             w == Rewrite(cleared, st.record, st.ledger, Changed(u, st.record, st.ledger))
  <1>1. u \in Tree /\ t.ledger \in Ledger
    BY TreeTyped DEF Coherent, Framed
  <1>2. StateOf(u) \in S
    <2>1. StateOf(u) \in FoldedStates(u)
      BY TreeTyped DEF StateOf, FoldedStates, State, Coherent, Framed
    <2>2. StateOf(u).ledger = u.ledger
      BY DEF StateOf
    <2> QED BY <2>1, <2>2 DEF Kept, Explained
  <1>3. ASSUME NEW s \in S, NEW r \in u.pending PROVE TakenInto(s, u.line, r) \in S
    <2>1. s \in FoldedStates(u) /\ LedgerExplained(t, s.ledger)
      OBVIOUS
    <2>2. s \in State /\ s.ledger \in Ledger
      BY <2>1 DEF FoldedStates, State
    <2>3. r \in t.pending /\ r \in Managed!PendingRecord
      BY <1>1, TreeTyped DEF Kept
    <2>4. TakenInto(s, u.line, r) \in FoldedStates(u)
      BY <2>1, TakenStays
    <2>5. CASE s.ok /\ Managed!Applies(u.line, s.ledger, r)
      <3>1. LedgerExplained(t, Managed!ApplyRecord(s.ledger, r))
        BY <1>1, <2>1, <2>2, <2>3, <2>5, AppliedExplained
      <3>2. TakenInto(s, u.line, r).ledger = Managed!ApplyRecord(s.ledger, r)
        BY <2>2, <2>5 DEF TakenInto, State
      <3> QED BY <2>4, <3>1, <3>2
    <2>6. CASE ~(s.ok /\ Managed!Applies(u.line, s.ledger, r))
      <3>1. TakenInto(s, u.line, r).ledger = s.ledger
        BY <2>2, <2>6 DEF TakenInto, State
      <3> QED BY <2>1, <2>4, <3>1
    <2> QED BY <2>5, <2>6
  <1>4. st \in S
    <2> HIDE DEF S
    <2> QED BY <1>2, <1>3, FoldedStays
  <1>5. st.record = u.record /\ LedgerExplained(t, st.ledger)
    <2> HIDE DEF st
    <2> QED BY <1>4 DEF FoldedStates
  <1>6. /\ DOMAIN cleared = DOMAIN Genesis({})
        /\ cleared.pending = {} /\ cleared.revocations = u.revocations
    BY <1>1, TreeDomain
  <1> HIDE DEF cleared, st, S
  <1>7. /\ w.record = st.record /\ w.ledger = st.ledger
        /\ w.pending = {} /\ w.revocations = u.revocations
    BY <1>6, Rewritten
  <1> HIDE DEF w
  <1>8. Kept(t, w)
    BY <1>5, <1>7, KeptBy DEF Kept, Explained
  <1> QED BY <1>8 DEF AfterPending, w, cleared, st

LEMMA ScrapeKept ==
    ASSUME NEW t \in Tree, NEW u, Coherent(u), Kept(t, u), NEW f \in Feeds
    PROVE  Kept(t, AfterScrape(u, f))
  <1> DEFINE record == Scraped!Reconcile(u.record, f.offers)
             w == Rewrite(u, record, u.ledger, {"scraped"})
  <1>1. u \in Tree /\ u.record \in Record /\ t.record \in Record
    BY TreeTyped DEF Coherent, Framed
  <1>2. /\ f.offers \in SUBSET Scraped!Tuple /\ IsFiniteSet(f.offers)
        /\ OneTuplePerVersion(f.offers)
    BY FeedsAssumption DEF Feed, OneTuplePerVersion
  <1>3. Guarded(record) /\ RecordExplained(t, record)
    BY <1>1, <1>2, ReconcileExplained DEF Kept, Explained
  <1> HIDE DEF record
  <1>4. /\ w.record = record /\ w.ledger = u.ledger
        /\ w.pending = u.pending /\ w.revocations = u.revocations
    BY <1>1, TreeDomain, Rewritten
  <1> HIDE DEF w
  <1>5. Kept(t, w)
    BY <1>3, <1>4, KeptBy DEF Kept, Explained
  <1> QED BY <1>5 DEF AfterScrape, w, record

------------------------------------------------------------------------------
\* The first tree serves one version, and the floor is there.
LEMMA InitGuarded == ASSUME Init PROVE EInv
  <1>1. PICK t \in Scraped!Tuple : main = Genesis({t})
    BY DEF Init
  <1> DEFINE r == Scraped!Seed({t})
             floor == Scraped!HighWater(Scraped!NoFloor, {t})
  <1>2. main.record = r
    BY <1>1 DEF Genesis
  <1>3. r.tuples \subseteq {t} /\ r.revoked = {} /\ r.floor = floor
    BY DEF Scraped!Seed, Scraped!EmptyRecord, Scraped!Newest
  <1>4. t.version <= floor
    <2>1. {t} \in SUBSET Scraped!Tuple /\ IsFiniteSet({t}) /\ Scraped!NoFloor \in Nat
      BY FS_Singleton DEF Scraped!NoFloor
    <2> HIDE DEF floor
    <2>2. \A v \in Scraped!VersionsOf({t}) \cup {Scraped!NoFloor} : v <= floor
      BY <2>1, HighWaterIsMax DEF floor
    <2> QED BY <2>2 DEF Scraped!VersionsOf
  <1> HIDE DEF r, floor
  <1>5. Guarded(r)
    BY <1>3, <1>4 DEF Guarded, OneTuplePerVersion
  <1> QED BY <1>2, <1>5, IdleRests DEF Init, EInv, Working

LEMMA StepExplained ==
    ASSUME IInv, CInv, EInv, [Next]_vars
    PROVE  EInv' /\ [Explained(main, main')]_vars
  <1> USE DEF EInv
  <1> DEFINE Goal == EInv' /\ [Explained(main, main')]_vars
  <1>1. /\ main \in Tree /\ Kept(main, main)
        /\ Coherent(job.work) /\ job.from \in Tree /\ feed \in Feeds
    BY NothingChanged DEF CInv, Coherent, Framed
  <1>2. ASSUME main' = main PROVE Explained(main, main')
    BY <1>1, <1>2 DEF Kept
  <1>3. ASSUME main' = main, job'.phase \in {"idle", "fetch"} PROVE Goal
    BY <1>2, <1>3 DEF Working
  <1>4. ASSUME Stop, main' = main PROVE Goal
    BY <1>3, <1>4, IdleRests DEF Stop
  <1>5. ASSUME Working, main' = main, NEW phase, NEW t, Kept(job.from, t), Proceed(phase, t)
        PROVE  Goal
    <2>1. job'.work = t /\ job'.from = job.from
      BY <1>5 DEF IInv, Proceed
    <2> QED BY <1>2, <1>5, <2>1 DEF Kept
  <1>6. CASE Start
    BY <1>3, <1>6 DEF Start, UnchangedByJob, IInv
  <1>7. CASE Fetch
    <2>1. job'.from = main /\ job'.work = main /\ main' = main
      BY <1>7 DEF Fetch, UnchangedByJob
    <2> QED BY <1>1, <1>2, <2>1
  <1>8. CASE ApplyLifecycle
    <2>1. CASE LifecycleFails(job.work)
      BY <1>4, <1>8, <2>1 DEF ApplyLifecycle, UnchangedByJob
    <2>2. CASE ~LifecycleFails(job.work)
      <3>1. Working /\ main' = main /\ Proceed("revocations", AfterLifecycle(job.work))
        BY <1>8, <2>2 DEF ApplyLifecycle, UnchangedByJob, Working
      <3>2. Kept(job.from, AfterLifecycle(job.work))
        BY <1>1, <2>2, <3>1, LifecycleKept
      <3> QED BY <1>5, <3>1, <3>2
    <2> QED BY <2>1, <2>2
  <1>9. CASE ApplyRevocations
    <2>1. PICK files \in SetToSeqs(job.work.revocations) :
              \/ Proceed("pending", AfterRevocations(job.work, Revoked(job.work, files)))
              \/ Stop
      BY <1>9 DEF ApplyRevocations
    <2>2. Working /\ main' = main
      BY <1>9 DEF ApplyRevocations, UnchangedByJob, Working
    <2>3. Kept(job.from, AfterRevocations(job.work, Revoked(job.work, files)))
      BY <1>1, <2>2, RevocationsKept
    <2> QED BY <1>4, <1>5, <2>1, <2>2, <2>3
  <1>10. CASE ApplyPending
    <2>1. PICK files \in SetToSeqs(job.work.pending) :
              \/ Proceed("scrape", AfterPending(job.work, Folded(job.work, files)))
              \/ Stop
      BY <1>10 DEF ApplyPending
    <2>2. Working /\ main' = main
      BY <1>10 DEF ApplyPending, UnchangedByJob, Working
    <2>3. Kept(job.from, AfterPending(job.work, Folded(job.work, files)))
      BY <1>1, <2>2, PendingKept
    <2> QED BY <1>4, <1>5, <2>1, <2>2, <2>3
  <1>11. CASE Scrape
    <2>1. Working /\ main' = main /\ (Proceed("validate", AfterScrape(job.work, feed)) \/ Stop)
      BY <1>11 DEF Scrape, UnchangedByJob, Working
    <2>2. Kept(job.from, AfterScrape(job.work, feed))
      BY <1>1, <2>1, ScrapeKept
    <2> QED BY <1>4, <1>5, <2>1, <2>2
  <1>12. CASE Validate
    <2>1. Working /\ main' = main /\ (Proceed("sign", job.work) \/ Stop)
      BY <1>12 DEF Validate, UnchangedByJob, Working
    <2> QED BY <1>4, <1>5, <2>1
  <1>13. CASE Sign
    <2> DEFINE new    == {c \in Components : NeedsResign(job.work, c)}
               signed == [c \in Components |-> IF c \in new THEN job.work.doc[c]
                                                            ELSE job.work.signed[c]]
               work   == [job.work EXCEPT !.signed = signed]
    <2>1. job.work \in Tree /\ Working /\ main' = main
      BY <1>1, <1>13 DEF Coherent, Framed, Sign, UnchangedByJob, Working
    <2>2. job' = [job EXCEPT !.phase = "commit", !.resigned = new, !.work = work]
      BY <1>13, <2>1 DEF Sign, CInv, Job, Tree
    <2> HIDE DEF signed, new
    <2>3. /\ work.record = job.work.record /\ work.ledger = job.work.ledger
          /\ work.pending = job.work.pending /\ work.revocations = job.work.revocations
      BY <2>1 DEF Tree
    <2> HIDE DEF work
    <2>4. job'.from = job.from /\ job'.work = work
      BY <2>2 DEF CInv, Job
    <2>5. Kept(job.from, work)
      BY <2>1, <2>3 DEF Kept, Explained
    <2> QED BY <1>2, <2>1, <2>4, <2>5
  <1>14. CASE CommitRun
    <2>1. Working /\ main' = main /\ (Proceed("push", job.work) \/ Stop)
      BY <1>14 DEF CommitRun, UnchangedByJob, Working
    <2> QED BY <1>4, <1>5, <2>1
  <1>15. ASSUME Retry PROVE job'.phase \in {"idle", "fetch"}
    BY <1>15, IdleRests DEF Retry, Idle
  <1>16. CASE Push \/ PushUnconfirmed
    <2>1. job.phase = "push" /\ ~job.stale /\ main' = job.work
      BY <1>16 DEF Push, PushUnconfirmed, Land
    <2>2. job'.phase \in {"idle", "fetch"}
      BY <1>15, <1>16, IdleRests DEF Push, PushUnconfirmed, Stop
    <2>3. job.from = main /\ Kept(main, main')
      BY <2>1 DEF IInv, WorkSound, Working
    <2> QED BY <2>2, <2>3 DEF Working, Kept
  <1>17. CASE PushRejected
    BY <1>3, <1>15, <1>17 DEF PushRejected, UnchangedByJob
  <1>18. ASSUME NEW t, t.record = main.record, t.ledger = main.ledger, Commit(t) PROVE Goal
    <2>1. main' = t /\ job'.phase = job.phase /\ job'.work = job.work /\ job'.from = job.from
      BY <1>18 DEF Commit, CInv, Job
    <2>2. Explained(main, main')
      BY <1>1, <1>18, <2>1 DEF Kept, Explained
    <2> QED BY <1>18, <2>1, <2>2 DEF Working
  <1>19. CASE \E b \in BOOLEAN : SetRetired(b)
    BY <1>1, <1>18, <1>19 DEF SetRetired, Tree
  <1>20. CASE \E c \in Managed!Config : Reconfigure(c)
    BY <1>1, <1>18, <1>20 DEF Reconfigure, Tree
  <1>21. CASE \E r \in Managed!PendingRecord : Finalize(r)
    BY <1>1, <1>18, <1>21 DEF Finalize, Tree
  <1>22. CASE \E v \in ScrapedRevocation \cup ManagedRevocation : Revoke(v) \/ Withdraw(v)
    BY <1>1, <1>18, <1>22 DEF Revoke, Withdraw, Tree
  <1>23. ASSUME main' = main, job' = job PROVE Goal
    BY <1>2, <1>23 DEF Working
  <1>24. CASE FeedMoves \/ \E c \in Components : Age(c)
    BY <1>23, <1>24 DEF FeedMoves, Age
  <1>25. CASE Crash
    BY <1>4, <1>25 DEF Crash
  <1>26. CASE UNCHANGED vars
    BY <1>23, <1>26 DEF vars
  <1> QED BY <1>6, <1>7, <1>8, <1>9, <1>10, <1>11, <1>12, <1>13, <1>14, <1>16, <1>17, <1>19,
             <1>20, <1>21, <1>22, <1>24, <1>25, <1>26 DEF Next, RunStep, Others

LEMMA AlwaysExplained == Spec => [](IInv /\ CInv /\ EInv)
  <1>1. Init => EInv
    BY InitGuarded
  <1>2. IInv /\ CInv /\ EInv /\ [Next]_vars => EInv'
    BY StepExplained
  <1> QED BY <1>1, <1>2, AlwaysCoherent, PTL DEF Spec

(* Whatever one run strings together -- a retirement, reviewed overrides,  *)
(* the queue, a refresh -- the record it lands never holds a version above *)
(* its floor, a revoked version beside the served one, or two tuples of    *)
(* one version: reconcile_key and apply_scraped each rely on that and      *)
(* neither checks it.                                                      *)
THEOREM GuardHolds == Spec => []Guarded(main.record)
  <1>1. EInv => Guarded(main.record)
    BY DEF EInv
  <1> QED BY <1>1, AlwaysExplained, PTL

(* Nothing lands unexplained.  Between two trees of main the floor does    *)
(* not sink; a served tuple is new only above the old floor or because a   *)
(* queued override put it there, and a version is gone only past a raised  *)
(* floor or by a queued delete; a ledger entry never disappears, never     *)
(* goes back in epoch or key, binds only what it bound before, what a leg  *)
(* queued or what a readmission says, and is unrevoked only by a greater   *)
(* epoch or a queued readmission.                                          *)
THEOREM ChangesExplained == Spec => [][Explained(main, main')]_vars
  <1>1. IInv /\ CInv /\ EInv /\ [Next]_vars => [Explained(main, main')]_vars
    BY StepExplained
  <1> QED BY <1>1, AlwaysExplained, PTL DEF Spec
==============================================================================
