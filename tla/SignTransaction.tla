---------------------------- MODULE SignTransaction ----------------------------
(***************************************************************************)
(* The whole scrape-and-sign transaction (ci/scrape-sign-push.sh) against  *)
(* everyone else who writes main.                                          *)
(*                                                                         *)
(* main is one tree: configuration, both state files, the published        *)
(* documents with their signatures, and the two queues.  A run fetches it, *)
(* rewrites its copy script by script, validates, signs, checks the        *)
(* history and pushes.  A script that fails ends the run (set -e), and the *)
(* copy is gone.  A push that loses the race starts over from the new tip. *)
(*                                                                         *)
(* Two components stand for the two kinds there are: "scraped", with one   *)
(* scrape key, and "managed", with one line in the ordering ledger.        *)
(***************************************************************************)
EXTENDS Naturals, Sequences, SequencesExt

CONSTANTS ScrapedVersions, ScrapedContents, Retain,
          OtherLines,     \* whether the scraped component has other, populated lines
          Versions, Platforms, Sources, Built, Epochs, Keys, Contents,
          MaxAttempts,    \* pushes the loop tries, 5 in the script
          Feeds,          \* bound: states of the upstream feed
          Retirable,      \* bound: components whose line a config commit may retire
          MaxEdits        \* bound: commits by others and crashes, in total

ASSUME ScrapedAssumption == /\ ScrapedVersions \subseteq Nat \ {0}
                            /\ Retain \in Nat \ {0}
ASSUME OrderedAssumption == /\ Epochs \subseteq Nat \ {0} /\ Epochs # {}
                            /\ Keys \subseteq Nat \ {0}
                            /\ Sources # {}
ASSUME BoundsAssumption  == MaxAttempts \in Nat \ {0} /\ MaxEdits \in Nat

Scraped == INSTANCE ScrapeRules WITH Versions <- ScrapedVersions,
                                     Contents <- ScrapedContents
Managed == INSTANCE LedgerRules

VARIABLES main,       \* the tree at the tip of main
          job,        \* the signing run
          aged,       \* components whose signature on main is over seven days old
          feed,       \* what the scraped component's upstream says now
          planned,    \* items some plan has emitted: their legs may finish at any time
          published,  \* history: every <<component, document>> main has served
          edits       \* bound: how much of MaxEdits is used

vars == <<main, job, aged, feed, planned, published, edits>>

Components == {"scraped", "managed"}

Asset    == [slot : Managed!Slots, content : Contents]
Bodies   == (SUBSET Scraped!Tuple) \cup (SUBSET Asset)
Document == [revision : Nat \ {0}, body : Bodies]

ScrapedRevocation == [scope : {"scraped"}, op : {"delete", "replace", "readmit"},
                      tuple : Scraped!Tuple, by : ScrapedContents]
ManagedRevocation == [scope : {"managed"}, op : {"delete", "readmit"}, slot : Managed!Slots,
                      epoch : Epochs, source : Sources, key : Keys, content : Contents,
                      by : Contents]

Tree == [retired : BOOLEAN,                        \* the scraped line's flag
         line    : Managed!Config,
         record  : Scraped!ScrapeRecord,
         ledger  : Managed!Ledger,
         doc     : [Components -> Document],       \* <component>.json
         signed  : [Components -> Document],       \* what each .minisig signs
         pending : SUBSET Managed!PendingRecord,
         revocations : SUBSET (ScrapedRevocation \cup ManagedRevocation)]

Feed == [up : BOOLEAN, offers : SUBSET Scraped!Tuple]

\* An adapter offers a line's newest release: never two tuples of one version.
ASSUME FeedsAssumption ==
    \A f \in Feeds : /\ f \in Feed /\ IsFiniteSet(f.offers)
                      /\ \A t, u \in f.offers : t.version = u.version => t = u

Phases == {"idle", "fetch", "lifecycle", "revocations", "pending", "scrape",
           "validate", "sign", "commit", "push"}

Job == [phase : Phases, attempt : 0..MaxAttempts, stale : BOOLEAN,
        from : Tree, work : Tree, resigned : SUBSET Components]

------------------------------------------------------------------------------
(* Rebuilding a manifest. *)

Recompose(record, ledger) ==
    [scraped |-> Scraped!Published(record),
     managed |-> {[slot |-> s, content |-> ledger[s].content] :
                     s \in {x \in DOMAIN ledger : Managed!Served(ledger[x])}}]

\* schema.resolve: the revision grows exactly when the bytes change.
Resolve(old, body) ==
    [revision |-> IF body = old.body THEN old.revision ELSE old.revision + 1,
     body     |-> body]

\* The tree after a script: new state, and the affected manifests rebuilt.
Rewrite(t, record, ledger, affected) ==
    [t EXCEPT !.record = record, !.ledger = ledger,
              !.doc = [c \in Components |->
                          IF c \in affected
                          THEN Resolve(t.doc[c], Recompose(record, ledger)[c])
                          ELSE t.doc[c]]]

Changed(t, record, ledger) == {c \in Components : \/ c = "scraped" /\ record # t.record
                                                  \/ c = "managed" /\ ledger # t.ledger}

------------------------------------------------------------------------------
(* The scripts: when each one fails, and the tree it leaves otherwise. *)

LifecycleFails(t) == ~t.line.retired /\ Managed!ReactivationRefused(t.line, t.ledger)

\* A line with nothing to serve is not retired.
SettledRecord(t) ==
    IF ~t.retired THEN Scraped!ReactivateScrape(t.record)
    ELSE IF t.record.tuples = {} THEN t.record
    ELSE Scraped!RetireScrape(t.record, t.doc["scraped"].body)

AfterLifecycle(t) ==
    LET record == SettledRecord(t)
        ledger == Managed!Lifecycle(t.line, t.ledger)
    IN  Rewrite(t, record, ledger, Changed(t, record, ledger))

Matches(st, v) ==
    \/ v.scope = "scraped" /\ v.op # "readmit" /\ v.tuple \in st.record.tuples
    \/ v.scope = "scraped" /\ v.op = "readmit" /\ v.tuple \in st.record.revoked
    \/ v.scope = "managed" /\ v.op = "delete"  /\ Managed!Expects(st.ledger, v)
    \/ v.scope = "managed" /\ v.op = "readmit" /\ Managed!CanReadmit(st.ledger, v)

OverriddenRecord(record, v) ==
    IF v.op = "delete" THEN Scraped!RevokeDelete(record, v.tuple)
    ELSE IF v.op = "replace" THEN Scraped!RevokeReplace(record, v.tuple, v.by)
         ELSE Scraped!RevokeReadmit(record, v.tuple, v.by)

OverriddenLedger(ledger, v) == IF v.op = "delete" THEN Managed!Delete(ledger, v)
                               ELSE Managed!Readmit(ledger, v, v.by)

Overridden(st, v) ==
    IF ~(st.ok /\ Matches(st, v)) THEN [st EXCEPT !.ok = FALSE]
    ELSE IF v.scope = "scraped" THEN [st EXCEPT !.record = OverriddenRecord(@, v)]
    ELSE [st EXCEPT !.ledger = OverriddenLedger(@, v)]

StateOf(t) == [ok |-> TRUE, record |-> t.record, ledger |-> t.ledger]

\* The files are read by name, which is no order of theirs: any order is possible.
Revoked(t, files) ==
    LET st[i \in 0..Len(files)] ==
            IF i = 0 THEN StateOf(t) ELSE Overridden(st[i - 1], files[i])
    IN  st[Len(files)]

AfterRevocations(t, st) ==
    Rewrite([t EXCEPT !.revocations = {}], st.record, st.ledger,
            {v.scope : v \in t.revocations})

TakenInto(st, line, r) ==
    IF st.ok /\ Managed!Applies(line, st.ledger, r)
    THEN [st EXCEPT !.ledger = Managed!ApplyRecord(@, r)]
    ELSE [st EXCEPT !.ok = @ /\ Managed!Discarded(line, st.ledger, r)]

Folded(t, files) ==
    LET st[i \in 0..Len(files)] ==
            IF i = 0 THEN StateOf(t) ELSE TakenInto(st[i - 1], t.line, files[i])
    IN  st[Len(files)]

\* Slip: the ledger is saved and the manifest is not rebuilt.
AfterPending_NoRebuild(t, st) == Rewrite([t EXCEPT !.pending = {}], st.record, st.ledger, {})

\* Slip: the consumed files are not deleted.
AfterPending_KeepsFiles(t, st) ==
    Rewrite(t, st.record, st.ledger, Changed(t, st.record, st.ledger))

AfterPending(t, st) ==
    Rewrite([t EXCEPT !.pending = {}], st.record, st.ledger,
            Changed(t, st.record, st.ledger))

\* An adapter error, a GuardError, or nothing left for the log line to name.
ScrapeFails(t, f) ==
    \/ ~f.up
    \/ Scraped!Refused(t.record, f.offers)
    \/ ~OtherLines /\ Scraped!Published(Scraped!Reconcile(t.record, f.offers)) = {}

AfterScrape(t, f) ==
    Rewrite(t, Scraped!Reconcile(t.record, f.offers), t.ledger, {"scraped"})

Valid(t) ==
    /\ Scraped!ScrapeParity(t.record, t.doc["scraped"].body)
    /\ Scraped!SnapshotsConsistent(t.record)
    /\ Managed!LedgerParity(t.line, t.ledger)
    /\ t.doc["managed"].body = Recompose(t.record, t.ledger)["managed"]

\* Slip: only the age of a signature is looked at.
NeedsResign_AgeOnly(t, c) == c \in aged

NeedsResign(t, c) == t.signed[c] # t.doc[c] \/ c \in aged

\* check_revision_history: changed bytes need a greater revision.
Monotone(base, head) ==
    \A c \in Components : \/ head.doc[c] = base.doc[c]
                          \/ head.doc[c].revision > base.doc[c].revision

------------------------------------------------------------------------------
(* The other writers of main. *)

Genesis(served) ==
    LET record == Scraped!Seed(served)
    IN  [retired |-> FALSE,
         line    |-> [retired |-> FALSE, managed |-> Platforms,
                      epoch  |-> [p \in Platforms |-> CHOOSE e \in Epochs : \A f \in Epochs : e <= f],
                      source |-> [p \in Platforms |-> CHOOSE x \in Sources : TRUE]],
         record  |-> record,
         ledger  |-> Managed!Empty,
         doc     |-> [c \in Components |->
                         [revision |-> 1, body |-> Recompose(record, Managed!Empty)[c]]],
         signed  |-> [c \in Components |->
                         [revision |-> 1, body |-> Recompose(record, Managed!Empty)[c]]],
         pending |-> {}, revocations |-> {}]

Idle == [phase |-> "idle", attempt |-> 0, stale |-> FALSE,
         from |-> Genesis({}), work |-> Genesis({}), resigned |-> {}]

DocsOf(t) == {<<c, t.doc[c]>> : c \in Components}

Init == /\ \E t \in Scraped!Tuple : main = Genesis({t})
        /\ job = Idle
        /\ aged = {}
        /\ feed \in Feeds
        /\ planned = Managed!Plannable(main.line, main.ledger)
        /\ published = DocsOf(main)
        /\ edits = 0

\* A commit of someone else: a run under way has lost the race.
Commit(t) ==
    /\ edits < MaxEdits /\ edits' = edits + 1
    /\ main' = t
    /\ job' = IF job.phase \in {"idle", "fetch"} THEN job ELSE [job EXCEPT !.stale = TRUE]
    /\ planned' = planned \cup Managed!Plannable(t.line, t.ledger)
    /\ UNCHANGED <<aged, feed, published>>

SetRetired(b) == /\ "scraped" \in Retirable /\ b # main.retired
                 /\ Commit([main EXCEPT !.retired = b])

\* Reviewers never lower an epoch; nothing in the repository checks it.
Reconfigure(c) ==
    /\ c # main.line /\ c.managed = main.line.managed
    /\ c.retired => "managed" \in Retirable
    /\ \A p \in Platforms : c.epoch[p] >= main.line.epoch[p]
    /\ Commit([main EXCEPT !.line = c])

Finalize(r) ==
    /\ [slot |-> r.slot, epoch |-> r.epoch, source |-> r.source] \in planned
    /\ Commit([main EXCEPT !.pending = {q \in @ : Managed!PendingFile(q) # Managed!PendingFile(r)}
                                          \cup {r}])

Revoke(v) ==
    /\ v \notin main.revocations /\ Matches(StateOf(main), v)
    /\ v.op = "delete" => v.by = (IF v.scope = "scraped" THEN v.tuple.content ELSE v.content)
    /\ Commit([main EXCEPT !.revocations = @ \cup {v}])

Withdraw(v) == /\ v \in main.revocations
               /\ Commit([main EXCEPT !.revocations = @ \ {v}])

FeedMoves == /\ feed' \in Feeds \ {feed}
             /\ UNCHANGED <<main, job, aged, planned, published, edits>>

Age(c) == /\ c \notin aged /\ aged' = aged \cup {c}
          /\ UNCHANGED <<main, job, feed, planned, published, edits>>

------------------------------------------------------------------------------
(* The signing run. *)

UnchangedByJob == UNCHANGED <<main, aged, feed, planned, published, edits>>

Proceed(phase, t) == job' = [job EXCEPT !.phase = phase, !.work = t]
Stop == job' = Idle

Start == /\ job.phase = "idle"
         /\ job' = [job EXCEPT !.phase = "fetch", !.attempt = 1]
         /\ UnchangedByJob

Fetch == /\ job.phase = "fetch"
         /\ job' = [phase |-> "lifecycle", attempt |-> job.attempt, stale |-> FALSE,
                    from |-> main, work |-> main, resigned |-> {}]
         /\ UnchangedByJob

ApplyLifecycle ==
    /\ job.phase = "lifecycle"
    /\ IF LifecycleFails(job.work) THEN Stop ELSE Proceed("revocations", AfterLifecycle(job.work))
    /\ UnchangedByJob

ApplyRevocations ==
    /\ job.phase = "revocations"
    /\ \E files \in SetToSeqs(job.work.revocations) :
          LET st == Revoked(job.work, files)
          IN  IF st.ok THEN Proceed("pending", AfterRevocations(job.work, st)) ELSE Stop
    /\ UnchangedByJob

ApplyPending ==
    /\ job.phase = "pending"
    /\ \E files \in SetToSeqs(job.work.pending) :
          LET st == Folded(job.work, files)
          IN  IF st.ok THEN Proceed("scrape", AfterPending(job.work, st)) ELSE Stop
    /\ UnchangedByJob

Scrape ==
    /\ job.phase = "scrape"
    /\ IF ScrapeFails(job.work, feed) THEN Stop
       ELSE Proceed("validate", AfterScrape(job.work, feed))
    /\ UnchangedByJob

Validate == /\ job.phase = "validate"
            /\ IF Valid(job.work) THEN Proceed("sign", job.work) ELSE Stop
            /\ UnchangedByJob

Sign ==
    /\ job.phase = "sign"
    /\ LET new == {c \in Components : NeedsResign(job.work, c)}
       IN  job' = [job EXCEPT !.phase = "commit", !.resigned = new,
                              !.work.signed = [c \in Components |->
                                  IF c \in new THEN job.work.doc[c] ELSE @[c]]]
    /\ UnchangedByJob

\* Nothing to commit ends the run; so does a failed gate.
CommitRun ==
    /\ job.phase = "commit"
    /\ IF /\ job.work # job.from \/ job.resigned # {}
          /\ Monotone(job.from, job.work)
       THEN Proceed("push", job.work) ELSE Stop
    /\ UnchangedByJob

\* Slip: one attempt too many.
Retry_OneMore == job' = IF job.attempt <= MaxAttempts
                        THEN [Idle EXCEPT !.phase = "fetch", !.attempt = job.attempt + 1]
                        ELSE Idle

Retry == job' = IF job.attempt < MaxAttempts
                THEN [Idle EXCEPT !.phase = "fetch", !.attempt = job.attempt + 1]
                ELSE Idle

Land == /\ main' = job.work
        /\ aged' = aged \ job.resigned
        /\ planned' = planned \cup Managed!Plannable(job.work.line, job.work.ledger)
        /\ published' = published \cup DocsOf(job.work)
        /\ UNCHANGED <<feed, edits>>

\* Slip: the push is forced, whatever has landed since the fetch.
Push_Forced == job.phase = "push" /\ Land /\ Stop

\* The push is a compare-and-swap on the tip.
Push == job.phase = "push" /\ ~job.stale /\ Land /\ Stop

\* It landed, and its answer was lost.
PushUnconfirmed == job.phase = "push" /\ ~job.stale /\ Land /\ Retry

PushRejected == job.phase = "push" /\ job.stale /\ Retry /\ UnchangedByJob

Crash == /\ job.phase # "idle" /\ edits < MaxEdits /\ edits' = edits + 1
         /\ Stop
         /\ UNCHANGED <<main, aged, feed, planned, published>>

RunStep == \/ Start \/ Fetch \/ ApplyLifecycle \/ ApplyRevocations \/ ApplyPending
           \/ Scrape \/ Validate \/ Sign \/ CommitRun
           \/ Push \/ PushUnconfirmed \/ PushRejected

Others == \/ \E b \in BOOLEAN : SetRetired(b)
          \/ \E c \in Managed!Config : Reconfigure(c)
          \/ \E r \in Managed!PendingRecord : Finalize(r)
          \/ \E v \in ScrapedRevocation \cup ManagedRevocation : Revoke(v) \/ Withdraw(v)
          \/ FeedMoves
          \/ \E c \in Components : Age(c)
          \/ Crash

Next == RunStep \/ Others

\* The run is started daily and on demand, and its runner makes progress.
Spec == Init /\ [][Next]_vars /\ WF_vars(RunStep)

------------------------------------------------------------------------------
TypeOK == /\ main \in Tree /\ job \in Job /\ feed \in Feed
          /\ aged \subseteq Components /\ planned \subseteq Managed!PlannedItem
          /\ published \subseteq Components \X Document
          /\ edits \in 0..MaxEdits

Promise == INSTANCE PublishedManifest WITH doc <- main.doc

(* Every commit on main keeps the promise to the clients: whatever scripts *)
(* rewrote a document in one run, and however often, its revision is       *)
(* greater than that of every document served before it.                   *)
KeepsPromise == Promise!Spec

(* main is never signature-invalid: the document and its signature land in *)
(* one commit (scrape-and-sign.yml:9-11).                                  *)
SignedServed == \A c \in Components : main.signed[c] = main.doc[c]

(* The scripts hand each gate a tree it accepts, whatever queue files they *)
(* consumed: validation fails for one reason only, a scrape record that    *)
(* has been tombstoned, and the history check never fails.                 *)
GatesHold ==
    /\ job.phase = "validate" => (Valid(job.work) <=> job.work.record.status = "active")
    /\ job.phase = "commit" => Monotone(job.from, job.work)

Landed == job.phase = "push" /\ job'.phase # "push" /\ main' # main

TakesOnlyWhatItRead ==
    Landed => /\ main.pending \subseteq job.from.pending
              /\ main.revocations \subseteq job.from.revocations
              /\ main'.line = main.line /\ main'.retired = main.retired

(* A push overwrites nobody: a pending record, a revocation or a config    *)
(* commit that reached main while the run was working is neither consumed  *)
(* unread nor rolled back.                                                 *)
OverwritesNobody == [][TakesOnlyWhatItRead]_vars

WouldFail ==
    \/ LifecycleFails(main)
    \/ LET a == AfterLifecycle(main) IN
       \E fs \in SetToSeqs(a.revocations) :
          LET r == Revoked(a, fs)
              b == AfterRevocations(a, r)
          IN  \/ ~r.ok
              \/ \E ps \in SetToSeqs(b.pending) :
                    LET d == Folded(b, ps)
                        e == AfterPending(b, d)
                    IN  ~d.ok \/ ScrapeFails(e, feed) \/ ~Valid(AfterScrape(e, feed))

Settled == /\ main.pending = {} /\ main.revocations = {}
           /\ AfterLifecycle(main) = main

(* Unless every run is refused for what it reads, everything queued is     *)
(* consumed, the lifecycle settles and every signature that ages is        *)
(* refreshed, again and again: races, lost answers, crashes and exhausted  *)
(* attempts only delay it.                                                 *)
Converges == <>[]~WouldFail => /\ []<>Settled
                               /\ \A c \in Components : []<>(c \notin aged)

(* What revoke.py:17-18 says of a scraped delete: the version "stays in    *)
(* the record's `revoked` list so the scraper suppresses it regardless of  *)
(* the floor".  So a reviewed delete of a version that is still served as  *)
(* reviewed takes effect, although the feed keeps listing it.              *)
RevocationLands ==
    \A v \in ScrapedRevocation :
        (v.op = "delete" /\ v \in main.revocations /\ v.tuple \in main.record.tuples)
            ~> (v \notin main.revocations \/ v.tuple \notin main.record.tuples)

(* What lifecycle.py:15-17 says: the consumption side of a tombstone, "the *)
(* validators' tombstone exemptions" among it, "already exists".  So a     *)
(* line retired in the config is eventually tombstoned.                    *)
RetirementLands ==
    main.retired ~> (~main.retired \/ main.record.status = "tombstone")
==============================================================================
