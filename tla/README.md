# Verification of the DevXDK manifest pipeline

This directory holds TLA+ models of the pipeline that maintains the public
manifests of this repository, the TLC configurations that check them on small
instances, and proofs, checked by TLAPS, that the most important properties hold
for every instance.

## 1. The system

The branch `main` of a public git repository is the database. It holds the
published manifests `<component>.json` with their signatures, two state files, two
queues of files, the configuration, and an append-only journal of builds. GitHub
Pages serves `main` to the clients. A client keeps, for each component, a mark: the
revision and the hash of the last document it accepted. It refuses a document of a
lower revision, and one of equal revision and another hash.

Writers of `main` and how each writes:

| writer | when | how |
|---|---|---|
| signing run, `ci/scrape-sign-push.sh` | daily and on demand, one at a time | fetch, reset, five scripts, sign, gates, push; 5 attempts |
| `finalize_builds.py` | end of a build operation | fetch, reset, write `pending/`, gates, push; 5 attempts |
| `transactions.append` (journal) | before the upload of a build | fetch, reset, append, gates, push; 5 attempts |
| people | whenever | reviewed commits of config, revocation files, reverts |

A push is a compare-and-swap on the tip: git rejects it when the tip has moved.

### Inventory

| component | state it keeps | operations | hard behaviour | what makes it correct |
|---|---|---|---|---|
| scrape guard (`merge.py`, `revoke.py`) | per (component, line, platform): tuples, floor, revoked, status, snapshots | reconcile a feed, delete, replace, readmit, retire, reactivate | feeds that roll back, republish or list again what was evicted | published bytes do not change; nothing evicted or revoked returns by itself |
| ordering ledger (`pending.py`, `merge.py`, `revoke.py`, `lifecycle.py`) | per (component, version, platform): epoch, source, key, tuple, status, revoked | classify and fold records, delete, readmit, retire, reactivate | legs that finish late, twice or out of order; migrations; revocations under review while records land | entries only move forward; the newest record wins; revocations and tombstones hold |
| signing run | a working copy of the whole tree | lifecycle, revocations, pending, scrape, validate, sign, gates, push | races, lost answers, crashes, scripts that fail half-way | nothing unread is consumed; what lands is coherent and signed; the queues drain |
| revisions and gate (`schema.py`, `ci/check_revision_history.py`) | `revision` in each manifest | next revision; compare two trees | commits by people that no generator saw | a client that accepted any earlier document accepts the present one |
| planner (`plan.py`, `plan_builds.py`) | none of its own; reads tree, releases, receipts, upstream | resolve versions, pick mode and revision | reruns of older operations, stale reads, epoch bumps, changed pins | a revision is given out once; what was interrupted is taken up again |
| build pipeline (`publish_legs.py`, `publication.py`, `receipts.py`, `handoff.py`, `transactions.py`) | operations, receipts, artifacts | run legs, authenticate, journal, publish, finalize, observe | crash between journal, upload and finalize; partial operations | what is published is what was journalled; a rerun converges |
| release reconciliation (`releasepub.py`) | a GitHub Release and its assets | create draft, upload, verify, undraft | interrupted uploads, a list endpoint that lags | no public binary without its source; public bytes never replaced |
| signing keys (`ci/scrape-sign-push.sh`, `ci_verify.py`) | committed keys, secret, rotation records, signatures and their stamps | push of a key, check-keys, assertion, re-sign by key, age and skew, FORCE_RESIGN | a run that asserted one key and meets another, clocks that are wrong, stages of a rotation | no client is left without a manifest it can verify; no key is replaced unreported |
| comparators (`versions.py`) | none | compare versions and provider keys | prereleases, numeric width | total orders consistent with equality |
| resolvers (`resolvers.py`) and adopt recipes | none | find the newest version of a line and its assets | listings in any order, releases before their assets, assets that are replaced | the newest stable version is found; what is published is what a receipt vouches for |
| adapters, fetch, strict JSON, config parsing, build recipes | none | parse, fetch, build | malformed input | outside these models |

Interaction is through files on `main` only: `finalize` writes `pending/`, people
write `revocations/` and `config/`, the signing run consumes them and rewrites
state, manifests and signatures in one commit.

## 2. The modules

    ScrapeRules ----> ScrapeGuard ----> ScrapeGuardProofs     one scrape key
        |                  `----------> MCScrapeGuard
        |
        |   LedgerRules ----> Ledger ----> LedgerProofs       one line of the ledger
        |       |                `-------> MCLedger
        v       v
      SignTransaction --(implements)--> PublishedManifest     the whole run
        |-> SignProofs
        `-> MCSignTransaction

      RevisionHistory ----> RevisionHistoryProofs             commits and the gate
              `-----------> MCRevisionHistory

      ReleasePub ----> ReleaseProofs                          one release and its runs
          `----------> MCReleasePub

      TrustKeys ----> TrustKeysProofs                         keys and ages of signatures
          `---------> MCTrustKeys

      LedgerRules ----> Planner ----> PlannerProofs           the revisions of a built slot
          |                `--------> MCPlanner
          `-----> Adopted ----> AdoptedProofs                 the adopted assets of a line
      VersionOrder --'  `-----> MCAdopted

The *rules* modules hold the code's pure functions as operators, so that the small
models (`ScrapeGuard`, `Ledger`), which are exhaustive in depth, and the composed ones
(`SignTransaction`, exhaustive in interleavings of one run; `Planner` and `Adopted`, the
build operations with the fold at their end) use the same definitions.

**ScrapeRules / ScrapeGuard.** `rec` is one `ScrapeRecord`. Versions are ranks (only
their order matters), the five other fields of a tuple are one content. `Scrape` is
`reconcile_key` on any set of candidates with one tuple per version; `Delete`,
`Replace` and `Readmit` are `apply_scraped`. `floor_version = None` is `NoFloor`. Three
history variables (what was ever held, authorised by a reviewer, evicted) are read
by the properties only.

**LedgerRules / Ledger.** The ledger of one line: a function from the slots it has
entries for to `LedgerRecord`. `classify` is split into one operator per reason
(`LineActive`, `PreMigration`, `Binds`, `Supersedes`, `Newer`, `Stale`), combined into
`Applies` and `Discarded`; a record that satisfies neither is a `PendingError`, and the
model can only abort. Files are folded one at a time and in any order. A platform's
(provider, ordering kind) pair is one source. `planned` remembers every item some plan
has emitted, because a leg may finish at any later time. The working copy of a run is
in `run`; a commit by anyone else marks it `stale`, and a stale copy can only be
discarded, so its further steps are not modelled.

**SignTransaction.** `main` is the whole tree with one scraped and one managed
component, and `job` the run: the tree it fetched, its working copy and its phase. One
action per script; each contains the whole script, including the preflight, the
rebuilt manifests with their next revision and the deleted queue files. A script that
fails stops the run (`set -e`). `PushUnconfirmed` is a push that landed but was
reported as failed. `Others` are config commits, finalize, revocation files, the feed,
the ageing of signatures, and crashes.

**PublishedManifest.** What `main` promises clients, with no mention of how it is
produced: each component's document is replaced only by one of greater revision.
Theorem `ImplementsPromise` shows that `SignTransaction` implements it.

**RevisionHistory.** Whole trees pushed by anyone, and `check(base, head)` comparing each
with the tip it replaces. Here people may commit anything, including deletions,
hand-edits, partial backfills and reverts.

**TrustKeys.** `keyfile` are the committed public keys, `secret` the signing key, `sig` the
signature of each manifest: by which key, of which age, and whether it verifies at all.
`PushKeys` is a push of people together with what `check_keys` says of it; it takes the
rotation records the push adds as input, signed by anyone. A run waits in `queue` with
the key of the checkout it was triggered with, and reads the secret and the clock when it
starts. `Rebuild` is one round of the loop up to the commit; which manifests the scripts
rewrite is arbitrary. Ages are relative to the present, so time is the action `Tick`,
which bounds how long no run with a working clock lands (`MaxGap`). What a client accepts
is modelled from the numbers that scrape-sign-push.sh:77-92 gives.

**Planner.** The built revisions of one (version, platform), over any number of runs of
`build-runtimes`. `op` is the operation that runs, with the epoch and the pins of the
commit it was started from and what its leg handed over; `past` is the one before, which
may be run again. `Plan` is `build_leg_map` for the slot, `Leg` is `run_leg`, `Journal` the
receipt check of `publish` with the commit of the receipts, `Upload` what
`reconcile_release` makes of an archive that is public or absent, `Finalize` the queued
record, and `Sign` the signing run as one step. `Repair` is the forced run that a red run
asks for (`NeedsForce`), `Repack` one that nobody needs.

**VersionOrder.** The comparators of `versions.py` on what their parsers cut a string
into: runs of digits with their value, runs of text with their place in byte order.
`Resolved` is the one pass over a listing that `hashes_newest`, `nginx_newest` and
`theseus_newest` share.

**Adopted.** The jobs of `Planner` for assets that are neither built nor uploaded, for a
whole line and an upstream that moves: it publishes versions in any order (`Publish`),
completes them later (`Attach`) and replaces their bytes (`Replace`). The ordering key of a
record is the rank of its source version under `compare_provider_key`, the slot its
manifest version under `Name`. Files are folded in the order of their names (`ReadBefore`).
The signing run refuses a file and with it every other one; `Withdraw` is the person who
then removes it.

**ReleasePub.** One revision of one version, from the dispatch of `build-runtimes` to the
pending records. `release` and `asset` are the GitHub Release of the tag; `receipt`,
`queued` and `manifest` are what `main` holds of it; `phase`, `op`, `todo`, `leg` and
`done` are the job that runs, with what its legs handed over. The concurrency group runs
one operation at a time, but `Rerun` runs the present or the previous one again with the
artifacts it has. `RecoverLeg` and `RefuseLeg` are `run_leg.recover`, `Journal` and
`SkipLeg` the loop of `publish`. Each call of `reconcile_release` that changes the release
is an action (`Create`, `Delete`, `Upload`, `Cleanup`, `Undraft`) that may succeed, fail
(`CallFails`), leave damage (`BadUpload`) or take effect and lose its answer (the second
disjunct of `Call`). A leg has one source and one archive; sources may be shared, and
their bytes are those upstream published. Publish takes the legs in any order, which
covers the sorted order of the code for every naming of the platforms. The names a
manifest references are those of the operation's checkout (`refs`), which may be behind
the tip. Plan and legs hold a read-only token, and GitHub lists drafts only to those who
can push: `DraftsListed` says whether they see the assets of a draft, and the proofs
hold for both answers. A completed recovery hands over exactly the bytes of the receipt
(it authenticates the original artifact), which is `LegEnds(p, receipt[p])`.

## 3. What the runs check

All bounds are CONSTANTS named as such in the modules. `CHECK_DEADLOCK FALSE` appears
only in the `RevisionHistory` run, whose bounded number of commits runs out.

| run | distinct states | instance | shows |
|---|---|---|---|
| `scrape_guard` | 76,737 | 4 versions, 2 contents, retain 2, 2 candidates | floor, immutability, eviction, revocation |
| `ledger` | 1,881,839 | 1 slot, 1 source, 2 epochs, 2 keys, 2 contents, 1 queued record and 1 revocation | order, newest record, tombstone fence, bound bytes, sticky revocations, settled lifecycle |
| `sign_transaction` | 566,868 | 2 scraped versions with retain 1, 1 managed slot, 2 epochs, 3 edits, 2 attempts | signed, coherent, overwrites nobody, converges |
| `release_publication` | 1,347,203 | 2 platforms sharing a source, 2 builds, 2 faults, drafts hidden from legs | source before code, immutable bytes, served records, convergence |
| `revision_history` | 70,240 | 2 files, 2 bodies, revisions to 3, 3 commits | the gate protects clients |
| `trust_keys` | 1,411,050 | 2 manifests, 2 keys, 4 rotation records, 2 edits, clocks 4 days ahead and 5 back, 1 queued run, 2 attempts | nothing freezes, keys are reported, rotations complete |
| `planner` | 581,296 | 1 slot, 2 epochs, 3 revisions, 2 pins, 2 builds, 3 edits, faults and reruns | public bytes, growing revisions, convergence |
| `adopted` | 279,972 | theseus: 4 versions under 2 names, 2 contents, 3 revisions, 3 edits | newest resolved, vouched bytes, no regress, convergence |

Why the bounds suffice. Four versions against a retention of two let a version be
published, evicted by two newer ones and offered again, next to a deleted one. In `ledger`
a record overtakes another because finalize may queue it at any time, also between the
fetch and the push of a run that has read the other; two epochs are what a migration
needs. Providers that change, several records in one queue and platforms that leave the
config are beyond that instance (883,275 states with two sources and two queued records
were checked in their own run), and the proofs below carry the ledger's properties to any
number of them; `Planner` and `Adopted` fold several queued records at once. Three edits are what a race needs: a queue file read
by the run, a commit that makes it stale, and one more during the retry. Two attempts
reach both the retry and the exhaustion of retries. Two files and three commits let
one file vanish and return while the other keeps the gate from the bootstrap rule.
Two platforms are what it takes for one leg to make a release public that another leg
is still to join; two builds, for an older operation to come back with other bytes; two
faults, for a damaged upload and the failure of the attempt that repairs it. With a
source for each platform, drafts listed to the legs and one fault (430,141 states) the
same properties hold.

In `trust_keys` a signature is renewed after one day, refused after three, and a run lands
at least every second day, which is the relation that the script states for 7, 90 and
the daily cron (`AgeAssumption`). Two edits are what a rotation takes (the key file and
the secret, in either order) or a deleted key that comes back; two manifests are what it
takes for a run to rewrite one and leave the other. In `planner` three edits let an
operation be overtaken by a second one (a forced build, an epoch bump) and be run again
after it; a third revision is the one that the repair needs. In `adopted` the four
versions differ where the orders could: 1.0.10 is newer than 1.0.2 and a smaller text,
1.1.0 has another name, 1.1.1-rc is a prerelease.

`MCAdopted` also states `OrdersRank`, which TLC evaluates before the run: over versions
with one to four numbers, leading zeros, prefixes and prereleases, and over prereleases
and keys of up to two identifiers of nine kinds, each comparator numbers its elements.
So it is a total order up to equality, and a sort, a floor and a maximum by it mean
something. `AdoptedProofs` shows the same for versions and keys of any length.

A property that holds says something only if a plausible slip in the code breaks it.
Each property of a passing run is paired in `PROJECT.json` with a mutated definition
(the operators commented `Slip`) under which TLC finds it violated: a floor recomputed
from what is served, a retention that trims every run, an equal key accepted again, a
forced push, signatures refreshed by age only, queue files that are not deleted, and so
on.

### Disagreements with the documentation

Four runs check one statement of a document or comment each, and TLC finds it violated:

* `sign_retirement`, `RetirementLands`: `lifecycle.py:15-17` says that the validators'
  tombstone exemptions exist. `check_scrape_parity` (merge.py:624-627, 658-659) expects
  the tuples of tombstoned records in the manifest, from which `recompose` has removed
  them. Retiring a scraped line makes every later run fail at validation.
* `sign_revocation`, `RevocationLands`: `revoke.py:17-18` says that the scraper
  suppresses a revoked version. `reconcile_key` (merge.py:514-515) raises instead, so a
  delete cannot land while the feed still lists the version, and nothing else lands.
* `release_undraft`, `UndraftedVerified`: `releasepub.py:11-13` says that a draft is made
  public only after every member is present and verified. The test knows the members of
  one leg: an archive that another leg left damaged in the draft becomes public with it,
  and from then on nothing may replace it.
* `adopted_force`, `ForcedAccepted`: plan.py:156-157 says that force "publishes the next
  unused revision even when up to date". The record of an adopted asset is ordered by its
  source version, and the version has not changed. With the same bytes the record is
  discarded; with other bytes, which astral brings under a new tag, it is an equal-key
  conflict (pending.py:149-153) that fails every signing run until the file is removed.

Met on the way, and not given a run of their own:

* `lifecycle.py:10-13` says that the epoch bump at reactivation makes records from before
  the retirement pre-migration. A bump made before the retirement satisfies the check at
  line 75 as well; records planned between the two carry the configured epoch and apply.
* `README.md:118-121` offers `git revert` of a bad manifest commit as recovery, which
  `ci/check_revision_history.py:6-9` itself calls a rollback for every client; and the
  workflow that signs has no push trigger.
* After an epoch bump, a revision that is published but not accepted has no receipt of
  the new epoch: the `PlanError` of its slot (plan.py:286) ends the plan of every
  component until someone forces a revision. After a bump with an accepted entry, nothing
  rebuilds it by itself; only coverage reports it.
* A later 18.4.x of theseus has the manifest version 18.4 and is not planned while the
  manifest has 18.4 (`decide`), although resolvers.py:206-208 and plan.py:210-214 say that
  it supersedes. A receipt of an older source version of the same name is refused as
  another identity, and the plan fails until it is forced.
* Two operations of different epochs may hold receipts for one archive name, since the
  name has no epoch; the second upload is refused, so nothing dangles (`RecordsPublic`),
  and the operation stays red.

### Fairness

`SignTransaction` assumes weak fairness of the run's own steps, and of nothing else.
The workflow is started by a daily cron and its concurrency group queues a start rather
than dropping it (scrape-and-sign.yml:18-34); a runner that started a script finishes
it. Commits by others, feed changes, ageing and crashes need never happen, and there
are finitely many commits and crashes (`MaxEdits`), because a run that loses every race
for ever cannot be expected to converge. The feed may change and signatures may age
without bound. `Converges` requires nothing of a run that is refused for
what it reads: `WouldFail` is exactly the disjunction of the scripts' failures on the
tip, and the ways a tip can get stuck there are the business of the two violation runs
and of the hazards listed in `PROJECT.json`.

`ReleasePub` assumes weak fairness of the job's steps (a runner goes on with a job it
started) and strong fairness of `Plan(Uncovered)`: the weekly cron dispatches all
platforms that lack a build, and `queue: max` keeps that run waiting while others hold the
concurrency group instead of dropping it, so it gets its turn if it can be had again and
again. Nobody has to rerun anything, and the number of faults is finite (`MaxFaults`).
`Converges` requires that every platform is accepted in the end, unless some platform
stays `Stuck`: the bytes of its receipt are neither in the release nor in an artifact
that still exists, or other bytes are public under its name. The recovery refuses such
a leg on purpose, and a reviewer has to issue a new revision.

`TrustKeys` assumes weak fairness of the signing runs together: cron triggers, queued runs
start, a started run goes on. That runs with a working clock land often enough is not
fairness but the bound `MaxGap` on `Tick`. `Recovers` is about tips where secret and
committed key agree for good.

`Planner` and `Adopted` assume weak fairness of the jobs and of the signing run, and strong
fairness of `Scheduled` for the same reason as `Plan(Uncovered)` above. Strong fairness of
`Repair` is about people: a plan that fails with "force a new revision" is forced sooner
or later, and so is a tip whose coverage stays red. Edits, reruns, expiries and faults are
finite (`MaxEdits`). `Adopted` also has weak fairness of `Withdraw`: a file that makes every
signing run fail is removed by somebody.

## 4. What is proved

All proofs are checked to the last leaf, from the assumptions on constants named in
the modules, which TLC also evaluates:

* the shape of data: `VersionsAssumption`, `SourcesAssumption`, `OrdersAssumption`,
  `ScrapedAssumption`, `OrderedAssumption`, `KeysAssumption`, `BuildsAssumption`,
  `PinsAssumption`, `MembersAssumption`, `TargetAssumption`, `RevisionsAssumption`,
  `ValuesAssumption` and `TextsAssumption` (what the parsers cut out of a string),
  `WrittenAssumption` and `ListedAssumption` (what a listing may hold), `NoneAssumption`,
  `NoReceiptAssumption`, `NoBytesAssumption` (values that stand for nothing);
* what the code is configured with: `RetainAssumption`, `SkewAssumption`, `AgeAssumption`,
  `ListAssumption`, `ProviderAssumption`;
* what the upstreams do: `FeedsAssumption`, one tuple per version in a feed (each adapter
  takes the newest release of a line); `NamesAssumption` and `FullAssumption`, an adopted
  version that is eligible has three numbers and nothing behind them;
* bounds that are numbers, of any size: `BoundsAssumption`, `HistoryAssumption`,
  `FaultsAssumption`, `EditsAssumption`, `MaxEditsAssumption`.

* **ScrapeGuardProofs**: all six properties of `ScrapeGuard`. They are not inductive:
  that a version below the floor is never admitted protects old bytes only if every
  version the key ever touched is at or below the floor. `IInv` adds that (`Bounded`)
  and that what is on record is finite, was held, and is accounted for by the floor
  (`OnRecord`). The proof shows that the floor alone suppresses a revoked version:
  the `revoked` test in `reconcile_key` adds no safety and only turns the offer into an
  error, which is what `sign_revocation` stumbles on.
* **LedgerProofs**: all seven properties of `Ledger`, for any slots, sources, epochs, keys,
  contents and queue sizes. The action properties are about one `Push`, but a push
  publishes a copy computed over many steps, so `IInv` relates a copy that is not stale
  to the ledger it was fetched from (`LiveRun`): it is ahead in order, holds every
  record folded so far or a newer one, keeps revocations and tombstones, and agrees
  with the history. That relation is preserved by each step of the run and dropped as
  soon as the copy is stale.
* **RevisionHistoryProofs**: `GreenMeansSafe`, for any files, bodies, revisions and number
  of commits. `CheckKeepsMarks` is the core: a passed push keeps every mark that the
  replaced tip accepted, because a mark on a file rules out the bootstrap exemption.
* **ReleaseProofs**: the five safety properties of `ReleasePub`, for any platforms, any
  sharing of sources, any builds and any number of faults. The properties speak of a
  public release, and what makes them true is arranged earlier, so `IInv` says it of a
  draft as well: an archive is there only if its source is (`SourceBefore`), the leg
  being reconciled is journalled with the bytes it handed over (`HandedOver`), how far
  the loop over its members has come (`LoopSound`), and a leg counted as done is served
  (`DoneServed`). That sources match across operations rests on upstream's bytes being
  fixed. That public bytes are never replaced rests on the test for a draft; the test
  for names that manifests reference adds nothing to it, which is why a stale checkout
  is harmless.
* **SignProofs**, in four steps, each from the ones before and each for any number of
  edits, crashes, attempts and queue files.
  `IInv` says that a working copy has only advanced from the tree it was fetched as, and
  that this tree is still the tip unless the copy is stale. So `SignTransaction` implements
  `PublishedManifest`, and as advancing one document at a time keeps marks of any age
  acceptable (`ClientsServed`), no client is locked out (`ClientsAreServed`). Nothing is
  assumed about what the folds over queue files compute: this holds for any script that
  writes documents through `schema.resolve`. (TLC agrees on the instance of
  `sign_transaction`; the property is not in that run because the generator and the gate
  each suffice for it, so that no single slip can break it.)
  `SInv` adds the configuration that no script writes and the signatures that are made
  last: `SignedServed` and `OverwritesNobody`, again for any scripts.
  `CInv` is about what the scripts do write. Every tree, on main or in a run, is coherent:
  its documents are what its state says, a record holds snapshots exactly while it is a
  tombstone, its line covers its platforms, its queues are finite. A script that rebuilds
  what it changed keeps that (`RewriteKeeps`), and what each file of a queue keeps, the
  queue keeps in whichever order it is read (`PassExists`, `PassKeeps`). So main stays in
  its domains (`TypeOK`), and no gate turns a run down for what its own scripts left
  (`GatesHold`), except for a tombstoned record, which is what `sign_retirement` shows.
  `EInv` says that a working copy is explained by the tree it was fetched as (`Kept`).
  `ScrapeGuard` and `Ledger` have the rules of each state file on its own, one operation
  at a time; a landing applies a lifecycle change, overrides, queued records and a refresh
  in a row. `GuardHolds`: no such row leaves a version above the floor, a revoked version
  beside the served one, or two tuples of one version. `ChangesExplained`: between two
  trees of main, floors, epochs and keys never go back, and whatever is new, gone or no
  longer revoked is so because of the feed above the old floor, a record queued in the old
  tree, an override queued in it, or a greater epoch. TLC agrees on the instance of
  `sign_transaction`; no run repeats it, since each rule it composes has a property in the
  runs of `ScrapeGuard` and `Ledger`.
* **AdoptedProofs**: the comparators are total preorders on versions and provider keys of
  any length (`VersionsOrdered`, `KeysOrdered`): each is a lexicographic comparison, and
  what distinguishes them, padding with zeros, prereleases, the dropped prefix, is brought
  to that form. One pass over a listing then finds a newest eligible version
  (`NewestResolved`), in whatever order the listing comes. `RankIsVersionOrder`: the key by
  which the ledger ranks an adopted version agrees with the comparison that resolved it,
  although they are different functions, because an adopted version has all its numbers.
  `IInv` is types, a finite queue, planned versions that are eligible, and a finalizing leg
  whose receipt is on main; `RecordsReceipted` follows, and `FoldGrows` shows that a fold
  in any order never lowers an entry, which gives `SourceNeverRegresses`.
* **TrustKeysProofs**: the four safety properties of `TrustKeys`, for any manifests, keys,
  records, clocks and bounds that satisfy the two inequalities of the script's comments.
  `NeverRefused` holds because a signature that is on main, or in a copy that may still
  be pushed, is never older than the refresh age plus the time since a run with a working
  clock looked at it (`AgeInv`): a run that lands leaves only young ones, and whatever lands
  later was rebuilt from what it found. `NormalRunVerifies` needs that an unforced run signs
  with the key it was triggered with (`KeyOK`), and `InstallsAuthorized` that a key file
  that is absent but was there has its path in the history (`AnchorOK`).
* **PlannerProofs**: the safety properties of `Planner`, for any epochs, revisions, pins,
  contents and number of reruns. `IInv` follows a decision through its jobs: a revision that
  was planned for a build is above everything known when it was planned, a receipt is on
  main before its archive is public, and the archive of whatever is queued or accepted is
  its content (`Rest`). `RevisionsOnlyGrow` then needs that a record of a later epoch has a
  revision above all those of the earlier one, since the ledger compares no keys across
  epochs.

The library's induction theorems take an operator, which the provers cannot instantiate.
The inductions over listings, versions and queues here are least counterexamples instead
(`LeastExists`, from the well-foundedness of finite sets), and a function defined by
recursion is unfolded from the proof that it exists.

Model-checked only: liveness (`Converges` of `SignTransaction`, `ReleasePub`, `Planner` and
`Adopted`, and `Recovers` of `TrustKeys`), since fairness and ENABLED are outside what the
prover handles. Every safety property of every passing run is a theorem.

## 5. Assumptions and what is not modelled

* Reviewers never lower an epoch. The ledger orders everything by it and nothing in
  the repository checks it.
* A commit is atomic and a push is a compare-and-swap; git and GitHub are trusted there.
* One scraped key and one managed line stand for the components. Interference between
  two platforms of one release in the state files (the copies of its snapshot, the shared
  channel and release date) is not modelled.
* `SignTransaction` knows of a signature only whether it is current or `aged`; keys and
  clocks are those of `TrustKeys`, which in turn leaves the scripts' work on documents
  arbitrary. `DEVXDK_ROTATION_WINDOW`, which no workflow sets, check-keys on pull requests
  and on a zero predecessor, and `verify-signatures` (a comparison of files) are left out.
* In `ReleasePub`, one release has the tag: a list endpoint that lags so far that a
  second draft of the same tag is created is left out, since what GitHub and gh make of
  it is not determined by this repository. The revision is given, not planned; `Planner`
  plans it, with the release reduced to an archive that is public or absent. Drafts and
  single calls are in the former only, and revocations of managed entries in `Ledger`.
* The filters of a dispatch (components, platforms, version), and the observation of
  coverage and of the signing run after the fact (`verify_publication`, `coverage.py`) are
  left out: they narrow a plan or report on it.
* In `Adopted` the configuration stays as it is, upstream withdraws nothing (a leg then
  fails), and a version astral once offered stays on offer. The run URL in a receipt makes
  receipts of different runs differ even for equal bytes; the model takes them as equal.
  The php resolvers take the one version php.net gives.
* Hosts, hashes and shapes of documents (`validate_manifests`, `strictjson`, adapters,
  `config.py`) are left out: they reject malformed input and keep no state. So are `fetch.py`'s
  retries, the build recipes and the consistency reports (`ci/check_versions.py` and the
  other CI helpers), which decide nothing about the published state.

## 6. Order of work

The modules were written in this order, each with its run and, where it has one, its
proof: `ScrapeRules` and `ScrapeGuard`; `LedgerRules` and `Ledger`; `SignTransaction` over
`PublishedManifest`; `RevisionHistory`; `ReleasePub`; `TrustKeys`; `Planner`;
`VersionOrder` and `Adopted`.

What would come next:

1. `Snapshots`: a release over two platforms in both state files, retired, revoked,
   readmitted and reactivated, with `check_snapshot_consistency` over both.
2. A configuration whose epochs may also go down, once there is a rule for it in the
   repository that a model can be faithful to.
3. That `Ledger` implements an abstract register per slot that only moves forward.
