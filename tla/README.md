# A TLA+ model of paper-boxing

paper-boxing publishes static sites: a backend keeps the sites' files on a data
volume (which nginx serves) and an SQLite database, a web frontend and an MCP
server are clients of its REST API. This directory models the backend, the MCP
server, the frontend's sessions and uploads, the naming rules and the in-memory
backend of the tests in TLA+, checks them with TLC and proves the central
properties with TLAPS.
`PROJECT.json` lists the runs, the lines each definition models, the hazards,
the findings and the theorems.

## Inventory

Paths below are relative to `src/src/paper_boxing/`.

| Component | State it keeps | Operations | Hard behaviour |
|---|---|---|---|
| Storage (`backend/storage.py`, site routes of `backend/routes.py`) | the site folders under `sites/`, `staging/` | upload, delete file, folder, site, create site, list | bodies received without the lock; removals in threads; listings in threads without the lock; stops between two steps |
| File index (`backend/db.py`, `sites` and `files`) | a row per site and per file (size, mtime, digest) | upsert, delete one, delete below, cascade | every call commits alone, so volume and index change apart |
| Site locks (`SiteLocks`) | a lock object per site in use | `hold` | entries dropped and made again; cancelled waiters |
| Accounts (`backend/accounts.py`, `users` and `tokens`) | accounts, sessions, agent tokens | sign in and out, resolve a bearer, tokens, accounts, password | expiry under a clock that steps back; two commits in one request |
| Authorization (`requires`, `common/routes.py`, `common/scopes.py`) | none | decide a call | every class of token against every class of route |
| Start and stop (`backend/app.py`) | none | clean staging, bootstrap, purge | whatever a crash left |
| MCP server (`mcp/`) | none between requests | gate, dispatch, eight tools | token confirmed, then used; two calls of one download; a timeout that hides a call that was done |
| Browser sessions (`frontend/auth.py`, `frontend/layout.py`, the pages' handlers) | one stored session per browser, a token per page | sign in and out, the middleware, the pages' calls, dialogs, downloads | tabs that share a store and hold an old token; handlers that outlive their page |
| Site page (`frontend/pages/site.py`) | the results of the last upload per tab | upload of several files, replace, delete | a batch that runs while the page is used; other people's changes; the session ending |
| Naming (`common/naming.py`) | none | slugs and paths | boundaries of lengths, separators, newlines |
| Client, schemas, configuration (`common/`) | none | translation | what a transport error leaves open |
| Fake backend (`common/fake_backend.py`) | the contract in memory | the same routes | an upload that awaits its body with a site in hand |
| Site server (nginx) | none | serves the volume | no code of this repository |

How they interact: frontend and MCP server call the backend's routes with a
bearer token. A route resolves the token (Accounts), then calls Storage.
Handlers are coroutines of one event loop and the database calls are
synchronous, so a handler is undisturbed by other handlers between two awaits.
The awaits are the request body, the site's lock and removals done in a thread.
A listing runs in a worker thread beside all of that.

What makes each part correct: no file is lost to a request that did not ask for
it; the digests the listings report are those of the files; the index follows
the volume and is put right by listings after a fault; no site's folder comes
back after its removal; staging does not leak; the lock excludes, is fair and
never stalls; what ended stays ended; no token without its account; somebody can
always sign in; only a person's session manages accounts and tokens. At the
tiers above it: nothing is done or shown for a revoked token; an answer is true
of what the backend did; a browser forgets a session for a cause, a sign-out
ends it, and nobody goes round in redirects; every file of an upload has one true
result; a folder's contents go only by choice; a file is accepted by its size
alone; a path has one spelling and stays in its site; and what the tests run
against keeps the contract the real store keeps.

## Modules

| Module | Models | Role |
|---|---|---|
| `SiteStore` | storage, index, locks of one site, staging, start and crash | state machine |
| `SiteStoreProofs` | | theorems about it and about `SiteContract` |
| `SiteQueue` | what the locks promise: one queue per site | abstract specification |
| `SiteLocks` | `SiteLocks.hold` over `asyncio.Lock` | state machine, refines `SiteQueue` |
| `SiteLocksProofs` | | mutual exclusion, entries, one queue per site |
| `Accounts` | accounts, tokens, authorization, start, clock | state machine |
| `AccountsProofs` | | theorems about it |
| `SiteTree` | what the REST contract promises about one site | abstract specification |
| `SiteContract` | | `SiteStore` mapped to `SiteTree` |
| `FakeBackend` | the fake's sites, files and folders | state machine, compared with `SiteTree` |
| `FakeBackendProofs` | | its sites stay trees, its steps are the contract's |
| `McpServer` | gate, dispatch, tools, client, and the backend as they meet it | state machine |
| `McpServerProofs` | | theorems about it |
| `FrontendSession` | browsers, tabs, the stored session, the pages' handlers | state machine |
| `FrontendSessionProofs` | | a session is forgotten for a cause |
| `UploadPage` | the handlers of one tab's site page | state machine |
| `UploadPageProofs` | | theorems about it |
| `FileLimits` | the MCP server's body limit and both caps | state machine |
| `Naming` | slugs and paths | functions, over every short text |
| `SharedRulesProofs` | | theorems about `FileLimits` and `Naming` |
| `MC...` | | constants and symmetry for TLC |

Definitions named `X_Y` next to a definition `X` are faulty variants of it
(marked `Mutant`). They are used by no specification; each shows that a property
notices the fault when it takes the place of `X`.

### SiteStore

One site is the whole state: every operation takes a slug and touches that
slug's folder, rows and lock only.

- `root`, `tree`: the site's folder and what `lstat` finds at each path. A file
  is a version number: a body received whole, with the size and modification
  time that tell it from any other. That two versions always differ in size or
  time is an assumption of the code as well (see the hazards).
- `row`, `files`: the rows in `sites` and `files`. A file's row holds the
  version whose size and time it has and the version whose digest it has; the
  two differ when a listing stats one version and hashes another.
- `queue`: the site's lock as `SiteQueue` promises it, holder first.
- `staged`, `parked`, `litter`: what is in `staging/`.
- `pc`, `req`: the handlers. `"placed"`, `"unlinked"`, `"parked"` and `"made"`
  are places inside a critical section between a change of the volume and the
  commit that follows; no other handler runs there (`Loop`), but listings and
  crashes see them. `"removing"` and `"purging"` are removals in a thread.
- `lpc`, `folder`, `indexed`, `todo`, `seen`, `hashing`: the listings' locals.
  `list_folder` is one action per system call or commit: resolve and lstat, the
  snapshot of rows, scandir, a stat per entry, the hash, the upsert, the drops.
- `quiet` is history: the listings whose store nobody else changed since they
  took their snapshot.
- `Crash` keeps the volume and every commit and forgets the rest; `Restart` is
  the start with `clean_staging`. `RestoreWithout` and `RestoreWith` stand for an
  operator putting back an archive while the service is down.
- `UploadPlaceFails`, `SectionFails` and `CreateSiteFails` are calls that raise;
  what was done stays.

### SiteLocks and SiteQueue

`SiteLocks` keeps the registry (`entries`, `waiting`) and the `asyncio.Lock`
objects (`locked`, `waiters`), which are external and modelled with their
wake-ups: a release resolves the first waiter's future, which takes the lock only
when the loop runs it, and a task may be cancelled before or after. A freed
object's name may be used again. `SiteQueue` says what handlers rely on: first
come, first served, one inside. `IsQueuePerSite` is the refinement; `QueueOf`
maps a site's holder and its waiters that are not cancelled to the queue.

### Accounts

A request is its token's resolution (`Present...`) and then its route's work;
each commit is a step, so a crash or a failed commit may fall between two. `ended` is
history: the tokens a client was told are over. `stale` is history: the sessions
a committed password change is to end. The clock moves to any moment.
A hash stands for its password and a secret for its token.

### SiteTree, SiteContract and FakeBackend

`SiteTree` is the promise: a request that changes the site arrives, takes effect
whole at one moment by the rules, and is answered; a refused one changes
nothing. The rules are `FakeSite`'s and the fake's handlers'. `SiteContract`
maps the real store to it: a site is there from the `mkdir` of its creation to
the rename of its deletion, what a recursive deletion is removing is gone from
its start, and a request is done once its change of the volume is made or begun.
Of two deletions of a site that both found it, both may succeed, which the
contract allows because the real store does it.

In `FakeBackend` only `upload_file` awaits anything, so every other handler is
one step. `objects` are the `FakeSite`s, `sites` the one under the slug and
`held` the one an upload looked up before its body; the two may differ.

### McpServer and FileLimits

A call goes `gate`, `confirm`, `dispatch`, `tool`, `done`; `wire` is its request
to the backend, a step there and a step back. `GivesUp` is the client's timeout
or a lost connection: the request may still be done. The site is one path in one
folder, so that each tool can succeed and fail in every way. A request that
changes the site takes the backend two steps: `BackendAdmits` resolves its token
and looks its site up, then it waits, an upload for its body and all of them for
the site's lock (`locks.hold`), and `BackendServes` does the work on the site as
it then is. The token is not resolved again in between. `did`
and `dead` are history: the calls the backend did and those made with a token
revoked before.

`FileLimits` follows one upload past `_check_declared_length`, `_decode`, the
declared length and the bytes received, with the real formulas. The text is one
line, or lines of 76 characters with `\n` between them; CRLF lines or lines that
are shorter are outside what the limit promises.

### FrontendSession and UploadPage

A browser's `store` is `app.storage.user`; a `page` keeps the token it was built
with; a `task` is a handler under way, one for each of `Handlers`, which bounds
how many there are at a time; `MayBe` bounds the kinds each may be. Nothing waits
for a handler: meanwhile the person may start another on the same page, sign out,
go to another page, or leave a page that is still opening (`Hurry`). A handler
whose page was left (`LeftBehind`, `here` is false) goes on with that page's token
and with the browser's store, so its 401 forgets what is stored by then, and its
sign-in is stored; only its navigation reaches nobody. What it awaits of a dialog
or a download never comes, and NiceGUI may have deleted the page, so that the
handler ends at its next use of it (`Abandoned`).
The pages that list something behave alike and are one kind, `list`; `account`
asks nothing when it is opened.
The calls on sites and agent tokens only matter by being refused or not. An
answer after which a handler only shows a message ends its task (`OnlyShown`). A
call may fail before the backend did it, or after, its answer lost. `signedOut`
is history: the live sessions somebody signed out of whose call has not failed.

`UploadPage` is one open site page: its batches, the Overwrite box, its dialogs,
and what `app.storage.tab` holds. A file's content is its writer. `choice` is
the recursive box as it stood when a folder's deletion was sent. `wrote` is
history: what each batch stored.

### Naming

Strings are sequences of characters, one character for each class the rules tell
apart: two lowercase letters, the first as a capital, the second with an accent
that is stripped, one that has no ASCII form, hyphen, dot, slash, backslash,
newline. `Typing` types one
more, so that every text up to the bound is a state. The functions are folds, as
the code's are passes over a string; none is `RECURSIVE`, so all can be proved
about.

## Runs

| Run | Instance | Shows |
|---|---|---|
| `store_race` | paths `a`, `a/b`; 2 requests, 1 listing, 2 versions, 2 creations, 1 fault, restores | the digests are true, undisturbed listings reconcile and staging is owned, under every interleaving, with a crash, a failed call or a restore at any point |
| `store_contract` | paths `a`, `a/b`, `a/b/c`; 3 requests, 2 versions, 2 creations, no listing, no fault | index exact, folders owned, intent before destruction; the store implements `SiteTree`: overlapping requests behave as atomic ones |
| `store_live` | 2 requests, 1 listing, fair | waiting requests are answered, listings end |
| `store_ghost` | 2 requests, 1 listing | the finding, below |
| `locks` | 4 tasks, 2 sites, 3 objects, fair | exclusion, entries exactly in use, refinement of the queue, no wake-up lost |
| `accounts_safe` | 2 users, 3 tokens, 3 moments, 1 fault | six properties of accounts and tokens |
| `mcp` | one call of every tool and every bad form beside a `list_tools` or an overwriting upload, 1 token of every kind, 1 change by others, fair server | nothing begun for a session or a revoked token though requests wait for a lock, tiers agree, caps hold, answers are true, every call is answered |
| `frontend` | 1 browser, 1 tab, 2 handlers, 2 users, 2 sessions, fair | a good session is forgotten only for a cause, a sign-out ends it, redirects come to rest |
| `upload` | 2 batches, of up to 2 files and of 1; 2 events, fair | a true result for every file, contents go by choice, batches end |
| `fake_safe` | `a`, `a/b`, `a/b/c`; 2 requests, 2 creations | the fake's sites stay trees; in place it keeps the contract |
| `limits` | files of 0 to 122 bytes, caps 115 and 118, chunks of 1 to 3 | stored exactly when within the caps |
| `naming` | texts up to 6 of 8 characters; slugs of 3, paths of 5, segments of 4 bytes | slugs are accepted and spell their names, paths and parents agree with their reference |

Bounds. Two paths where one is the parent of the other are the least that has
files, folders, a file where a folder should be and rows below a folder; three
levels tell the rows directly in a folder from all below it. Two requests and a
listing give every pair of handlers with a thread beside them; three requests
without a listing give an upload overtaken by a deletion and a creation; two
creations give a site deleted and created again; two versions give an overwrite.
Four tasks are a holder, a woken waiter, a cancelled one and a newcomer; three
lock objects let one be dropped and made again while others are in use. Two users
and three tokens give a session beside another of the same user and an agent
token or another user's session; three moments give an expiry and a step back.
Two calls with one token are the least for a token confirmed for one and revoked
for the other; the second call is one of two so that the run stays small. With a
second content above the cap a file may grow between listing and fetch. In
`frontend` the first handler may be any and the second a sign-in, a sign-out or a
call: a sign-in that was left stores another session than the one the page was
built with, a call that was left meets a 401 after a later sign-in. So one tab
has a page, a handler and a store that name different sessions, which is what two
tabs would give; `frontend_tabs.cfg`, to be run by hand since it takes four
minutes, has two tabs with one handler and passes as well. Two sessions let one be
old; browsers share nothing but the accounts. What takes three sessions, more
handlers or more tabs rests on the theorem. In `upload`, a batch of two
files runs beside another batch, and `MaxEvents` counts clicks on the box,
dialogs, changes by others and errors together: two of them let any of these meet
any other. Caps of 115 and 118 are where the base64 text passes a second line of
76 characters, so that a newline decides. The limits of `naming` are a few
characters so that texts go past each of them.
`CHECK_DEADLOCK FALSE`: the bounds on versions, creations, calls, events and
faults run out, and a real client may simply stop asking. Symmetry is over
the names of requests, listings, users and tokens, which nothing tells apart; the
runs with liveness properties use none. The runs spend their properties on what
may go wrong; `store_race` checks `SiteStore`'s `TypeOK`, and the `TypeOK` of
`SiteLocks`, `Accounts`, `McpServer`, `FrontendSession`, `UploadPage` and
`FileLimits` holds too when its name is added to the configuration.

Fairness. `store_live` asks weak fairness of each handler's own steps after its
body has arrived and of each listing: the event loop runs what is ready and
worker threads run. Nothing is asked of clients, so a stalled body may stay for
ever, and must not keep others waiting. `locks` asks the same of woken and
cancelled tasks, and that every section ends, which `store_live` shows. `mcp`
asks it of the MCP server alone: its client has timeouts, so nothing is asked of
the backend. `frontend` and `upload` ask that a browser follows a redirect, that
a call is answered or times out, and that the event loop resumes a handler;
nothing makes a person act.

## Findings

`store_ghost` is checked with the runs: a listing racing `delete_folder` writes a
row for a file in a removed folder; no later listing can drop it, and the site's
totals stay wrong, where the architecture document says that every listing
reconciles the table.

Further configurations, to be run by hand, each end in a counterexample to what a
document, a comment or a dialog says:

| Configuration | Module | Property | What happens |
|---|---|---|---|
| `store_aba.cfg` | `MCSiteStore` | `UploadLandsInItsSite` | an upload whose site was deleted and created again while the body arrived lands in the new site; `storage.py:374` says 404 |
| `store_restore.cfg` | `MCSiteStore` | `StaleRowsAreListable` | rows below a folder missing from a restored archive are never dropped by listings, which `docs/deployment.md:166` says they are |
| `accounts_halfway.cfg` | `MCAccounts` | `PasswordChangeSignsOut` | a password change is two commits; a stop between them leaves the other sessions signed in |
| `mcp_revoked.cfg` | `MCMcpServer` | `RevokedIsRefused` | an upload whose body is arriving, or a deletion that waits for the site's lock, is done after its token is revoked; the dialog at `frontend/pages/tokens.py:112` says agents are refused from now on |
| `frontend_forgets.cfg` | `MCFrontendSession` | `ForgottenIsOver` | a 401 for an old token, to a page that kept it or to a handler whose page was left, forgets the session the browser has now, which may be good; `frontend/layout.py:194` says the session is no longer valid |
| `frontend_unwarned.cfg` | `MCFrontendSession` | `OwnRemovalWarned` | the dialog that removes an account looks up the stored user, the page acts with its own token: with somebody else signed in since, one removes one's own account without the warning |
| `fake_orphan.cfg` | `MCFakeBackend` | `ImplementsContract` | the fake answers 201 to an upload whose site was deleted while its body arrived, where the real backend answers 404; `fake_backend.py:13` says it is a faithful model |
| `naming_newline.cfg` | `MCNaming` | `AcceptedSlugsAreSlugs` | a slug followed by a newline passes `validate_slug`, since `$` matches before it |

Two more were met while modelling the site page and are visible in `UploadPage`:
the Overwrite box is read for every file of a running batch (`Send`), where the
page says it is ticked first; and of two batches that overlap the earlier one's
results may take the place of the later one's (`Remembered`).

## Proofs

For every value of the constants, under the assumptions named in the modules:
`PathTree` and `Bounds` (SiteStore, FakeBackend), `Objects` (SiteLocks),
`Parameters` (Accounts, FrontendSession), `Offers` (McpServer: what a call may
offer is among the requests), `Sizes` (FileLimits), `Alphabet` and `Lengths`
(Naming).
An inductive invariant is needed everywhere; each was an invariant of a TLC run
before it was proved.

`SiteStoreProofs`, with any number of crashes, failed calls and restores:

- `TypeCorrect`: `Spec => []TypeOK`. A section ends with `Tail(queue)`, so the
  types need that whoever is inside a section heads the queue (`SectionHolds`);
  `TypeInv` is the two together.
- `TrustedRows`: `Spec => []TrustedRowsAreTrue`. `TrustInv` adds: what a listing
  has stat'ed and hashed would be true if written (`HashedIsTrue`), no version
  that is still to come is anywhere in the state (`FutureUnseen`), a body being
  received is in no row, file or listing (`BodiesUnseen`), and two bodies are two
  versions (`BodiesDiffer`). A listing may pair the stat of an old version with
  the digest of a newer one; the row is then never trusted, because the old
  version is never at the path again. All but three upload steps and three
  listing steps bring no version into play; one lemma covers them.
- `Staging` (`[]StagingOwned`) and `Intent` (`IntentBeforeDestruction`).
  `WorkInv` adds that no request is under way while the service is down
  (`Down`), that a request names a path of the site (`NamesPath`), and, for the
  removal in a thread, which acts long after its checks: its path is still no
  file, and the folder is still empty or the request asked to recurse
  (`RemovalAsked`), because nobody else changes the tree under the lock.
- `Reconciles`: `[]UndisturbedListingReconciles`. `ListInv` follows a listing
  that nobody disturbed entry by entry: its snapshot is the table it will compare
  with, and each entry it is through with has its right row (`Visits`, one part per
  stage), and the file it hashes is the one on the volume (`Carried`).

`SiteStoreProofs`, with `MaxFaults = 0` as a hypothesis. A fault is exactly where
the code gives these up (a stop between the change of the volume and the commit
that follows), so the hypothesis is what the theorems are about:

- `FolderHasRow`: `[]SiteFolderHasRow`. `CleanInv` says which request is at which
  stage (`Stages`), that what is on the volume is a tree (`VolumeIsTree`), and
  that a site being created or parked has nothing in it (`SiteAgrees`).
- `Index`: `[]IndexKept`, with `Listers = {}` as well, as in its run: a listing
  that races a deletion does break it (`store_ghost`). `IndexInv` says that every
  row is right but those of the request inside its section, and that what this
  one placed or removed is still so when it writes the row (`Landed`).
- `Implements`: `Spec => ImplementsContract`, that is `SiteContract` refines
  `SiteTree`, listings included. What is seen of the store (`TreeSeen`) is the tree
  without what a removal has begun to take; the lemmas go operation by operation:
  the step that changes the volume is the contract's effect, and is allowed on
  the tree as it then is because the checks were made under the same lock
  (`HolderSees`); the steps of a thread that removes what is no longer seen, the
  commits and the listings are stutters; an answer follows an effect, and a
  refusal is one the contract allows.

The other components:

- `SiteLocksProofs!Exclusion` and `EntriesCounted` (`[]MutualExclusion`,
  `[]EntriesInUse`) for any finite set of tasks. `Inv` says which entry each task
  refers to, that `waiting` counts the tasks that do, that a lock is locked
  exactly while one is inside, and who is in which queue; an entry is dropped
  only when the count is one, so nobody is left behind on an old object.
  `QueuePerSite` (`Spec => IsQueuePerSite`): each site's holder and live waiters
  are a queue of `SiteQueue`. The queue seen is the entry's waiters without the
  cancelled ones (`Kept`); `Keeps` and the lemmas after it say what is left of it
  when the lock's queue gains a last task, loses its first or one in between.
  Asking, entering, leaving and giving up map to the actions of that name,
  unwinding a cancelled waiter to a stutter.
- `AccountsProofs!EndedTokens`, `Owners`, `NeverEmpty`. `Inv` adds that a request
  acts with a live token and that what ended is revoked or removed (so it is not
  issued again). `NeverEmpty` needs the finiteness of `UserIds`.
  `PasswordChanges` (`[]SignsOutUnlessFault`), `EndCauses` (`TokensEndForCause`)
  and `Managed` (`ManagementNeedsSession`) need `Inv2`: whoever
  manages something does so with a session (`ActorMayAct`), and before a fault the
  sessions a committed password change is to end are live only until the second
  commit of the same request, which ends them (`StaleEnd`).
- `McpServerProofs!OnlyAgents`, `NothingForRevoked`, `TiersMatch`,
  `CapOnDownloads`, `TrueAnswers`, `NothingStarts`. `CallInv` says for each call
  what its place implies: what the gate and dispatch let through (`ForAgents`),
  that a call of a dead token stops at the gate (`DeadStops`), that only a request
that changes the site waits once admitted, that the backend's
  answer says whether the work was done (`WorkKnown`), and that what the caller
  was told follows from it (`Told`).
- `UploadPageProofs!ResultPerFile`, `TrueResults`, `ContentsByChoice`. For each
  batch: the results are those of the files before the one at hand, in order
  (`InOrder`, `Counted`); what is stored is among them or is the file whose call
  is under way (`Storing`, `TrueSoFar`). For the dialog: what was sent is what the
  box said (`DialogInv`).
- `FrontendSessionProofs!ForgetsForCause`: `Spec => SignedOutForCause`, and
  `Typed` (`[]TypeOK`), for any number of handlers of any kinds. `Inv` says that
  every token of a store, a page or a handler was issued (`Known`), that a page
  which opens has one, that the session of a handler that was refused is over
  (`TaskOK`: it was over when the backend answered, and a session that was issued
  never lives again), and that the account of a removal that succeeded is gone for
  good. `Grows` is what the backend may do to sessions and accounts, and keeps all
  that while a handler waits, however long its page has been left (`LeftOK`). The
  step that forgets a session is then a sign-out, a refusal whose session is over,
  so another one than a good one stored, or the end of such a removal.
- `FakeBackendProofs!SitesStayTrees`: `Spec => []TreesWellFormed` for any paths.
  The invariant adds the types and that a request names a path. The lemma that
  matters is `AddFoldersForAll`: the loop stops at the first folder it meets, and
  in a tree that is enough to make every ancestor.
  `KeepsContract`: `Spec => ContractKeptInPlace`. The contract starts a site
  empty, so `Fresh` says that the object a creation will put under the slug is
  empty, held by no upload and that of no other request.
- `SharedRulesProofs!LimitAdmitsCap`, `CapsAreSharp` (`Spec => []OutcomeBySize`)
  and `LimitsTypeCorrect`. `Inv` adds what each stage has let through
  (`Passed`); that the gate refuses no file the cap allows is the monotony of
  the encoding's length and of its number of lines (`EncodingGrows`).
- `SharedRulesProofs!SlugsFit`, `PathsCanonical`, `FoldersHoldPaths`
  (`Texts => []SlugsAreSlugs`, `[]PathsAreCanonical`, `[]ParentsAreFolders`), for
  texts of every length, any limits and any characters of the classes. The
  invariant is only that a text is a sequence of the characters; the work is in
  what the functions compute.
  - Slugs: `Hyphenated` leaves a `Neat` text, stripping and cutting keep it neat
    (`NeatPart`), and a neat text with letters at both ends is left alone by every
    step (`AsciiSame`, `HyphenatedSame`, `StrippedSame`, `CutIs`).
    What a text spells (`Spelled`) is untouched by the ASCII form, the hyphens and
    the stripping (`SpelledHyphenated`, `SpelledStripped`), and a cut text spells
    the beginning of it (`SpelledConcat`); a cut falls on a hyphen at most once,
    since no two stand together (`CutSpells`).
  - Paths: `Join` undoes `Split` (`JoinSplit`), so an accepted path is its
    stripped text, and the slashes around it lead nowhere (`WalkStripped`). A slash
    parts a text into the parts on both sides (`SplitConcat`): no segment is
    empty, so in an accepted path a slash stands between two names (`SoundSlash`),
    the parent is accepted, and each prefix query comes down to one slash at one
    place (`BelowIs`, `DirectlyIs`).

Some of this is about sequences of any length, for which the prover has neither
induction nor folds. Induction on numbers is proved from a fact on finite sets
(`NatSetInduction`: a missing number `k` would pair the members up to `k` with those
of them that are not 0, one fewer), induction on sequences from that
(`SeqInduction`), and what `FoldLeft` computes by showing that the function it is
defined with exists, is unique on what two sequences share, and takes one step
more for an element more (`FoldExists`, `FoldUnique`, `FoldedAppend`).

Only model-checked: the liveness properties (`LockedRequestsAreAnswered`,
`ListingsEnd`, `WaitersAreServed`, `EveryCallAnswered`, `SignOutEnds`,
`DeadSessionLeaves`, `BatchEnds`), because fairness and `ENABLED` are out of the
prover's reach. Every other property of a passing run is a theorem.

## Not modelled

- Of the backend: reads that change nothing (downloads, totals); cancellation of
  a handler during a shutdown, which the crash covers; the loss of commits after
  a power failure (`synchronous=NORMAL`); the re-hash of a password at sign-in.
- `store_contract` has no faults and no restores: a stop between two steps is
  where the store gives the contract up, and `store_race` says what remains.
- Of the MCP server: JSON-RPC, the tools' schemas and the wording of errors;
  text that is no base64 counts as arguments outside the schema.
- Of the frontend: layout and wording; which texts `safe_next` takes for a path
  of the site (after a sign-in any page may follow); a tab whose socket is lost, so that
  its storage is not there; a second dialog or a cancelled replacement while a
  dialog's call is under way.
- Of the fake: its accounts, sessions and tokens. Each of its handlers is one
  step, so nothing interleaves, and its rules are those of `Accounts`.
- Configuration, context and health read the environment and keep no state; the
  site server is nginx.

## Plan

1. Done: `SiteStore`, `SiteLocks` over `SiteQueue`, `Accounts`, with proofs.
2. Done: `SiteTree` with `SiteContract` and `FakeBackend`; `McpServer` and
   `FileLimits`; `FrontendSession` and `UploadPage`; `Naming`.
3. Done: a theorem for every invariant, action property and refinement that the
   passing runs check.
4. Open: liveness for every instance, once fairness can be proved about.
