# plex-4k-transcode-guard in TLA+

The guard is a Go program that runs beside a Plex Media Server, polls its
sessions and terminates those that transcode a 4K source. This directory holds
TLA+ modules that model its behaviour, TLC configurations that check them on
small instances, and proofs checked by TLAPS. Paths of source files below are
relative to the repository.

## 1. The system

| Part | State it keeps | Operations | Source |
|---|---|---|---|
| Poll loop | consecutive failures, the running poll (mode, deadline, sessions left), what was last said about each topic | `Run`, `PollOnce`, `nextDelay`, `waitReady`, `warnChanged`, `note...` | `internal/guard/runner.go` |
| Metadata cache | versions, known-missing media ids or a failure per item, each with an expiry | `sources`, `store`, `pruneCache`, `sweepCacheLocked` | `runner.go` |
| Cooldown | time of the last action per `<mode>:<session>` | `Allow`, `Prune` | `cooldown.go` |
| Classification | none | `Screen`, `Judge`, `IsUHD`, `SelectedMedia` | `classify.go`, `sessions.go`, `metadata.go` |
| Mode resolution | none (a file and the environment) | `ResolveMode` | `mode.go` |
| Stop message | the file; text, source, modification time and size remembered | `Message`, `EnsureMessageFile` | `message.go` |
| Plex client | none | `Ready`, `Sessions`, `Metadata`, `Terminate` | `plex.go` |
| Document parsing | none | `decodeContainer`, `ParseSessions`, `ParseMetadataMedia` | `sessions.go`, `metadata.go` |
| Token source | the last token | `Token` | `token.go` |
| Logger, redactor | the secrets | `Redact`, `SetSecrets` | `redact.go` |
| Configuration | none | `LoadConfig` | `config.go` |
| Service | whether s6 keeps it up | `main`, `run`, `finish` | `cmd/`, `root/etc/s6-overlay/` |
| Recreate script | containers and their names | `--apply`, `--rollback` | `contrib/recreate-with-mod.sh` |

**How they interact.** `Run` waits for Plex, then calls `PollOnce` again and
again. A poll resolves the mode, reads the token, asks Plex for the sessions
document, reads the stop message, and for each session: `Screen`, then
`sources` (the cache or a metadata request), `Judge`, `Allow` of the cooldown,
and, in enforce mode, a terminate request. All requests of a poll share one
deadline; each has a timeout of its own. The loop is one goroutine: what runs
concurrently with it is Plex, the viewers, the library's administrator, the
operator who edits the mode file and the message file, and the supervisor who
signals or kills it. Plex may also replace the token in its preferences at any
moment; every read of the token (one per poll and one per request) tells the
redactor of a new one, and every line of the log goes through the redactor. s6
starts the process, and the finish script decides by its exit status whether it
is started again. The recreate script is separate; it drives docker, which
may refuse any command, and it may be killed.

**What is hard.** Actions of the environment between any two steps of a poll;
time (a deadline, timeouts, two kinds of lifetime, a cooldown, a backoff);
stale evidence (the session names a version, the library lists others); side
effects that precede the request they stand for (the cooldown is consumed
first); a restart that forgets; the file that is examined, read and replaced
by separate system calls; the swap of two containers that stops in the middle;
warnings that are given once and must still be true when they are the last; an
exit status that means either "try again" or "never again"; values at and beside
the bounds of the configuration.

**What makes each part correct.**

- Poll loop: terminates only when the mode asked for it when the poll began, only
  what is a 4K transcode on evidence no older than a cache lifetime, no session
  twice within a window; passes over a session only for that reason; no poll
  lasts longer than promised; a shutdown needs nobody's help; a transcode that
  goes on is attempted again.
- Metadata cache: bounded, never serves stale listings, remembers failures for
  a while and no longer.
- Cooldown: a countdown per id, whatever is pruned.
- Classification: condemns 4K and only 4K, by the version being played.
- Stop message: what the file says now; the operator's file is not overwritten.
- Document parsing and client: what cannot be read, or comes with a redirect or
  an error, condemns nobody, and how a document is written makes no difference.
- Reporting: the last line about a topic is true, a condition that persists is
  told once, and no line shows a token.
- Configuration and service: what runs is what was asked for; the guard gives up
  where it cannot work, and only there.
- Recreate script: never two containers at once, never without one that works,
  restored when it gives up.

## 2. Modules

| Module | Models | Used by |
|---|---|---|
| `Classify` | the classification, as operators | `MetadataCache`, `Runner`, `Documents` |
| `Documents` | the response to a request and the parsing of the two documents, as operators | `Verdicts` |
| `Verdicts` | an item whose versions are edited while one is played, the documents that show it, the verdict; the reference definition of 4K | `MCClassify`, `VerdictsProofs` |
| `CooldownContract` | abstract: the time left per id | `Cooldown` (refinement), `Runner` (composition) |
| `Cooldown` | the map, the clock, `Prune` | `MCCooldown`, `CooldownProofs` |
| `MetadataCache` | the lookup, the cache, the request and the library | `Runner`, `MetadataFailures`, `MCMetadataMissing` |
| `MetadataFailures` | the same with the age of each item's last failure | `MCMetadataCache`, `MetadataCacheProofs` |
| `Runner` | the poll loop, composed with `MetadataCache`, `CooldownContract` and `Classify`; the mode | `MCRunner`, `RunnerProofs` |
| `RunnerHistory` | the same with when each item last gave trouble and how long ago the last poll returned | `MCRunner`, `RunnerProofs` |
| `MessageFile` | the stop message and its file | `MCMessageFile`, `MessageFileProofs` |
| `Reporting` | what one process says: warnings, notes, the token source, the redactor | `Service`, `ReportingProofs` |
| `Config` | the configuration and its parsers, as operators; what each value asks for | `Service` |
| `Service` | `main`, the `run` and `finish` scripts and s6, composed with `Reporting` and `Config` | `MCService`, `ServiceProofs` |
| `Recreate` | the recreate script and docker | `MCRecreate`, `RecreateProofs` |
| `MC...` | values of the constants for TLC; the properties only TLC checks | the runs |
| `...Proofs` | the theorems (section 5) | `RunnerProofs` uses `MetadataCacheProofs`, `ServiceProofs` uses `ReportingProofs` |

`PROJECT.json` maps each definition to the lines it stands for.

**Documents.** An element is a name, the attributes that are there, its media
and its other children. The value of an attribute is its text and a form (plain,
padded, in capitals, with a fraction, garbled); the parsers are translated by
what they make of each form: `int` drops padding and a fraction and takes 0 for
what is no number, `flag` ignores case and padding, `get` changes nothing, so
that a padded id of the library is another id.

**Verdicts.** `Sessions` is what a session may look like, `Writings` is how the
two documents may be written: the forms of their values, where the library
splits its versions between two items, and what becomes of the bodies and of
the responses that carry them. A writing is chosen when the guard reads. The
variable `playing` is what the guard can only infer. The reference definition of
4K is stated on the shape of the part of a frame that fits into 3840x2160, and
uses none of the thresholds of the code.

**Runner.** `Documents` is what Plex may answer; a session without an id has
the cooldown of its session key (`SessionKeys`). `pc` is where the goroutine stands: `connecting` (the identity
request is in flight), `resting` (between two of them), `sleeping`, `sessions`
(the request is in flight), `loop` (between two sessions), `metadata`, `judge`,
`act`, `terminating`, `stopped`. `queue` is the rest of the document's
sessions; `budget` is what is left until the poll's deadline; `waited` and
`call.waited` are the ages of requests. Computation takes no time, requests
and sleeps do: `Tick` is enabled only while the loop waits. `Return` is the
return of `PollOnce` together with what `Run` does next. The cache and the
library behind it are the variables of `MetadataCache`, whose actions `Runner`
uses as they are; the cooldown is used through `CooldownContract`. The variables
`atStart`, `elapsed` and `sinceAttempt` are history and no guard reads them; nor
does one read `sinceTrouble` and `rested` of `RunnerHistory`, which are apart
because only two properties need them.

A shutdown that arrives after Plex was reached ends `Run` here without the
first poll, whose request would fail at once.

**MetadataCache.** An entry carries the ticks it has left (`expires - now`), so
that there is no clock. The lifetime starts before the request, as in the code:
`LifeLeft` subtracts what the request took. `changed` (history) is how long ago
an item was edited. Plex reads the item at one moment (`PlexAnswers`) and the
answer may arrive later. `sinceFailure` of `MetadataFailures` is history too.

**Cooldown.** The disabled cooldown (window 0) records nothing, as in the code.
`granted` is history: it remembers what `Prune` removes.

**MessageFile.** One step per system call. `stamp` stands for modification
time and size. `held` (history) collects what stood at the path during a call.

**Reporting.** The poll is reduced to what is said and to what decides it; the
sessions of a document and the lifetime of a lookup are left open, since
`Runner` and `MetadataCache` are about them. A fact is a text and the token it
carries. `memory` stands for `lastWarnings`, `lastMode` and `lastMessage`, `log`
for the last line about each topic. An error may carry the token its request was
made with, as `redact.go` supposes. `found`, `leaked` and `repeated` are
history.

**Config.** A raw value is a form and what it says. A second is two units, a
unit stands for the nanosecond, and what is written is counted in half units, so
that truncation is visible: it is towards zero, so that a duration just below
zero is one of none, while a bare number below zero is refused. `RawValues` is all that a variable may hold;
`Meaningful` and `Meant` say what a value asks for, apart from how it is read. What a conversion of NaN or an overflow gives
depends on the processor the binary is built for (`Builds`).

**Service.** `service` is where s6 has the guard. `Start` of `Reporting` is
called when the loop starts, `Gone` when the process ends.

**Recreate.** Containers are numbered by the run that created them; `at` says
which has which name. A command fails without effect; an effect followed by a
failure is the same as being killed after it, except for `docker create`, whose
failure the script handles (a container that is left then is removed if it can
be). All settings the script carries
over are one outcome, whether the comparison finds a difference; `--force`
makes a difference pass, which is that outcome too.

**Mutants.** Definitions preceded by a comment "Mutant of X" are plausible
bugs in X; nothing uses them. Put in the place of X, each breaks the property
`PROJECT.json` names with it.

## 3. Runs

| Run | Checks | Bounds and why they are enough |
|---|---|---|
| Classify | `CondemnedIsUHD`, `VanishedVersionIsLeftAlone`, `IdentifiedUHDIsCondemned` | two media ids, items of up to two versions: one that is played and one that is not. Frames on and beside the thresholds, two of them larger than UHD, and three labels; versions that are added are 4K by frame, 4K by label or neither. Every form of the session's attributes and of the library's sizes, one item or two, the first of which may be empty, and each way a body or a response fails |
| Cooldown | `TypeOK`, `RememberedWhileOpen`, `GrantsAreSpaced`, `ImplementsContract` | two ids, window 3, eight ticks: two whole windows and the instants beside their ends |
| MetadataCache | `TypeOK`, `CacheIsBounded`, `ServedIsRecent`, `FailureIsRemembered`, `FailureIsForgotten` | two items (symmetric), room for one, lifetimes 4 and 3, requests of up to 1 tick: a store always finds a full cache |
| MetadataMissing | `MissingIDIsRemembered` is violated | one item, two media ids it does not list |
| MetadataStalled | `NewFailureIsRemembered` is violated | HTTP timeout equal to the negative lifetime |
| RunnerModes | `TypeOK`, `PollIsBounded`, `OnlyEnforced`, `AttemptsAreSpaced`, `PassedOverOnlyWhenAttempted` | a mode file that is missing, broken, dry-run or off under an enforcing environment (an `enforce` file is the same mode), a token that comes and goes, a document that lists one session twice, one without a session id, one without an item and one that is not transcoded; window 4, interval 1, cap of the backoff 2; Plex not there at first, for any time; shutdowns and crashes |
| RunnerEvidence | `AttemptIsJustified`, `LeftAloneOnlyOnTrouble` | two items, room for one in the cache, one item edited at any moment to be 4K only, mixed, HD or gone. Interval and timeout are 1, so that the deadline of a poll with slow requests cuts off a lookup of one of its items; a failure stored then would outlive the sleep (negative lifetime 3) and be met at the next poll |
| RunnerLive | `StopsPromptly`, `AttemptedAgain`, `PollsAreSpaced` | two items, one of which Plex need never answer for; interval 4, timeout 1; the backoff starts below the interval if it starts from the wrong delay, which is 1 |
| Message | `TypeOK`, `ServesTheFile`, `LateFileIsKept` | two edits, which is one before and one inside any gap between two system calls |
| Service | `LogIsCurrent`, `NoTokenIsLogged`, `WarnedOnce`, `RunsAsConfigured`, `DisabledOnlyWhenUnworkable`, `NotRetried` | one item and two tokens (symmetric): one in use and one that replaces it. The interval of the token warning is one tick. An environment is empty, sets all variables to good values on their bounds, sets the cooldown to a duration just below zero, or sets one variable to a bad value beside or beyond its bounds: the variables are parsed independently |
| Recreate | `TypeOK`, `NeverTwoUp`, `OneThatWorksIsKept`, `DiesRestored` | four runs: two nested interrupted swaps and the rollback of each |
| RecreateAborts | `RollsBackOnFailure` is violated | one run |

Runs whose system may stop (after a shutdown, after the last verdict, after
the last run of the script) do not check for deadlock; the others do.

**Fairness** (`ProcessFairness`, `PlexFairness` in `Runner`; only RunnerLive
uses it). The goroutine keeps running (weak fairness of its own steps), each
request ends at the latest with its timeout (weak fairness of `Receive`; the
HTTP client bounds every request and the poll's context does it again), and
time passes. `StopsPromptly` needs nothing else. `AttemptedAgain` also
needs that Plex answers infinitely many of the sessions requests and of the
metadata requests for the item in question when they are infinitely often made
(strong fairness); it may fail or stall all others. Since the guard waits for
Plex first, one of infinitely many identity requests has to succeed too (strong
fairness of `PlexReady`); without it the loop rests and asks for ever, which is
what the code does.

`AttemptedAgain` is checked with an interval of four timeouts, which is more
than the default (10 s and 5 s). It does not hold for every configuration: with
an interval shorter than what the stalled lookups of earlier sessions take in
one poll, the deadline cuts off the same later session every time, and a lookup
cut off by the deadline is not remembered as a failure, so the earlier sessions
stall the next poll again.

## 4. What the violation runs show

- *MetadataMissing.* `sources` builds a new `missing` set for each fetch
  (`runner.go:365`). Two sessions on one item whose ids the item does not list
  make each other forgotten, and both fetch at every poll, which the comment at
  `runner.go:58-59` and the test at `runner_test.go:293-296` exclude.
- *MetadataStalled.* The expiry of a failure counts from before the request. A
  request that lasts as long as `metadataNegativeTTL` (60 s, the largest allowed
  HTTP timeout) stores an entry that has already expired, so a stalled endpoint
  costs a request at every poll, against `runner.go:16-18`.
- *RecreateAborts.* A failing `docker rename` ends the script under `set -e`
  with the old container stopped and no rollback, against
  `recreate-with-mod.sh:19-21` and `README.md:396`.

Four statements of the documents that the models do not follow because the
code does not: `os.Rename` replaces a file that appears after the re-check,
against `message.go:146` (`LateFileIsKept` is stated for a file that appears
before); sessions without a rating key share the topic `metadata:` of their
warnings, so that two of them with different titles are warned about at every
poll, against `runner.go:401-403` (`Items` of `Reporting` have one title each,
and none is without a key); `README.md:62` and `docs/ROLLOUT.md:82` call a source 4K when
one axis is large enough, `IsUHD` wants both; and `README.md:331-333` says that
playback started again "is stopped again after the cooldown", while the
cooldown is kept per session id, so that a new session is stopped at the next
poll.

## 5. Proofs

Every invariant and action property of the passing runs is a theorem. The runs
show each on a small instance, the theorems for every value of the constants
that the assumptions of section 5.8 admit; no set of ids, sessions, items,
tokens or texts need be finite.

### 5.1 `CooldownProofs`

- `TypeCorrect`: `Spec => []TypeOK`
- `NothingOpenIsForgotten`: `Spec => []RememberedWhileOpen`
- `Spacing`: `Spec => GrantsAreSpaced`
- `Implementation`: `Spec => ImplementsContract`, the refinement of
  `CooldownContract` under the mapping `left[id] = Window - (now - last[id])`
  while the window is open, 0 otherwise.

The inductive invariant is `TypeOK /\ RememberedWhileOpen /\ DisabledIsEmpty`.
`TypeOK` is needed in the others' steps because it bounds every entry by the
clock; `RememberedWhileOpen` connects the map to the history; without
`DisabledIsEmpty` a disabled cooldown could hold an entry from nowhere, and the
mapping would not start a grant at 0. `Prune` maps to a stuttering step, every
other action to the action of the same name. `Runner` takes no step of the
cooldown but those of the contract, so that what holds of `Runner` holds with
the map and its pruning in place.

### 5.2 `MetadataCacheProofs`

- `TypeCorrect`, `Bounded`, `Recent`: `Spec => []TypeOK`, `[]CacheIsBounded`,
  `[]ServedIsRecent`
- `Remembered`, `Forgotten`: `HistorySpec => []FailureIsRemembered`,
  `[]FailureIsForgotten`

The inductive invariant adds four facts. `FiniteCache`: the cache has finitely
many entries, so that counting them means something; the lemma `RoomIsLeft`
says what sweeping and, failing that, emptying achieve. `DatedAnswer`: an answer
on its way that is not what the library lists now is older than the edit by no
more than the request lasts. `DatedEntries`: an entry that is not what the
library lists now has no more left to live than a lifetime less the age of the
edit. The step from the second to the third is `FetchSucceeds`, and it needs
the lifetime to be counted from before the request; `ServedIsRecent` alone is
not inductive, because it says nothing of the answer on its way.
`FailuresDated`: what a failure has left to live and its age add up to at most
the negative lifetime, and to at least that less the longest request, which is
the time the request took away from it (`runner.go:341` and `361`).

### 5.3 `RunnerProofs`

- `TypeCorrect`: `Spec => []TypeOK`
- `PollBounded`: `Spec => []PollIsBounded`
- `EnforcedOnly`: `Spec => OnlyEnforced`
- `Spacing`: `Spec => AttemptsAreSpaced`
- `PassedOver`: `Spec => PassedOverOnlyWhenAttempted`
- `Justified`: `Spec => AttemptIsJustified`
- `PollsSpaced`: `PastSpec => PollsAreSpaced`
- `LeftAloneForTrouble`: `PastSpec => LeftAloneOnlyOnTrouble`

Six layers, each an invariant of its own on top of the one before.

1. `TypeInv`: the types, that the queue holds sessions, and the inductive
   invariant of the cache. The actions of `MetadataCache` that `Runner` calls
   keep it by the lemmas of `MetadataCacheProofs`, which is instantiated; the
   history `sinceFailure` has no counterpart in `Runner` and no lemma used here
   mentions it. The sleeping times need that the exponential of `nextDelay`
   is a natural number and that its cap is one.
2. `DeadlineKept`: in a poll the elapsed time and the budget add up to the
   deadline. `ModeOfPoll`: the mode is the one of the file when the poll began.
3. `CooldownInv`. `Spaced`: what is left of the enforcing window of a session
   and the time since its last attempt add up to a window at least. `Exact`: to
   no more than that, except between the answer of `Allow` and the request, when
   the window is open and the attempt not yet made. `Answered`: what the answer
   says of the window still holds when it is acted upon. `Spaced` gives
   `Spacing`, `Exact` gives `PassedOver`. The keys of the two modes being
   different is what keeps a dry-run poll from touching either.
4. `EvidenceInv`, which follows one session from its lookup to the attempt:
   `OfCurrent`, the lookup is of its own item; `Replied`, the versions in hand are
   what the library lists or were within a lifetime; `Condemned`, and so are
   those that condemned it. `Replied` comes from `ServedIsRecent` for a cached
   listing and from `DatedAnswer` for a fresh one.
5. `RestKept`: while the loop sleeps, the time since the last poll returned and
   what is left to sleep make up an interval at least; a loop that waits for
   Plex has had its rest. Every return of a poll needs a delay of an interval or
   more, which for a failed poll is a fact about powers of two (`BackoffRests`).
6. `TroubleKept`: what a remembered failure has left to live and the time since
   the trouble that caused it make up no more than its lifetime. It rests on a
   request that failed while its poll's context was live having done so after
   it was sent, and on nothing being stored once the context is done.

### 5.4 `MessageFileProofs`

- `TypeCorrect`: `Spec => []TypeOK`
- `Served`: `Spec => ServesTheFile`
- `LateFileKept`: `Spec => LateFileIsKept`

The invariant adds to the types: `MemoryHolds`, what is remembered was read from
the file that still has its stamp; `Seen`, the call that runs has seen the file
that stands there now, and saw none when it goes on to create one;
`Unobstructed`, a file that stands in the way of the rename came after the
re-check. `Served` needs the stamp that is remembered to be that of the first
look, and `MemoryHolds` is not inductive without the bound on stamps, by which
an edit brings a new one.

### 5.5 `ServiceProofs`, with `ReportingProofs`

- `Configuration`: `Spec => []RunsAsConfigured`
- `Disabled`: `Spec => []DisabledOnlyWhenUnworkable`
- `SaidOnce`: `Spec => []NotRetried`
- `CurrentLog`: `Spec => []LogIsCurrent`
- `NothingLeaks`: `Spec => []NoTokenIsLogged`
- `Once`: `Spec => []WarnedOnce`

The lemmas on the parsers say that a value is accepted exactly when it is
`Meaningful` and is then read as `Meant`, whatever the build makes of a
conversion that does not fit. `ServiceInv`: `Configured`, a loop that runs
has what `LoadConfig` made of the container's environment without a problem;
`Judged`, status 64 means that the guard cannot work, and one that refused does
not get past `finish`.

`ReportInv` is about the ledger (what is remembered, what the log said last,
what the poll found). `Right` of it: for a warning, what is remembered is what
the log said last, as far as the level lets it; for the mode and the message
the same; a token that was read is the one secret of the redactor. Each of the
ways a poll can say something keeps a right ledger right, one lemma each.
Where a step relies on more, the invariant says it: `TokenTold` (a missing
token is the last thing said of it while the interval of its warning runs),
`RequestCovered` (the redactor knows the token of the request in flight) and
`FailuresTold` (a remembered failure is the last one told of its item, so that
repeating it from the cache says nothing, which is why it cannot leak a token
the redactor has forgotten).

### 5.6 `RecreateProofs`

- `TypeCorrect`: `Spec => []TypeOK`
- `NeverTwoAreUp`: `Spec => []NeverTwoUp`
- `WorkingContainerIsKept`: `Spec => []OneThatWorksIsKept`
- `DeathRestores`: `Spec => DiesRestored`

`OnlyNameIsUp`: only the container under the name is up, which makes
`NeverTwoUp` inductive. `OldestWorks`: the oldest backup works or, when there is
none, what has the name does; the backups form a stack of which a run or a
rollback touches the newest only, so that any number of interrupted swaps can
be undone one by one. `NumbersGrow`: the backups and containers of a run are
numbered by it. `BackupOfRun`: at each command, which container the run's
backup, its staging name and the name denote.

### 5.7 `VerdictsProofs`

- `Condemned`: `Spec => []CondemnedIsUHD`
- `LeftAlone`: `Spec => []VanishedVersionIsLeftAlone`
- `Identified`: `Spec => []IdentifiedUHDIsCondemned`

The classification is pure, and most lemmas are about its operators:
`SessionIsRead` and `LibraryIsRead` say what the guard reads of the two documents
for every way of writing them, `UHDIsRead` that the thresholds are the reference
definition of 4K, `MatchIsRead` that a listed version is found under its id.
The invariant: the session shows the version that plays (`Known`), no two
versions of the item have one id, and the verdict is the guard's on the writing
that was chosen (`Given`). A match by id relies on the second of these.

### 5.8 Assumptions

Each is named and stated with the constants it is about, and TLC evaluates it on
the runs.

| Assumption | Beyond the types of the constants |
|---|---|
| `CooldownAssumption` | nothing |
| `CacheAssumption` | a request is shorter than a success is remembered (at most one minute against ten); the cache has room for one |
| `RunnerAssumption` | the same; the poll interval is positive and no more than the cap of the backoff (300 s, `config.go:42` and `runner.go:27-29`) |
| `DocumentsAssumption` | the constants name the ids the documents hold |
| `MessageFileAssumption` | nothing |
| `ReportingAssumption` | the interval is positive; no item is called as one of the other topics (the code prefixes items with `metadata:`) |
| `EnvironmentsAssumption` | nothing |
| `RecreateAssumption` | nothing |
| `VerdictsAssumption` | ids are neither empty nor padded; the item has room for a version |

### 5.9 Only model-checked

- `StopsPromptly` and `AttemptedAgain`: fairness and ENABLED are out of the
  prover's reach.
- The three properties that the code violates (section 4), which are no theorems.
- Library documents of more than two items: `Writings` knows one or two, because
  what flattening yields for any number is an induction over data.


## 6. Not modelled, and the plan

Not modelled:

- XML as such (encodings, entities) and numbers beyond the width of an integer.
- The wording and layout of log lines (`writeAttr`, `Evidence`) and messages, and
  the counters of a poll's summary.
- The redactor leaves a token of fewer than four characters alone; `Tokens` are
  longer. A title that changes while a lookup is remembered, which gives the
  warning another text, and the parsing of the preferences beyond which token
  they hold.
- URLs, headers and connections of the Plex client.
- The modification time's resolution: two edits of the message file that leave
  the same time and size are one to the guard.
- s6's own timeouts, and a finish script that is killed.
- The options the recreate script carries over, and a restart of the docker
  daemon, which would start a kept backup with restart policy `always`.
- Build, release and the container image, and the test tooling: no behaviour of
  the running program.

What is left to prove:

1. That `Runner` with `Cooldown` in the place of `CooldownContract` implements
   `Runner`. `CooldownProofs` proves the refinement of the contract alone; that
   the poll loop may use it is an argument (section 5), not a theorem.
2. That `Reporting` reports a poll of `Runner`: its steps leave open what
   `Runner` decides.
3. `StopsPromptly` and `AttemptedAgain` up to fairness: the ranking that each
   step of the loop decreases is a safety property and in the prover's reach.
