# Verification of the secure gateway

TLA+ models, TLC runs and TLAPS proofs for the pseudonymizing LLM gateway
(`src/apps/gateway-api`) and its evaluation harness (`src/apps/gateway-eval`).
Below, `GA` is `src/apps/gateway-api/gateway_api` and `GE` is
`src/apps/gateway-eval/gateway_eval`.

## 1. The system

The gateway stands between a user and an LLM provider. It detects personal
values in the user's text, puts realistic fakes in their place, sends the
result to the provider and restores the originals in the answer. The fakes of
one conversation are kept in Redis, in one hash per session with a sliding TTL.
The harness drives a live gateway over HTTP with a corpus of contracts and
measures detection, leaks, restoration and latency.

| component | state | operations |
|---|---|---|
| pseudonym vault (`GA/pseudonym_vault`) | the Redis hash `session:{id}` (fields `fwd:*`, `rev:*`, `forms:*`, `corefs`, `meta`), its TTL; in the process one `asyncio.Lock` per session | `get_or_create`, `restore_text`, `get_all_mappings`, `get_session_summary`, `increment_message_count`, `delete_session` |
| coreference (`coreference_matching.py`) | none (reads `corefs`) | align a partial name to the fake of the full one |
| detection (`GA/pii_detection`) | the loaded model and its readiness flag, the cached thresholds file | candidates by recognizers, `resolve_overlaps`, `apply_thresholds` |
| pipeline (`GA/pipeline`) | none | substitute all messages, splice the fakes into a text, restore an answer |
| chat endpoint, Redis gate, request log (`GA/api/chat.py`, `main.py`, `observability`) | per request | gate, validate, substitute, call, restore, count, log |
| router and adapters (`GA/llm_providers`) | lazily built clients | choose the adapter by the model's prefix, call it, map its errors |
| fake generation (`GA/pseudonym_generation`, `checksums.py`) | a seeded generator; the fakes of the session are the vault's | draw a fake of the type until none of its forms is in use, force one in the end, inflect it |
| evaluation run (`GE/run_evaluation.py`, `stages`, `gateway_client`) | one outcome per document and stage | health check, load, two stages, audits, exit code |
| scoring (`GE/scoring`) | the sums over the documents | align spans under two policies, fill the confusion matrix, classify restorations, find leaks |
| corpus, latency, reports (`GE/corpus`, `latency`, `reporting`) | files | build and read the corpus, write results |
| single-page client (`src/apps/gateway-ui`) | browser state | presentation of the same endpoints |

How they interact: a chat request passes the gate (a Redis `PING`), then the
handler runs detection on every message, awaits `get_or_create` for every
detected entity, sends one payload to the provider, awaits its answer,
restores it from the reverse records of the session, and increments the message
count. Several requests of one session run as coroutines of one event loop:
they share the Redis hash and the lock, and overlap at every `await`. The
harness calls the endpoints one after the other, repeats calls whose connection
has failed, and deletes each session when it is done with it.

What is hard, and what should hold:

* **Vault.** `get_or_create` reads, mints and writes in up to nine Redis
  commands, and an error, a restart, an expiry or a delete may come between any
  two of them. It must be atomic per session, give one fake per original and
  no fake to two originals, write only mappings that can be undone, and leave
  nothing without a TTL.
* **Chat.** No payload may leave with an entity in clear, the payloads of a
  session must agree, an answer must be restored to its own originals even
  when other requests change the session during the provider call, and every
  request must be answered with the mapped status.
* **Model and thresholds.** A thread loads the model while requests arrive, and
  somebody edits the thresholds file while it is read. A request must use what
  the file says, and one that is let through must find the model.
* **Minting.** Builders, attempts and forced fakes must together never give one
  surface twice, and an identifier must pass the very checks the recognizers make.
* **Texts.** Candidates nest, coincide and overlap, the splice works by
  offsets, the restoration by passes over their own output, and a last pass is
  fuzzy. What is sent must be what was intended, what comes back the original.
* **Evaluation.** Calls fail, are repeated and take effect late, sessions are
  deleted once and without a check; measures and the exit code must still be
  those of the documents sent.
* **Scoring.** Alignment is greedy over pairs in a sorted order and is done twice,
  independently; leaks are searched in a text with the fakes masked. The
  counts must agree with each other, and what was missed must be found again.

The hazards are listed in `PROJECT.json`, each at its line and with the
properties that would catch it.

## 2. The modules

| module | models | written in terms of |
|---|---|---|
| `Coreference` | `lemma_overlap`, `aligned_fake`, `CoreferenceResolver.resolve` as operators on lemma sequences | |
| `AtomicVault` | abstract specification of `get_or_create`: it takes effect at one instant, and a mapping is never changed | |
| `SessionVault` | one session of the vault, one action per Redis command | `Coreference`; implements `AtomicVault` |
| `SessionVaultProofs` | theorems about it: locks, atomicity, and what its records say | `SessionVault`, `Sums` |
| `ChatRoundTrip` | overlapping chat requests of one session | uses `AtomicVault` as its vault |
| `ChatRoundTripProofs` | theorems about it | `ChatRoundTrip` |
| `Detection` | `resolve_overlaps` and `apply_thresholds` over any set of candidates | |
| `TextRoundTrip` | one text: detected, substituted, spliced, answered, restored exactly and fuzzily | `Detection`; uses `AtomicVault` |
| `TextRoundTripProofs` | theorems about both | `TextRoundTrip`, `Sums` |
| `DetectionService` | the loader thread, the readiness gate and the live thresholds file | |
| `DetectionServiceProofs` | theorems about it | `DetectionService` |
| `Identifiers` | PESEL, NIP, REGON and NRB: their checks, what they encode, the builder of a PESEL | |
| `FakeMinting` | the builders and the factory, over a whole session | `Identifiers` |
| `FakeMintingProofs` | theorems about both | `FakeMinting` |
| `EvaluationRun` | one run of the harness against a gateway that fails, answers late or not at all | |
| `EvaluationRunProofs` | theorems about it | `EvaluationRun` |
| `SpanAlignment` | `align` under both policies, `positional_pairs`, the confusion matrix and the counts, the corpus's validation | |
| `SurfaceText` | texts as sequences of parts: folding, stems, whole words, masking | |
| `DocumentScoring` | the documents of a run: load, report, audit, restoration, sums | `SpanAlignment`, `SurfaceText` |
| `ScoringProofs` | theorems about alignment, reports, audit and sums | `DocumentScoring`, `Sums` |
| `Sums` | lemmas: least counterexamples, sums over functions, tallies, folds, chains of numbers, flattened sequences | |

The `MC...` modules give the constants of the runs. Definitions named
in a comment as *Mutant* are plausible bugs used to test the properties: each
property of a passing run is broken by at least one of them.

### SessionVault

The variable `session` is the hash; `registry` and `holder` are
`SessionLockRegistry._locks` and the owners of the locks; `pc` is the await a
coroutine stands at; `loc` its local variables; `seen` and `report` what a
read-modify-write and a summary have read. The actions of a call follow
`MappingStore.get_or_create` and `_substitute`: `Enter` and `Acquire` the lock,
`ReadForward`; on a hit `ReadForms` (a name in an oblique case) and
`WriteExact`; on a miss `LoadCorefs` (names), `Mint`, `WriteMapping`,
`ReadCorefs`/`WriteCorefs` (`append_coref`), `ReadMeta`/`WriteMeta`
(`bump_meta`), `ExtendWritten` (its `EXPIRE`), `WriteExact`; then `Extend` and
`Release`. `ReadCount`/`WriteCount`, `ReadMappings`/`ExtendRead`, the three
`Summary...` actions and `DeleteHash`/`DiscardLock` are the other operations.
`RedisError` ends a coroutine at any await on Redis (before or after
the command has taken effect), `Restart` all of them and the registry, `Idle` and `Expire` are the TTL.

A fake is its base form with one form per case; the reverse records are those
of all the forms, and minting avoids every form in use. A form is a pair of a
base and a case: the declension tables are taken to be injective, which they
are on what the builders draw.

### ChatRoundTrip

`pc` is the await a request stands at: the gate, the handler, the substitution
(one `get_or_create` per entity of the whole history), the provider, the two
restorations, the TTL, the count, the log line. `assigned` and `answered` are the
vault's, as in `AtomicVault`. `ModelLoads` sets the readiness flag of `nlp.py`,
`Forget` is a delete or an expiry. `Call` is the router: a prefix without an
adapter is a 400, one without a key a 503; `ProviderFails` maps the errors the
adapters know, `ProviderRaises` lets through those they do not.

The vault here is the abstract one, and a fake is never given to two
originals. Sections 4 and 5 say where the code departs from that: a delete
during a call, and two bearers of a surname.

### Detection and TextRoundTrip

`Consider` is one iteration of `resolve_overlaps` in its sort order,
`ApplyThresholds` the filter that follows it. A text is a sequence of words and
a candidate an interval of positions, because the code replaces whole words
only; `Splice` replaces one entity, the last first; `Restore` is one pass of
`re.sub`, the longest fake first and those of equal length in any order;
`RestoreFuzzy` is the token pass of `FuzzyNameRestorer` with the accepted edit
distances given as a table. A provider repeats the text it was sent, with any of
the words of the fakes in another case.

### DetectionService

`loader`, `engine` and `ready` are the thread that runs `ensure_loaded` and what it sets
(`TakeLock`, `Build`, `Announce`, `LoadFails`), `analyzer` the lazily built
engine of `engine.py`. `at` is what the request does next: the gate (`Refuse`,
`Admit`), `Analyze`, then `load_thresholds`: `Stat`, and `Parse` or `ReadFails`
if the time of the file is not the cached one. The handlers do not await
between gate and thresholds, so requests follow one another; the loader and
whoever edits the file (`Write`, `Remove`, `Tick`) may step in anywhere.
`Parsed` is the meaning of the file, with `_clamp01`. `spoiled` holds the times
that do not tell the contents: two writes within one tick, or a read that failed.

### Identifiers and FakeMinting

An identifier is the sequence of its digits. `Identifiers` has the control
digits, the validity checks and the decoding of dates and gender of a PESEL, each from
`checksums.py` and the recognizers, and `MakePesel` from the builder. In
`FakeMinting`, `Ask` is the first draw for an original, `DrawAgain` the next
one when a form is in use, `Keep` stores a draw none of whose forms is, and
`ForceUnique` numbers the last draw (`_force_unique`): the last digits of
an identifier are replaced, another fake gets a suffix. `used` is `used_fake_forms`. The pools of
Faker are parameters; digits, dates and the suffix tables are small tables.

### EvaluationRun

`op` is the step of the harness, `tries` the attempts of the current call,
`outcome` the `Stage1Outcome`/`Stage2Outcome` of every document, `scored`, `leaks` and `leakFree`
what the report is made of, `exit` the exit code. Of the gateway there is
`stored`, the fake each session keeps, and `late`, the calls the harness has
given up and that may still be executed. `Answer`, `Refuse` (status of 400 or
more), `Misread` (a body the client cannot parse), `Break` (a transport error, retried) are
the ways a call ends; `Delete` is `delete_session`, whose failures are ignored.
Only the writing calls are kept in `late`: a late `detect` or `depseudonymize`
changes nothing anyone reads.

### SpanAlignment, SurfaceText and DocumentScoring

`AlignPair` is one iteration of `align` over the candidate pairs in their
sorted order (`Sooner`), `CrossPair` one of `positional_pairs`, which assigns what is
left to the cells off the diagonal, first under the overlap policy and then
under the exact one. `Report` has the counts and the matrix of the result.

A text is a sequence of parts (stems, endings, separators, digits), with the
width, the lower-case form and the form without diacritics of each given by
tables; an offset counts parts. `SurfaceText` has what `surface_matching.py` does
on them, `DetectLeak` and `Classified` in `DocumentScoring` the modes of the
leak audit and the outcomes of the restoration. `Load` rejects a corpus with one
bad document, `RunStage1` is what the gateway answers (each of its calls may
fail), `BuildReports`, `Audit` and `Aggregate` what the harness makes of it.

## 3. The runs

All runs are exhaustive. Deadlock is checked in all of them but `scoring`, which
ends with the last document: elsewhere a behaviour that ends stutters in an
action (`Served`, `Done`, `Over`) that is enabled only when everything is
served, so a coroutine that waits for ever is an error.

| run | instance | shows |
|---|---|---|
| `vault_serial` | three calls (one person in two cases, another person), one message count; Redis errors and a restart at any point | `SerialPerSession`, `DistinctFakes`, `RestoresSameOriginal`, refinement of `AtomicVault` (`Linearizable`: each call takes effect at one instant and an original keeps its one fake), `CallsEnd` |
| `vault_quiet` | the same person twice and an identifier, a reader, a summary; no faults | `NoLostUpdate`, `SummaryCountsMappings` (also of a summary made while the session grows), `ManageableIfStored` |
| `vault_expires` | two calls, a reader, a delete, expiry | `LockExclusive`, `Reversible`, `AlwaysExpiring`, `SessionExpires` |
| `chat` | two requests with a common name; a model with its key, one without, one that needs none and one without an adapter; all failures, a delete or expiry | `FailClosed`, `PayloadsAgree`, `RestoresOwn`, `RequestsAnswered` |
| `text` | any of the 1024 subsets of ten candidates over six words: nested, equal, partly overlapping, adjacent, below their threshold; fakes of one and two words, one a part of another | `KeepsUnbeaten`, `NothingDropped`, `SentAsIntended`, `NoOriginalSent`, `RestoresExactly`, `RestoresInflected` |
| `service` | one loader, one request after the other, a file written, removed, brought back, unreadable or garbled at any point, restarts | `AnswerFresh`, `AdmittedFindsModel` |
| `mint` | sessions of two or three originals of each kind, from pools small enough to be exhausted | `DistinctSurfaces`, `LooksGenuine` |
| `eval` | two documents, either stage or both, each call refused, unreadable, broken, repeated or late | `RestoresWhatItSent`, `VerdictSound`, `NoSilentGap`, `CleanedUp`, `EndsClean` |
| `scoring` | two documents; any annotations of six (nested, under two types, invalid ones too) and any spans of six that `resolve_overlaps` may return; any call of stage one failing | `Stable`, `ExactWithinOverlap`, `SumsAgree`, `MissedIsLeaked` |

Most runs check the module's type invariant as well. Three more runs show a
statement of the repository that the code does not keep (section 4).

**Bounds.** Sessions share nothing but the process, so one is enough. Two calls
are needed for every race of the vault; the third is the one that reads what
the two have left behind. A fake pool of two plus one forced fake makes draws
collide. The deadlines are abstracted: a coroutine lasts far less than the TTL
(1800 s by default), so `Idle` makes a TTL due only when nothing is under way,
and the key then goes before or after the next requests have started. In
`chat`, a third request meets no interleaving that two with a common and a
private name do not have. In `text` the lengths of fakes and originals differ
in both directions. In `service`, `MaxTick` is 3: a time before the cached one, that
one, and two after it; one entity type and the default meet each way to write a
value (present, absent, out of range, no number), and thresholds of several
types do not touch each other. In `mint`, the pools hold two or three values, so a
session of three exhausts `MaxAttempts` (4, as in the code), and `MaxSuffix` (20) is
never reached. In `eval`, `Attempts` is 2 (the code: 3), `MaxLate` bounds
the late calls under way to 2 at a time, and `MaxTroubled` the sessions in which anything
goes wrong to 2 of at most 4: a late call of one document must meet another
document, and a failed stage a good one. In `scoring` one span overlaps two entities and
one entity two spans, a name and a part of it are both annotated, a number is
written with and without its dash, and the second document makes the sums
differ from the reports.

**Fairness.** The event loop runs every ready coroutine, and every Redis
command and HTTP call ends (by its time-out if not before): weak fairness of
the steps. `asyncio.Lock` wakes its waiters in the order they came, so a call that finds
the lock free again and again gets it: strong fairness of `Acquire`. A key with a TTL
expires: weak fairness of `Idle` and `Expire`. Nothing is assumed of
failures, of the loading of the model, of a provider's answer (only that its client
gives up), or of a late call of the harness.

## 4. What the code says and does not do

Each of these is a run in which TLC finds the statement violated.

* `delete_breaks_serial`: "that critical section runs serially per session"
  (`session_lock_registry.py:6`). `delete_session` forgets a lock that is held, and the
  next call creates another. Without deletes the statement is proved.
* `surname_collides`: "no fake is reused for a different original" (spec 003
  FR-015). A surname alone is aligned to the one-word fake it has in the full name's
  fake, and another bearer of the surname is then aligned to that.
* `original_minted`: "No original personal data MUST ever appear ... in any
  outgoing request" (spec 005, line 307). The shift of a date may be zero years, its day
  and month stay, and nobody compares a fake with its original: a date written
  with dots is kept as it is in one draw of twenty-one.

More statements that do not hold are stated in the modules; adding the name to the
run's configuration shows the counterexample:

* `ProviderFailuresMapped` (`chat`): "Provider failures map to 503/504/429" with the
  `session_id` (`chat.py:13`). Status errors no adapter names end in a bare 500.
* `OnePerRegion` (`text`): "Keep one best entity per region" (`engine.py:75`). Spans that
  overlap in part are both kept, and one's fake is cut by the other's.
* `FuzzyOnLeftTokens` (`text`): the fuzzy pass runs "only on tokens it left"
  (`fuzzy_restoration.py:3`). It runs over the whole text, and rewrites a restored
  surname that is close to another person's fake.
* `FailureNotScored` (`eval`): a document whose detection was refused is not scored "as a
  detection result" (spec 008, edge cases). It gets a report with an empty span list.
* `AnySurvivingIsLeak` (`scoring`): the audit scans for "ANY surviving occurrence"
  (`leak_audit.py`). Of a short name only the first occurrence is looked at: when
  that is the part of a longer word, a later one that stands alone escapes.
* `AnyEditApplies` (`service`): "editing the file takes effect on the next
  request" (`thresholds.py`). An edit within one tick of the clock is not noticed.

Seen while modelling:

* Vault: `bump_message_count` is a read-modify-write outside the lock, so
  concurrent counts may be lost, and one that straddles a delete writes `meta`
  back without a TTL; a key that expires between a call's read and its write leaves
  a session without some of its records (`Reversible` still holds); a forced
  fake has no forms, and a name that has one is counted in `meta` and missing from every
  summary (`SummaryCountsMappings` in `vault_quiet` with `EntityOf <- TwoPeople`); two persons
  whose fakes have a surname in common share it as the fake of their surnames; the exact record
  of a form is overwritten by each mention, so the last surface wins for
  every occurrence in a text.
* Chat: the Redis gate's 503 has no `session_id`, and a raised 500 no log line; a
  fake with another number of words than its original makes the fuzzy pass insert
  the whole original once per word.
* Model: a failed load is not tried again until a restart; a failed read of the
  thresholds caches the defaults until the file is written again.
* Fakes: the last of the attempts is not looked at but always numbered, and a
  forced identifier fails its own checksum (spec 003 FR-003/004, and "never a
  numeric suffix", `generators.md:42`); a date moved by ten years and written in
  words may be off by more, since its day and month are drawn anew.
* Evaluation: a run in which every call fails has no leaks and exits with 0;
  under the exact policy, the second pass pairs entities and spans by position and may
  put a pair of one type on the diagonal; masking the fakes hides a surviving original that
  equals one; the digits of two numbers are joined when an identifier is
  sought, which may report a leak that is none; surviving occurrences
  of one original are counted once.

## 5. What is proved

Every safety property the runs check is also a theorem, for all values of the
constants; some have hypotheses, which are given below. The named assumptions say what the
constants stand for; TLC evaluates them on each run:

* processes of different kinds do not overlap; entities and fakes are sequences of
  tokens (`EntityAssumption`, `FakeAssumption`, `TextAssumption`);
* a candidate has at least one character and natural scores, and no other candidate has the
  same span, score and type (`CandidatesAssumption`, `DistinctAssumption`); `detect`
  passes the offsets of one text (`TextAssumption`);
* a fake that stands in another fake is shorter in characters (`LengthAssumption`);
* the corpus and the reports are finite, a predicted span is not empty
  (`DocumentAssumption`, `SpanAssumption`), a part of a text has a width (`WidthAssumption`);
* what the random generator returns are digits and dates of the calendar, and an original is of a
  type that has a builder (`RollsAssumption`, `OriginalsAssumption`, `PoolsAssumption`).

Each theorem has an inductive invariant; these are what it took.

* `SessionVaultProofs`
  * `TypeCorrect`: `TypeOK` is an invariant.
  * `LocksExclude`: no two calls hold one lock object. Inductive invariant `LockInv`: a
    call in the section holds the lock it was given.
  * `SerialWithoutDelete`: if there are no deletes, calls are serial. Adds
    `RegistryInv`: the lock of every call that waits or works is the registered
    one; `DiscardLock` is the one action that breaks it.
  * `AtomicWithoutDelete`: if there are no deletes, the calls implement
    `AtomicVault` - with Redis errors, restarts and expiry. Adds `DecisionInv`: a
    call between its miss and its write has an original that is still unmapped; seriality
    is what keeps that true.
  * `AlwaysReversible`: every forward and forms field has its reverse records,
    also with deletes. It is inductive with `TypeOK`.
  * `ExpiringWhenAtRest` (`AlwaysExpiring`), where no command fails and the process goes
    on: from `ExpiringInv`, in a session without a
    TTL a call is still to set it. It holds under deletes and expiries without message
    counts, or with counts and without these: a count that straddles a delete is
    the counterexample to more.
  * `NothingLost` (`NoLostUpdate`), without faults, deletes and message counts. `CountInv`: the counter lags behind the mappings by
    one while a call is between its two writes; `ListInv`: every name is
    listed, or its call is about to; `EmptyInv`: nothing is stored before the first
    mapping. Seriality and `DecisionInv` are what makes a call's write
    a new mapping.
  * `ManageableAtRest` (`ManageableIfStored`), without faults and deletes, and with any number
    of message counts: these lose updates of the counter, but `ManageInv` - what is
    stored has its meta record, or a call is about to write it - survives them, since
    a count writes back a record only if it has read one.
  * `FakesDistinct` (`DistinctFakes`) and `RestoresTheOriginal`
    (`RestoresSameOriginal`), with Redis errors and restarts, without deletes and expiry, and
    if `NamesApart`: no two names of the session corefer. Where names do, the statement is
    false: the run `surname_collides` is the counterexample. `HoldInv`, which does not
    depend on that: a reverse record gives back an original that has the fake
    (`OwnedInv`), the coreferents listed have the fakes listed, and a call that has stored its
    mapping keeps a surface of it (`HandOf`). `FreshInv`: the fake that is about to be stored
    is in no record.
  * What is left of these where names corefer. `IdentifierFakesDistinct`: identifiers,
    which are always minted, never share a fake (`FreshInv` of their types).
    `PersonsShareNoFake` and `RestoresToThePerson`, for any `P` that says whom an
    original is of and puts coreferent mentions together (`PersonOf`; the bearers of a
    surname that is also mentioned alone are then one, as in `surname_collides`): in every
    state where no name among the generator's fakes in use has a word of another one
    (`WordsApart`), no fake stands for two persons, and what a finished call has put into
    the text restores to a mention of its person. So there are two ways for two persons to
    get one fake: a mention that fits both of them, and two drawn names with a surname in
    common, which the generator may well mint. `PersonInv`: the fake of every mapping is made of words of a generated one (`Rooted`, from
    `AlignedWords` and `ResolvedWords`: what `aligned_fake` returns are words of the fake
    it aligns with), names whose fakes share a word are of one person
    (`Meets`), and what a call has in hand is drawn and new or cut from the fake of
    its person (`InHand`).
  * `SummariesCount` (`SummaryCountsMappings`): under the conditions of `FakesDistinct`, and if
    the draws of names do not run out (`NamesDrawn`), a summary shows a pair for each mapping
    it has counted. A forced name has no forms, and no summary shows it; TLC
    has the counterexample when the hypothesis is dropped. `CountedInv`: the
    counter in `meta`, and every copy of it someone is about to write back, is
    at most the number of mappings. The number of pairs is counted along a bijection.
* `ChatRoundTripProofs`
  * `TypeCorrect` and `NothingLeaves` (`FailClosed`), from `SendInv`: what was
    sent is what the vault answered for each entity, and it was sent with
    the model loaded.
  * `OneFakeInAllPayloads` (`PayloadsAgree`), from `MappedInv`: as long as the
    session is kept the vault is injective and still maps every answered original.
  * `AnswersRestored` (`RestoresOwn`), from `AnswerInv`, which says at each
    stage of the restoration what the words of the answer are.
* `TextRoundTripProofs`, for any text, candidates and fakes, of any lengths
  * `UnbeatenKept` (`KeepsUnbeaten`): the greedy pass keeps exactly the candidates
    no other beats. The loop invariant says this of the candidates already seen, and that
    these come before the others in the order. `LostOnlyToThresholds` (`NothingDropped`)
    follows from it.
  * `NothingLeaksOut` (`NoOriginalSent`): also when entities overlap in part, no word that
    stands only in entities is sent. `RouteInv`: the splice goes from the end, all before the
    entities already spliced is the original text, and every other word is one of a
    fake or stands in no entity. That no entity is within another one (`Unnested`, from
    the detection) is needed: a splice inside an earlier one would start at a stale offset.
  * `SentRight` (`SentAsIntended`): the splices, each at offsets into the
    original text, give the flattening of one piece for each word. `PayloadInv`: from some
    border of the text on, what stands there is what the pieces from that border on come to.
  * `RestoredExactly` (`RestoresExactly`): an answer that repeats the payload is restored
    word for word. `RestoreInv`: before each pass the text is the payload in which the
    entities whose fakes had their pass are words of the original again. That a pass
    touches nothing else (`PassRestores`) is where the code's choices count: the
    longest fake that is left is in no other one (`OthersNotOccur`), and an occurrence that goes
    past an entity would take a word of the text (`WordsNotOccur`). `ReplacedIs` and
    `PiecesReplaced` say what the scan of `re.sub` makes of a text of pieces.
  * `FormsRestored` (`RestoresInflected`): an answer that puts any words of the names into
    another form is restored as well, if `FormsNear`: within the gates of the fuzzy pass,
    each form of a word of a fake is nearer to that word than to any word of another fake,
    no fake that inflects has a word twice, and no form is itself a word of a fake.
    The code sees to none of this - it is what the minted names have to be like for the
    two passes to be right - and `MCTextRoundTrip` has it as `FormsAssumption`, so TLC
    evaluates it for the names of the run. `FormsInv`: the text is the answer in pieces,
    one for each word of the text, with the unchanged fakes that had their pass restored.
    A pass cannot begin within a piece that came back inflected (`NoneBegins`, from
    `OthersCannotBegin`, `OwnCannotBegin`, `WordsCannotBegin`: fakes share no
    word, a fake has each word once). After the passes there is one word for each word of
    the text (`AlignedAt`, where a fake is as long as its original), and what the fuzzy
    pass puts there is the word of the nearest fake (`NearestIsBest`, `FuzzyForms`).
* `DetectionServiceProofs`, for any contents of the file and any clock
  * `TypeCorrect`.
  * `ThresholdsFresh` (`AnswerFresh`), from `TimesInv` (no time that was seen is
    after the last write), `CacheInv` (the cached table is what the file says, if it
    is cached under the time of the file and that time tells the contents) and
    `ParseInv`. The cache may hold a table newer than its key, never an older one.
  * `GateBeforeModel` (`AdmittedFindsModel`), from `ModelInv`: the flag is set
    after the engine, and only a restart, which ends the request, takes it away.
* `FakeMintingProofs`, for any pools and number of attempts
  * `DistinctInSession` (`DistinctSurfaces`), from `UsedInv`: `used` holds
    every surface of every mapping.
  * `TypeCorrect` and `UnforcedLookGenuine` (`LooksGenuine`), from `MintInv`: the last
    draw is one its builder may make for the entity at hand, and every mapping that was not
    forced passes for genuine.
  * The builders, for any digits and dates they draw: `NipAccepted`, `RegonAccepted`,
    `PeselAccepted`, `BankAccountAccepted` and `DateAccepted`: what they make passes the
    checks of the recognizers. `PeselMade`: the gender and the date of birth are read
    back from a PESEL, and no other date is; `NrbMade`: the check digits of an account are
    right modulo 97, by way of the remainders of the digits read one after another.
* `ScoringProofs`, for any documents, entities, spans and answers
  * `AlignmentIsStable` (`Stable`): what is aligned so far is one to one, and each
    pair that was considered and is not aligned has lost to an earlier one.
  * `StrictWithinPrimary` (`ExactWithinOverlap`): a pair of equal extent overlaps more
    than any other pair of its entity or span, so stability gives the rest.
    `StableThroughout` and `StrictWithinThroughout` say both of whole evaluations.
  * `TypeCorrect` and `ResultsAgree` (`SumsAgree`), from `EvaluationInv`, a conjunction of
    what the passes have aligned (`LoopInv`, `CrossInv`), how far the run has come
    (`Progress`), what the gateway has answered (`Answers`), what the audit of this document has
    found (`Audited`), the reports (`ReportsAgree`: each row and column of the matrix adds
    up to the counts of its type, in the sums over documents as in each report) and the
    restoration and leaks (`Counted`: they lag behind by the entities that wait for the audit).
  * `SurvivorsReported` (`MissedIsLeaked`), from `KeptInv`: an entity no span touches
    is still in the outbound text, and masking the other fakes leaves it there. It
    needs `NumbersHaveDigits`: an annotated identifier without a digit would have no digits
    to look for, and no validation of the corpus excludes one.
* `EvaluationRunProofs`, for any number of documents, attempts and late calls
  * `TypeCorrect`, and `OrderInv`, which says where in the run each call, the report
    and the exit code stand.
  * `StageOneRestores` (`RestoresWhatItSent`), from `RestoredInv` and `SentInv`: the
    session still keeps the fake of the text that is to be restored. `LateInv` (a late
    call belongs to a stage that has begun, a late delete to one whose calls are
    over) is why no late call can change that.
  * `ExitIsVerdict` (`VerdictSound`), from `VerdictInv`: `leaks` are the
    documents audited so far whose outbound text leaks, and those do not change.
  * `GapsOnRecord` (`NoSilentGap`), from `DoneInv`: a stage that is over has its
    text back or an error, and keeps them.
  * `NothingLeftBehind` (`CleanedUp`), from `StoredInv`: only the current session and
    those with a call given up are stored.

**Loops over data.** The induction theorems of the library take an operator as a
parameter, which no backend here instantiates. What a fold, a recursive function or a scan
computes is proved with a least counterexample instead: `LeastNumber` and
`SmallestSubset` in `Sums` follow from the well-foundedness of the naturals and of finite
sets, and the set of counterexamples, whose least member is refuted by one
unfolding, is an ordinary set. `Sums` derives in this way that a recursive sum
exists, that it does not depend on the order, that sums add and that a tally by type
comes to the number of what is counted, and what `FlattenSeq` returns (`FlattenChain`,
`FlattenType`); `ReplacementExists` and the
digits of `NrbMade` follow the same pattern.

Only model-checked is liveness (`CallsEnd`, `SessionExpires`, `RequestsAnswered`,
`EndsClean`), which the prover does not support. The cases that a theorem's hypotheses
leave out are either refuted by a run that expects a violation (section 4) or open: of
`DistinctFakes` and `RestoresSameOriginal` while a session is deleted or expires under its
calls, neither a run nor a theorem says what is left. `FormsNear` and `WordsApart` are
conditions on the fakes that nothing in the code enforces.

## 6. What is not modelled

The regular expressions and the spaCy model behind the candidates (they are any
set), the pools of Faker and the suffix tables (tables of an instance), AES-GCM
(a stored value is its content), metrics, configuration and health
reads, the generation of the corpus, latency percentiles and the
formatting of reports, the Anthropic adapter's merging of turns, and the single-page
client. `PROJECT.json` lists them with the reasons. Redis, httpx and
the provider clients are external: they are modelled from how the code uses them.

## 7. Plan

Done, in this order, the most important behaviour first: vault, its atomicity,
chat round trip, detection and texts, evaluation run; then scoring and the leak
audit, model lifecycle and thresholds, minting and identifiers, with the theorems above.

Next:

1. Proofs: what `DistinctFakes` and `RestoresSameOriginal` come to when a session is
   deleted or expires under its calls.
2. `mint` as the implementation of `SessionVault`'s `Mint`: the pools and
   `Forced` of the vault replaced by what `FakeMinting` stores.
3. The message count under deletes in the vault's runs.
4. The Anthropic adapter's turns (`_split_system_and_turns`), finish reasons.
