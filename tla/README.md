# authnd, modelled and proved

TLA+ modules of [authnd](../src/README.md), an LDAP directory server (with an
optional Kerberos realm) over the people and groups of a configuration file and
of other directories. TLC checks small instances; TLAPS proves, for every value
of the constants, what is listed under *What is proved*. `PROJECT.json` says
which lines of `src/` each definition translates.

## The system

| part | state it keeps | operations | talks to |
|---|---|---|---|
| snapshot and refresh (`refresh.go`, `roster.go`, `groups.go`) | `s.snap`, `s.gen`, `s.refreshing`, `s.failing` | `startRefresh`, `refreshOnce`, `refreshTry`, `read`, `noteRefresh`, `tooOld` | every source; swaps what binds, searches and the KDC read |
| password change (`server.go`) | `s.local`, `s.mu`, `s.swapMu`, the configuration files | `Modify`, `Extended`, `provesPassword`, `writeProved`, `writePassword`, `reloadLocal` | the files, the source of the password, the snapshot |
| bind (`server.go`, `limits.go`, `factors.go`, `helpers.go`) | `pendingChecks`, `codes` (used codes, wrong codes in a row) | `Bind`, `within`, `acquireCheck`, `releaseCheck`, `knowledge.Verify`, `afterPassword`, `decide`, `verdict` | a source, from a goroutine that may outlive the bind |
| token bind (`oidc.go`) | the issuer's keys (library) | `openOIDC`, `BindSASL`, `tokenFactors` | the issuer, the snapshot |
| certificate store (`certs.go`) | the pair served, the stamps of the files served and of the ones that failed, the time of the last look | `get`, `Reload`, `reloadLocked` | two files a renewer writes one after the other; handshakes; SIGHUP |
| startup and shutdown (`root.go`, `server.go`, `limits.go`) | `finished`, `abandoned`, `serving`, `closed`, the listener | `startup`, `listen`, `serve`, `runUntil`, `Close` | the LDAP library, the KDC, the refresh loop, the signal |
| KDC front (`kerberos.go`) | two sockets | `openRealm`, `listen`, `serve`, `close`, `realmPeople.Find` | the snapshot, go-authn/kdc |
| search (`server.go`) | none | `Search` | one snapshot |
| publication (`entries.go`, `declared.go`, `samba.go`) | the entries of a snapshot, built once; of each entry, what Validate said of it | `publication`, `build`, `personEntry`, `groupEntryFrom`, `unmet`, `validated` | the snapshot, the schema |
| tree rules (`structure.go`) | the rules of the two containers | `checkStructure`, `placed` | the publication, the schema |
| site schema (`siteschema.go`) | who defined what first | `directorySchema`, `owners.add`, `refusal` | schema files and blocks |
| configuration (`config.go`, `limits.go`, `refresh.go`, `samba.go`) | none | `loadConfig`, `check`, `checkRefresh`, `checkLimits`, `checkSamba` | the files |
| `check`, the password codec, drivers | none | `report`, `decodePasswdModify`, imports | |

What is hard in it:

* a refresh reads for seconds without a lock while a password change writes the
  files, re-reads them and swaps the same snapshot: `gen`, compared under
  `swapMu`, is all that keeps an old password from coming back;
* the old password is proved without `s.mu` (a source may hang) and used with it;
* people and groups are read at two moments, and the age counts from the end;
* a refresh may outlive its period, Close and the loop that waited for it;
* a password check may outlive its bind, and its slot at the source must be
  counted until it really ends;
* one outage among several factors must not read as a wrong password;
* a startup that gives up races the work that still opens the sources;
* Close may fall between any two steps of listen, serve and the libraries;
* the renewer writes two files, and the store reads each of them twice;
* an entry is built, asked about, built again without the classes it cannot carry,
  asked again, stripped, asked again: every verdict is about an entry that may be
  gone by the time it is used;
* startup checks declared classes and the tree once, for data that changes later.

What makes each part correct:

* *snapshot, password change*: the served file people are the live source's
  (`LocalServed`), what is served only changes as an atomic register would
  (`ImplementsRegister`), no two spellings of one name are served
  (`NoTwoSpellings`), refreshes do not overlap (`NeverOverlaps`) and the data
  never gets older (`BuiltNeverGoesBack`), nobody is admitted on data that is
  too old (`AnswersAreYoungEnough`, `RefusedWhenStale`), a revocation arrives where
  what the sources hold can be published, and where it cannot the server knows
  (`RevocationArrives`, `OutageIsNoticed`), every change is answered
  (`EveryChangeIsAnswered`);
* *bind*: `ChecksAreBounded`, `PendingIsExact`, `ProvedBeforeSuccess`,
  `OnlyAWrongHalfIsDenied`, `CodeUsedOnce`, `OnlyTheOwnerIsCounted`,
  `TokensCountKinds`;
* *certificates*: `StampsTell`, `NeverBackwards`, `RenewalArrives`;
* *startup and shutdown*: `StartupOwnsItsSources`, `ClosedExactlyOnce`,
  `NoRefreshAfterTheWait`, `PortIsFreed`, `StopEnds`;
* *publication*: what is returned passes the schema served (`PublishedPasses`),
  what is withheld does not (`WithheldFails`), every loss is said and has a cause
  (`LossesAreSaid`, `LeftOffForCause`), no class goes out unchecked
  (`OnlyCheckedClasses`), one SID is one person (`SidsAreDistinct`), and the NT
  hash stays where it was asked for (`HashesStayPrivate`);
* *tree rules, site schema, configuration*: `NameFormsHoldAfterStartup`,
  `ServedAsFirstDefined`, `AgeOutlastsRefresh`.

## The modules

| module | what it is |
|---|---|
| `Directory` | the refresh loop, its worker, password changes, and whoever reads the snapshot |
| `PasswordRegister` | the abstract specification: `stored`, `served`, one change at a time, nothing else in it |
| `DirectoryRefinement` | the mapping from `Directory` to `PasswordRegister` |
| `DirectoryInvariant` | the inductive invariants, in named parts |
| `DirectoryProofs` | the theorems about the file's people who are served, and two spellings of one name |
| `AgeProofs` | the theorems about the age of what is served, and refreshes that do not overlap |
| `RegisterProofs` | the theorem that `Directory` implements `PasswordRegister` |
| `Bind` | binds with passwords, codes and tokens, and their check goroutines |
| `BindProofs` | the theorems about who is let in and on what, the checks counted, the codes used |
| `CertStore` | one store, several handshakes and SIGHUPs, a renewer |
| `CertStoreProofs` | the theorems about the pair served and the stamps kept of it |
| `Lifecycle` | the process from `open` to the end of `Close` |
| `LifecycleProofs` | the theorems about the sources, the refresh loop and the port at the end |
| `SchemaRules` | go-authn/ldap's schema, as authnd uses it: does it build, what does Validate say, which rule places an entry |
| `Configuration` | the checks that relate keys of a configuration, and what it resolves to |
| `Entries` | one entry: built, rebuilt, stripped, placed, measured; the tree at startup |
| `Opening` | `open` step by step, and what searches answer through refreshes, edits and password changes |
| `EntriesProofs` | what `Chain`, `Unmet`, `Build` and the rest return, for every schema, tree and person |
| `OpeningProofs` | the theorems about the configuration a server runs with and what it publishes |
| `MCDirectory`, `MCBind`, `MCCertStore`, `MCLifecycle`, `MCOpening` | the small instances |

They are separate because the code's parts meet at few points: `Bind` and the
clients of `Directory` meet at `tooOld` and one load of the snapshot (in `Bind`
any look may find the data too old); `Lifecycle` has the refresh loop and its
worker only as far as Close waits for them; `CertStore` is on its own. `Opening`
has every step of `open` but the one whose races `Lifecycle` has, and takes
a refresh and a password change as one step each: their interleaving is
`Directory`'s, and what is published is a function of the one snapshot it leaves.

### Directory

The code's shared variables keep their names (`snap`, `gen`, `local`, `mu`,
`swapMu`, `refreshing`, `failing`). Two sources are modelled: the file, whose
identities carry a password, and `upstream`, whose identities can only ask
upstream; more sources of the second kind behave alike. Each goroutine has a
record with its place (`at`) and its local variables:

* `worker[k]`: `refreshOnce`'s goroutine. `LoadGen` is `gen.Load` before a read,
  `ReadPeople` is `dir.Identities`, `ReadGroups` is `newRoster` and `readGroups`,
  `CheckSnapshot` is `checkConfigGroups` and `newSnapshot`'s clock, `Swap` is
  the comparison and the store under `swapMu` with the retry, `Note`, `Release`
  and `CloseDone` are what is deferred, in its order;
* `session[s]`: one `Modify` or `Extended`. `Ask` and `Prove` run without a lock,
  `Lock` takes `s.mu`, `Recheck` is `writeProved`'s second look, `WriteFile` is
  `hcldir.SetPassword`, and `LoadConfig`, `SwapLocal`, `StoreSnapshot`,
  `BumpGen` are `reloadLocal`; every early return is a `Reply`. An identity of
  `upstream` may be of somebody without a password there (`Passwordless`), who is
  refused before anything is asked (`Verifies`);
* `client[c]`: a bind, search or ticket request: `Admit` is `tooOld`, `Answer`
  the load of the snapshot after it.

That an identity is a pointer matters in one place: `writeProved` compares the
one it proved with the one served. `moved` says the two differ; a swap sets it
for everybody, a rebuild for the file's people (`Moved`, `Remade`).

`lastRead` is a history variable. The unit of time
is the refresh period; `max_age` is a number of them.

### Bind

`bind[b]` is one request, `check[c]` one goroutine of `within`. The channel of
the goroutine is the field `done` of the bind that made it. `Look` is what `Bind`
answers before a password is asked for; `Ask` starts a goroutine or finds the
source at its cap; `Hear` and `GiveUp` are `within`'s select; `AskCode` is
`afterPassword`, `Decide` is `decide` and `verdict`. `totp.Verifier` and
`mfa.Verify` are libraries: the first accepts a right code once and pauses an
account after `MaxGuesses`, the second wants two kinds of factor. `LookAtToken`,
`VerifyToken`, `IdentifyToken` are `BindSASL` in the order it looks.

### CertStore

The content of a file is a number, larger for what the renewer wrote later. A
pair loads when both have the same, good number. `StampCert`, `StampKey`,
`LoadCert`, `LoadKey` are the four reads of one look, with the renewer between
any two. Each may find nothing (`Read`): the files are absent or cannot be
opened for a while (`ReadsChange`), and a load then fails although the pair
matches. The pair served is one number, because tls.LoadX509KeyPair returns
nothing that does not match; what can come apart is that pair and the stamps
kept with it, and `StampsTell` is about those.

### Lifecycle

`main` is where the process's main goroutine is, from `startup` through `listen`
and `runUntil` to the deferred `Close`. A second `Close` does nothing (`Mark`).
`WriterTakes` and `WriterGives` are a password change that holds `s.mu` while
Close or serve wants it. Without `startup_timeout` the code runs the work in
line; the model runs it beside a main that only waits, which is the same.

### SchemaRules, Configuration, Entries, Opening

`SchemaRules`, `Configuration` and `Entries` have no variables: they are the
operators `Opening` is built from, one for each function of the code, and keep
its names (`PersonEntry`, `GroupEntryFrom`, `WithDeclared`, `Unmet`, `Validated`,
`Placed`, `Sized`, `CheckStructure`). An entry is a record like the struct
`entry`, with `checked` and `checkedErr` as the code has them: `Asked` is
`validate`, which asks once, and `Without` is the place that forgets the answer
when an attribute goes. Classes and attributes are sets of names, a value is
only whether its syntax allows it (`bad`), and a person's `uidNumber` is a
number, because the SID is computed from it in 64-bit arithmetic (`Rid`).

A schema is four functions: classes, attribute types, content rules and
structure rules by name. `SchemaRules` is the one module about a library; it
says of `Validate` exactly the problems that `entries.go` and `declared.go` read.

`Opening`'s `phase` is where `open` is: `check` (`config.check`), `schema` (one
`AddDefinitions` for each file or block, with its owners and refusals, and then
`checkDeclared`), `structure`, `readers`, `tokens` (`openOIDC`), `sources`,
`serving` or `refused`. Then `snap` is the served snapshot, `pub` what
`publication` built from it at the first search, `answer` what a search
returned. `file` is the user block on disk: somebody edits its
`object_classes`, and the next password change reads it (`ReloadLocal`), after
`checkDeclared` has long run. `Handed` is a `users` block of the configuration, with the
classes it declares for its people and its groups.

## What the runs show

| run | bounds | shows |
|---|---|---|
| `writes` | 2 changes by anybody to anything (one of the three people has no password upstream), 1 refresh worker, 1 edit of the files (a person added, removed, or a file that does not parse) or of the other directory | `TypeOK`, `LocalServed`, and that `Directory` implements `PasswordRegister` |
| `ages` | 2 workers, 1 change, 1 client, a source that answers, fails or hangs, two spellings of one name; `max_age` 1, 5 moments | `NeverOverlaps`, `AnswersAreYoungEnough`, `NoTwoSpellings`, `BuiltNeverGoesBack`, `RefusedWhenStale` |
| `revocation` | 2 changes, 1 worker, 2 changes of the other directory or its health (it answers or hangs); two people may be revoked there, of whom a group block of the start names one | `OutageIsNoticed`, `RevocationArrives`, `EveryChangeIsAnswered` |
| `certs` | 2 lookers, contents 0..2 of which 1 does not parse, files that cannot be read for a while | `TypeOK`, `StampsTell`, `NeverBackwards`, `RenewalArrives` |
| `stop` | every configuration (realm, refresh, timeout), 2 connections | the five properties of startup and shutdown, `StopEnds` |
| `bind` | 2 binds and 2 check goroutines (of this moment or abandoned), cap 1, 1 wrong code before a pause, with and without an mfa block | the seven properties of a bind |
| `opening` | ten families of configurations, 3 states of a database, 1 change of it or of the file | the eleven properties of publication, tree, site schema and configuration |
| `blocks`, `waits`, `left`, `token` | the smallest instance that has the case | see *Findings* |

Why these bounds: two changes are needed for a change to overwrite another,
one worker for a refresh to undo a change, and two for refreshes to overlap;
each of them can make a refresh read once more, so the third attempt of `refreshTry` is
reached and giving up after it is not: `ServedIsLocal` proves what matters there for
any number of changes. Two people (one
per source) and two passwords give every relation of a request to what is served; a
third, also upstream, is the one without a password, and the one
whose revocation leaves every group block of the file whole. `max_age` 1 with
a clock of 4 has data that is young, exactly `max_age` old and too old, both
before and after a swap. A cap of 1 with two binds has a source at its cap, and
a check abandoned and still counted. Contents 0..2 have a renewal that is torn,
one that does not parse, and a good one after it. Counters that are bounded:
`changes` (`MaxChanges`), `now` (`MaxTime`; where there is no `max_age` the clock
is not kept and ticks go on for ever), `conns` (`MaxConnections`), contents
(`MaxContent`), wrong codes (`MaxGuesses`, where the library pauses the account).

`opening` has ten families, each with every combination of what one question
asks about: the refresh period and `max_age` (written, left out, 0, negative, each
side of the other's default), the limits, TLS with loopback and samba, the factors,
`uidNumber`s around each bound, domains, schema files that do not go
together in any order, people of each shape declaring each set of classes with no
content rule and with rules that allow everything, nothing, or all but one class,
and structure rules for every choice of RDN. Integers are narrowed so that the
bounds meet: `Max32` is 15 and `Max64` 63 where the code has 2^32-1 and 2^64-1, and
the RID base 2, which keeps their order (`ConfigurationAssumption`). `declared` has the
same instance.

Sessions, workers, binds and checks are symmetric in runs that check safety
only. No run with a liveness property uses symmetry. Deadlock is not checked: every
session may have been answered, a process ends, a source may hang for ever, and a
server that refused to start has stopped.

### Fairness

`Directory`: weak fairness of the tick, of the loop, of each worker and of each
accepted request. Go runs every goroutine that can run. Nothing outside is
fair: `EveryChangeIsAnswered` has the health of the source as its premise, and a
worker in a source that hangs has no step to take.

`RevocationArrives` has two premises, that the source answers and that what
the sources hold can be published (`SourcesHold`): no name is spelled twice and
every group block names people who are served. The second is needed. A group block
of the start that names somebody revoked upstream makes every later refresh
fail, and the last good snapshot stays, as src/README.md:517 says; TLC violates the
property in this run without the premise. What the server promises then is
`OutageIsNoticed`: it ends up failing, which is said and is what `max_age` bounds. That
has one exception, `Waits`: while the second check of a password holds `s.mu` against a
source that hangs, `noteRefresh` waits for `s.mu` too, and nobody is told. `revocation`
has no edits of the file, for its size only: an edit with a clash is the same
premise.

`CertStore`: clients keep coming and the clock goes on; strong fairness of
taking `s.mu`, since Go's mutex does not starve. Nobody has to send SIGHUP, and
nothing makes the files readable: `RenewalArrives` is about files that stay
readable from some moment on. It excepts one state of the files, the one stamped as
failed: a read that fails between stamping and loading a good pair
leaves that pair untried until the next renewal or SIGHUP (see the hazards), and TLC
violates the property without the exception.

`Lifecycle`: strong fairness of main and of serve, which take `s.mu`, and of the
loop's end: its select may take a tick while the context is done, but not for
ever. No fairness of the startup's work nor of the worker: a source may
hold them. `StopEnds` starts at the signal `runUntil` receives.

`Bind` states no liveness: with every step fair it would say nothing that the
absence of a stuck step does not.

## What is proved

TLAPS checks every theorem below for all values of the constants that the named
assumptions allow: any number of names, sessions, workers, binds, handshakes,
people, classes, files, any clock and any bound. The assumptions say of each
constant what the code's types or its library say; TLC evaluates them on every run.

| module | theorems (the property each states) | assumes |
|---|---|---|
| `DirectoryProofs` | `TypeCorrect` (`TypeOK`), `ServedIsLocal` (`LocalServed`), `GenerationIsEnough` (`GenerationTells`), `SpelledOnce` (`NoTwoSpellings`) | `ConstantsAssumption` |
| `AgeProofs` | `RefreshesDoNotOverlap` (`NeverOverlaps`), `AgeNeverGoesBack` (`BuiltNeverGoesBack`), `AnswersStayYoung` (`AnswersAreYoungEnough`), `StaleIsRefused` (`RefusedWhenStale`) | `ConstantsAssumption` |
| `RegisterProofs` | `PasswordsAreARegister` (`ImplementsRegister`), `ProvedWhenWritten` (`ServedIsProved`) | `ConstantsAssumption` |
| `CertStoreProofs` | `StoreTypes` (`TypeOK`), `StampsTellTheTruth` (`StampsTell`), `StoreNeverGoesBack` (`NeverBackwards`) | `CertAssumption` |
| `LifecycleProofs` | `LifeTypes` (`TypeOK`), `StartupKeepsItsSources` (`StartupOwnsItsSources`), `SourcesClosedOnce` (`ClosedExactlyOnce`), `NoRefreshAfterClose` (`NoRefreshAfterTheWait`), `PortFreedForGood` (`PortIsFreed`) | `LifecycleAssumption` |
| `BindProofs` | `BindTypes` (`TypeOK`), `PendingCountsChecks` (`PendingIsExact`), `ChecksStayBounded` (`ChecksAreBounded`), `SuccessIsProved` (`ProvedBeforeSuccess`), `DenialIsDeserved` (`OnlyAWrongHalfIsDenied`), `CodesAreUsedOnce` (`CodeUsedOnce`), `OwnersAreCounted` (`OnlyTheOwnerIsCounted`), `KindsAreCounted` (`TokensCountKinds`) | `BindAssumption` |
| `EntriesProofs` | `ChainIsClosure`, `InvalidIsUnpublishable`, `BuildPublishes` (of operators, not of a specification) | only what they state |
| `OpeningProofs` | `AcceptedForGood` (`Accepted`), `AgesOutlastRefreshes` (`AgeOutlastsRefresh`), `OpeningTypes` (`TypeOK`), `FirstDefinitionIsServed` (`ServedAsFirstDefined`), `OnlyPassingArePublished` (`PublishedPasses`), `OnlyFailingAreWithheld` (`WithheldFails`), `OnlyCheckedAreCarried` (`OnlyCheckedClasses`), `EveryLossIsSaid` (`LossesAreSaid`), `SidsStayDistinct` (`SidsAreDistinct`), `HashesAreKeptPrivate` (`HashesStayPrivate`); where the schema stands alone, `ClassesGoForCause` (`LeftOffForCause`), `NamesHold` (`NameFormsHoldAfterStartup`) | `ConfigurationAssumption`, `ConfigurationsAssumption` |

Each proof of an invariant has one step per action and, under it, one per conjunct
the action can disturb. The arguments:

**Directory.** `LocalServed` is not inductive: it says nothing while `swapMu` is
held, nor of the snapshot a worker is about to store. `IndInv`
(`DirectoryInvariant`) adds who holds the locks (`LocksHeld`), what a change has
loaded and stored between `swap` and `bump` (`LocalIsLoaded`, `StoredIsServed`),
that the next rebuild can tell who came from the file (`FilesAreMarked`), and that a
worker whose generation is current has read the file people served now
(`GenerationTells`). The last one is the argument of the code: a change swaps,
stores and bumps `gen` under `swapMu`, so a worker that read anything older has
an older `gen` once `swapMu` is free.

Both writers of the snapshot check a roster for two spellings in one step and store
it in a later one. `SpellInv` adds that a worker past `readGroups` holds a
roster without a clash (`CheckedIsIndexed`) and that the roster a change will store
still has none (`SwappedIsIndexed`): it is rebuilt from the snapshot served, which
nobody else may replace while the change holds `swapMu`.

`AgeInv` orders four times: the age served, the age a worker is about to serve, the
end of the last reading, and now (`AgesAreOrdered`). The second is preserved because
refreshes do not overlap: were there two, the later one could be served before the
earlier one. So the age never goes back, an answer is from data no older than what
was asked about, and who was found young enough by the age served is so by the last
reading.

**The register.** Under the mapping of `DirectoryRefinement` each step of
`Directory` is a step of `PasswordRegister` or leaves all it has as it is:
`EditFile` is `Edit`, `WriteFile` that writes is `Write`, `LoadConfig` that reads is
`Load`, `StoreSnapshot` is `Publish`, every answer but success is `Fail`, and
refreshes, locks, checks and readers are nothing. Two of these need an invariant.
A refresh's swap changes nothing the register has, since its generation is current
(`IndInv`). And `Write` demands that the password sent is the one served *now* and
that nobody else is between the files and what is served, while the code proved it
earlier, without a lock. `RegisterInv` follows the proof: a change that took an
identity and was not told of a new one has the one served (`TakenIsServed`); past
`Prove` that identity has the password sent (`ProofIsRight`); so when `Recheck`
lets it write, asking once more if it was told, the one served has it
(`ServedIsProved`), and keeps it, since `s.mu` keeps other changes out and a swap
keeps the file's part.

**CertStore.** `StoreInv` adds that only the holder of `s.mu` looks (`OneLooks`) and
the order in which a look came by what it holds (`ReadsAreFresh`): a stamp is never newer
than the content loaded after it, which is never newer than the file; and the stamps
kept, `servedId`, are never newer than the pair they were kept with. `StampsTell` follows
where the stamps kept are those of the files now: the pair is squeezed between them.
Stamping after the load would let a newer stamp be kept with an older pair.

**Lifecycle.** `LifeInv` says, for every place of main, where startup's work may
be (`WorkIsAwaited`), how often the sources were closed (`SourcesClosed`, an equation),
that Close is marked once (`CloseIsMarked`), and that past each of its waits the loop
and the listener are over (`LoopIsOver`, `ListenerIsOver`).

**Bind.** `BindInv` says that what a bind was told is true of its own request
(`BindsAreSound`), because the goroutine whose answer it takes asks about its own
password (`ChecksAreTheirs`): a late answer finds nobody listening. `PendingIsBounded` is
the count of the goroutines as the cardinality of a set, and `AcceptedAreUsed`
that the verifier remembers each code that let somebody in.

**Entries.** `Chain`, the walk up the superclasses, iterates as often as there are
classes. `ChainIsClosure` says that this suffices: the result is the least set closed under
superclasses, cycles included (each round below a set that is not closed adds a class,
`LevelsFill`). The induction it needs is done with a set for the predicate, from `<` being
well-founded on naturals. `InvalidIsUnpublishable` says that the verdict an entry keeps is
about the entry as it is published, whatever was dropped after it was asked
(`ValidatedSaysWhy`): `Without` forgets the answer where an attribute goes. The loss that is
hardest to see is a class that goes with another: `UnmetReachesDown` says that a
declared class below one that is left off is left off itself, for its own content rule or for
the MUST it inherits, and so is said (`NoClassGoesUnsaid`).

**Opening.** A published entry is one that `Build` made of the snapshot served, and an
answer only holds those of it that are valid (`PublishesItsSnapshot`); the rest are the
lemmas on `Build`, with what startup fixes: the configuration passed `Check` and nothing
replaces it (`Accepted`), the schema is finite and what is declared was declarable and
no definition comes after (`SchemaHolds`), every definition is the one of the first
file or block that has it, of those read (`ServesFirst`), and everybody in the snapshot is
the file's or the database's person (`SnapshotSubjects`, `OpensInPlace`).
`SidsStayDistinct` is arithmetic: `checkSamba` and `sambaSID` bound base and `uidNumber` so
that neither wraps around nor passes what Samba maps back.

**Classes that stand alone.** `ClassesGoForCause` and `NamesHold` are about an entry's shape:
its structural classes decide its content rule and its name form. Both state the property
for the states in which `StandAlone(sch)` holds: no auxiliary class of the schema served is
below a structural one. RFC 4512 2.4.3 asks that of every schema; src/README.md:308 names
the converse (a structural class derived from an auxiliary one) among what the
library refuses, and nothing in `src/` says whether it refuses this one too, so `Builds`
does not and the theorems say it. The condition is needed: when a site's auxiliary class has
a structural superclass, the people who declare it have a shape startup never asked
about, and with a name form for that class TLC finds `NameFormsHoldAfterStartup`
violated. It can be read off one definition at a time (`DefinitionsStandAlone`), and
TLC checks that every schema of `MCConfigurations` meets it (`MCSchemasStandAlone`).

Under it an entry has the structural classes of its shape, however it is built and rebuilt
(`ShapeOfPerson`, `ShapeOfGroup`): what a person declares was `Declarable`, and what
authnd derives is auxiliary in the schema it starts from (`BaseDerives`), which no site file
redefines (`ServesFirst`); `sambaSamAccount` is there because `checkSamba` refused an
NT hash without a domain. For `NamesHold` the tree is the one `checkStructure` accepted for
this schema (`TreeHolds`), which refuses no shape (`TreeAdmitsShapes`). For
`ClassesGoForCause`, the entry that lost a class has the first build's content rule and no
attribute that it lacked (`PersonLosesOnly`, `GroupParts`): a class that was ruled out
would be ruled out again (`RuledAgain`), and a MUST that was missing would still be missing
(`MissingAgain`).

`IndInv`, `SpellInv`, `AgeInv`, `RegisterInv`, `OpensInPlace`, `ServesFirst`, `SchemaHolds` and
`SnapshotSubjects` were checked with TLC on the instances of the runs before they
were proved. Proving also corrected the model: `GroupEntryFrom` had a CASE two arms of
which could hold, where the code takes the first.

Only model-checked:

* the liveness properties (`OutageIsNoticed`, `RevocationArrives`, `EveryChangeIsAnswered`,
  `RenewalArrives`, `StopEnds`): they rest on fairness, and so on `ENABLED`, which
  TLAPS does not handle;
* that the schemas a site may write stand alone, of which see above.

## Findings

Five runs show where the code does not do what the repository says; each
quotation is in `PROJECT.json`.

* `blocks`: a password change takes the group blocks of the edited file into the
  live source, and the next refresh publishes them.
* `waits`: the second check of the old password runs under `s.mu` without a
  deadline. Against a source that hangs every other change and bind waits, and so does
  the refresh that would say that the source hangs.
* `left`: a Close before serve leaves the realm's two sockets open.
* `token`: a token on data that is too old is answered as a bad token.
* `declared`: an entry is rebuilt once without the classes it cannot carry, and the
  rebuilt one is not asked again. When a content rule takes `ldapPublicKey`, and
  `sshPublicKey` with it, a declared class whose MUST is `sshPublicKey` is short
  only now, and the person is withheld instead of the class.

## What is not modelled, and why

* The order of an entry's classes and attributes, the options of an attribute, the
  wording of what is said, obsolete structure rules, OIDs and aliases of a definition,
  ABSTRACT classes other than `top`.
* Of `config.check`, what concerns one key alone: addresses, DNs, names defined
  twice, a secret given in two ways, digits and periods of codes.
* Parsing: HCL, BER, schema syntax, the credentials of OAUTHBEARER, names. Their results are
  small sets. What an LDAP modify may look like (`onlyAPasswordChange`) is in
  `Asked` only as a change with or without an old password.
* `kerberosReport`, `check`'s report: no state that outlives them.
* People and groups read at two moments may disagree: `Directory` has it, no property
  forbids it (`root.go` reports such a member, and means to publish the group).
* `operation_timeout = 0`: a bind without a budget; it has only fewer steps
  (`GiveUp` never happens).
* The windows of a one-time code: a code of the model is right for the whole run.
  `amr` values that are of no known kind, and an issuer's `distinct_kinds`.
* A certificate file that is too large to stamp, and one whose old content
  comes back.
* Which spellings of a scope are one: the domain of `directoryName` (oidc.go:141) is
  normalised the way go-authn/oidc normalises a token's, one conversion of one
  string. `Configuration` has scopes after that.
* The libraries (go-authn/ldap, kdc, directory, totp, mfa) beyond how `src/` uses
  them; they are marked external in `PROJECT.json`.
* Sizes and limits of the LDAP library, logging, packaging.

## Plan

Done: `Directory` and its abstract register; `CertStore`; `Lifecycle`; `Bind`;
`SchemaRules`, `Configuration`, `Entries`, `Opening`; the refinement proved; a theorem of
every safety property and every action property that a passing run checks.

Left: the condition of the last two theorems could go once it is settled that the library
refuses the schemas that do not meet it; then `Builds` asks for it, and
`DefinitionsStandAlone` turns it into a lemma on what startup accepts.
