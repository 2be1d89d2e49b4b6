# lysine-os in TLA+

A verification development of the package tools of lysine-os: the build system
`ribosome` and the package manager `lysin`, both under `src/ribosome/crates`.
The modules are translated from the Rust code; where the documents say
something else, a run shows it and `PROJECT.json` lists it as a finding.

## The system

| part | state it keeps | operations | what makes it hard | what makes it correct |
|---|---|---|---|---|
| vacuole (`ribosome-store`) | `objects/` by SHA-256, `refs/` by name, on disk | put, get, add_ref, resolve_ref, remove_ref, gc | several processes, no lock; kills; gc racing writers | objects whole and under their digest; references resolve |
| lysin | files of the root, `installed.db` | install, remove, update | kills and errors between files and record; two lysins; index changing meanwhile | record and files agree; dependencies recorded |
| build executor (`ribosome-core`) | a directory per name and version: SRCDIR, `build/`, `pkg/`, phase markers; the `.prot` and its reference | build, build --clean | kills between a phase and its marker, resumed builds, failures that are only warnings | what is packed is what an uninterrupted build makes |
| bootstrap (`ribosome-core`) | the base, the sysroot, the build directories of four phases | bootstrap, --phase, --clean, --continue-on-error | restart after any stop; one directory for a package of two phases | success means that everything is in place |
| phase runner (`ribosome-core`, `ribosome-sandbox`) | pipes, a channel, the transcript | run one phase's script, on the host or in the membrane | two reader threads, full pipes, background processes, errors while bash runs | no output lost; a phase ends; nothing of the script is left |
| source fetching (`ribosome-core`) | sources in the vacuole, SRCDIR | fetch, mirrors, retries, extraction | wrong hashes, transient errors, stale references, gc, kills | a source in the cache is the one the recipe names |
| mRNA index (`ribosome-core`) | recipes by name, version lock | scan, resolve | versions compared as text | the pinned, locked or latest version |
| build-all (`ribosome-cli`) | the index, the graph, its counters | build every package of a directory | recipes read three times while they are edited; failures it goes on after | dependencies first; success means all were built |
| repository (`ribosome-repository`) | packages, `nucleus.db`, its sidecar | create, publish, rebuild_index, queries | kill between the files, two publishers | index and packages agree; the newest version wins |
| dependency graph (`ribosome-deps`) | a graph in memory | load, build order, removable, install order | cycles, missing nodes, dependents that stay | order respects dependencies; plans are closed |
| `.prot` packages (`ribosome-package`) | an archive | pack, unpack, read META | partial archives | renamed into place whole |
| parser (`ribosome-parser`) | none | parse, validate, compare versions | many rules, errors and warnings | what is accepted is fit for the rest of ribosome |
| membrane sandbox (`ribosome-sandbox`) | a rootfs, subvolumes | create, run, destroy | partial failure | - |
| command lines, snapshots (a stub), recipes | none of their own | dispatch | - | - |

Fetch stores sources in the vacuole and names them; the executor and bootstrap
resolve and extract them, and store and name the packages they make; lysin
resolves and unpacks those, or takes them from a repository that publish
filled.  build-all goes through the recipes in the graph's order and gives each to
the executor, which gives each phase to the phase runner.  They meet in files only:
there is no daemon and no lock.

## Modules

**RootedStore** states what the vacuole promises: a set of stored digests and
names that are only ever bound to stored ones.  **Vacuole** is the code:
`files` is `objects/` (an object per digest and a tmp file per digest and
writer), `refs` is `refs/`, `pc` and `local` are the processes in the middle of
their calls.  A step is one system call.  `Put`, `CreateTmp`, `WriteTmp`, `Rename`
and `PutFails` are put_bytes and put_file (which reads its source twice);
`TruncateRef` and `WriteRef` the two steps of `std::fs::write` in add_ref;
`ResolveRef`, `Get`, `Open` a reader, which holds a path until it opens it; and
`Collect` to `GcDone` a gc, which lists directories one entry at a time.
`QuietGC` restricts gc to an idle store, which the design document advises.
`steady` is a history variable: the references that nobody wrote since a gc
began.

**PackageDb** states what `installed.db` promises: packages are installed,
upgraded and removed one save at a time.  **Lysin** is the code: `fs` is the
root's files, `db` and `tmp` are `installed.db` and its tmp file, `index` the
repositories' index, which `Publish` changes while lysin runs.  install and
update go through packages (`InstallSingle`, `UpdateSingle`), files (`Unpack`,
`Delete`) and the save (`Save`, `WriteTmp`, `RenameTmp`).  `DeleteFails`,
`SkipUpdate` and `UpdateFails` are the errors the code goes on after, `Stop` is
every other error and a kill.  Histories: `broken` (a remove or update of the
package was cut short), `troubled` (any operation on it was, or a file could not
be deleted), `asked` (installed by name).

**Builder** is `BuildExecutor::build` over build directories: `marks` the phase
markers, `src` what SRCDIR holds, `placed` where the installed files are whole,
`prot` and `named` the package and its reference.  What a script makes is not
modelled; the history `sound` holds the phases whose result is that of an
uninterrupted build, that is, which ran to their end, from whole sources, over
sound phases, with the script as it is now.  Scripts are taken to be repeatable,
and to end with ribosome when it is killed.  `tainted` marks the packages for
which the code promises nothing: a marked phase's script was edited, markers
could not be removed, or a phase ran without whole sources.

**Bootstrap** extends Builder with the loop over the phases asked for (`boot.left`)
and over the packages of each (`Packages`; `boot.at` is the phase it is at,
`boot.todo` its packages still to do).  `BeginPhase` goes on to the next phase.  It
starts builds by `StartPackage` (instead of `Build`), takes Builder's steps unchanged
(`BuildNext`), and acts on their result.  All phases but base-system install into the
base (`place`), base-system merges `pkg/` into the sysroot.

**Repository** is `nucleus.db` with its files: `prots` the `.prot` files, `db`, `tmp`
and `sidecar` the index, its tmp file and its hash.  `Publish` (which truncates the
file), `Copy`, `Hash` and `LoadIndex` are publish, `Rebuild`, `ScanProt` and
`ScanAbsent` are rebuild_index, and `Save` to `WriteSidecar` the save they share with
`Create`.  An entry is a path and the content it was made from, which stands for
its hash and META.  A path carries its version as numbers (`num`, 0 if it does not
parse, and `rest`) and as text.  Histories: `dirty`, the packages about which the
index may be wrong (a publish was cut short, or two operations met), `stale`, the
same for the sidecar.  Lysin's `Publish` is this component seen from lysin.

**PhaseRun** is `run_phase`, one phase of a build: bash (`proc["bash"]`) and a
process it may leave in the background, the two pipes of `PipeSize` lines, a reader
thread for each, the channel `chan`, and the builder (`pc`).  On the host it receives
a line, writes it to the transcript (`Recv`, `Transcribe`), and joins and waits once
every sender is gone; in the sandbox it collects both pipes and appends them at the
end (`Collect` to `AppendErr`).  A binary line, one that is not UTF-8, ends its reader
(`ReadFails`).  `TranscribeFails` returns while bash and the threads go on; `Exit` is
ribosome's, which drops their pipes.

**MrnaIndex** is the recipes by name and `Resolve`: the pinned version, the locked
one, or the last as text.  **Fetch** extends it with `ribosome fetch` and
`extract_source`.  `run` is the place in the batch (package, source, the attempts
at each URL so far in `tries`, the report and the sum); `objects` and `refs` are what
Fetch sees of the vacuole; `src` is SRCDIR.  `SourceCached`, `SourceSkipped` and
`Download` are the arms of fetch_sources, `Received`, `TransientError` and
`OtherError` the results of a request, `Put`, `TruncateRef` and `WriteRef` the store,
`StoreFails` the error that gives a package up.  `want` is the hash of each source
(`Entry`, a recipe and a place in it), while `refs` is by file name: two recipes may be at
odds about one name.  `Kill`, `Edit` (another hash for one source) and a gc (`Mark`, `Sweep`) come in between.  Histories: `ready`, the files
a fetch that ended well answers for; `stale`, those named under a hash that was
edited since, or whose object is gone.  Fetch models recipes that parse.

**Validate** is the validator, as the set of issues of a document; a document is a
record of what the rules look at.  **DepGraph** is the dependency graph, on a set of
nodes and a set of edges; what petgraph computes is given by its definition (paths as
closed sets, topological orders as bijections).  `BuildOrder` is build_order where it is no
error (`BuildOrderFails`), `InstallOrders` what resolve_install_order may return, in any
graph: with a cycle it keeps the names it was asked for and no more.  **BuildAll** composes the three and
MrnaIndex: `Scan` reads the directory for the index, `Load` again for the graph,
`ParseOk` each file a third time, and `Write` and `Remove` edit it in between.  A build
is one step here; Builder has its steps.

## Runs

| run | question | bounds |
|---|---|---|
| vacuole | whatever races or stops, are objects intact, and does gc spare what was named all along? | 2 processes, 2 contents, 1 name |
| vacuole_quiet | with gc in idle times, do references resolve, readers get their object, gcs leave no litter; does the store implement RootedStore? | 2 processes, 2 contents, 2 names |
| lysin | is the database whole, and right about packages whose own operations ended? does Lysin implement PackageDb? | 1 lysin, 2 packages in 2 versions, a path both ship |
| build | is what is packed what an uninterrupted build makes? | 1 package, 3 scripts |
| phase | is any output lost? is anything of the script left? does a phase return, does bash end? | bash and one background process, 3 lines, pipes of 1 line |
| phase_output | is all that the script wrote in the transcript? (no) | the same |
| bootstrap | does success mean that tools (and after --clean the base system) are in place? are sources always whole? | a tool, a package of two phases, one without a recipe |
| bootstrap_sysroot | is every base-system package in the sysroot after a success? (no) | the same |
| bootstrap_resume | is a resumed package built as an uninterrupted one is? (no) | the tool's prepare works in SRCDIR |
| fetch | is what a fetch answers for there, and was what a build extracts stored with a hash that the latest recipes give for its name? is every source counted and every address asked? does fetch end? | gcc and glibc in 3 recipes, one file name in both, with equal or different hashes, one mirror, one source without a hash, 2 contents |
| build_all | are dependencies first, does success mean built, is only what is sound built, do build and install plans have what they need (without a cycle) and no more? does build-all end? | gcc, two versions of glibc, perl without a recipe, m4 in 3 good texts and 19 mistakes; 1 edit while build-all runs |
| repository | is the index right where publishing was not disturbed, and does a rebuild mend the rest? | 2 processes, 3 files of one package |

The bounds are small because the hazards are between pairs: a gc and a writer,
two writers of one object, a package and its dependent, an old and a new
version, a killed run and the next one, a full pipe and an empty one.  Calls, kills,
restarts and retries are not bounded anywhere but in build_all, where one edit
(`MaxWrites`) can fall between any two of the three readings.  In phase a pipe of one
line is full after one, and three lines fill one pipe and block its writer while the
other is read.  In fetch the four attempts are the code's own number; the two contents
are the right and the wrong one, one archive that can be hoisted and one that cannot, and
the two hashes that recipes at odds give for one name.
In build_all each mistake breaks one rule of the validator, so that a rule left out
lets one document through.

vacuole runs use a VIEW that leaves out locals no later step reads, and the symmetry
of processes and of contents with their digests; only safety is checked there.  The
bootstrap runs' VIEW leaves out `prot` and `named`, which no step of theirs reads, the
repository run's a tmp file nobody has open and a stale sidecar.  phase, fetch and
build_all, which check liveness, have neither VIEW nor symmetry.  In Lysin, versions
are numbers and the caller's order on them is theirs.

What a killed process leaves is what its system calls did: power loss and
`fsync` of directories are out of scope.  So are two threads of one process in the
vacuole (tmp files are named by pid).  On POSIX systems a rename replaces its target,
so the arm for `AlreadyExists` after it is never taken.  Two digests never collide.  In
Builder every package has sources with a hash.  Lysin's properties are stated for one
lysin at a time.  Repository takes what one process writes over a longer text of
another at work on the same tmp file for its own text whole, and a half-written
index to load as an empty one; versions compare alike as numbers and as text.

### Fairness

* **PhaseRun**: weak fairness of the builder, of each reader thread and of bash, whose
  writes go on when there is room and which then exits.  Scheduling gives the first
  two; the third is what a build is: a script that hangs hangs the build, as the code
  has no timeout.  Nothing is asked of the background process: PhaseReturns says that
  it is the only one that can hold a phase up, on the host by keeping a pipe open.
  Writing and forking are optional.
* **Fetch**: weak fairness of the fetch's and of the extraction's steps.  A request ends,
  in an answer, an error or by the client's timeout of 600 s; which, and how often, is
  free.  RibosomeEnds holds because every failure moves on in a list of attempts,
  addresses, sources and packages.
* **BuildAll**: weak fairness of build-all's steps; a build is taken to end, one way or
  the other.  Writers of recipes need do nothing, and may write for ever.
* Vacuole, Lysin, Builder, Bootstrap and Repository state none: their loops end because
  their lists do, and nothing in them waits for another process.

## Proofs

**VacuoleProofs** proves for any processes, contents and names:

* `TypeCorrect`: the type invariant, by one lemma per group of steps.
* `IntactCorrect`: ObjectsIntact.  It is not inductive: `IntactInv` adds that a tmp
  file whose writer is at its rename is whole or gone, and for put_bytes has the
  digest it is to be renamed to.
* `GcSparesRootedCorrect`: an action property, from `MarkInv`: what a gc has read of
  a reference that nobody wrote since is among its marks, and what it is about to
  unlink is not.
* Under the assumption `QuietGC`: `RefsResolveCorrect`, `ReadersServedCorrect` and
  `Refinement` (each step is a step of RootedStore or leaves its variables alone)
  from `QuietInv`, which says that a gc is alone and that what a writer is to
  name and a reader was told of is there; and `SweptCleanCorrect` from `SweptInv`,
  which says that marks are referenced and that garbage is still to be visited.

They rest on `HashAssumption` (digests are injective) and `ValueAssumption`
(model values differ), which Vacuole states and TLC evaluates.

**LysinProofs** proves for any packages, versions, paths and repositories, and any
number of lysins, `TypeCorrect`: the types, and which locals go with which step
(`Placed`, whose `Where` says what has been chosen when).  For one lysin at a time
(`OneLysin`; two lose records, see below) it proves `DbWholeTheorem`,
`FilesPresentTheorem`, `NoneLeftTheorem`, `DepsTheorem` and `Refinement`: a save's
rename is one step of PackageDb, every other step leaves the database alone.  What the
files and the database promise between operations says nothing of one that is on its
way, so `IInv` adds `Working`: a save writes the record that it is to (`SaveWork`); what
is in memory is what is recorded, but for the package being saved and, in an update,
those whose save failed (`MemoryWork`, with what each operation has checked so far); how
far the files of the package in work are (`DiskWork`), and which of its own may be there
at all (`OwnWork`).

**BuilderProofs** proves for any packages and recipes `TypeCorrect`,
`PackagesSoundCorrect` and `CleanSoundCorrect`, from `RecipeAssumption`.  That the
packages are sound says nothing of a build on its way, so the inductive invariant
`IInv` adds: a build goes through its scripts in order (`InOrder`), what it has
behind it is sound if it may be trusted (`HandledSound`) and in place (`InPlace`), a
marker stands for sound work (`MarkedSound`) and, for install, for files in place
(`MarkedPlaced`), and a script never runs over what a marker stands for
(`RunsUnmarked`: this is where --clean needs its markers gone before the first
script).  Each part is kept by a build's steps (`BuildNext`) by a lemma of its own, so
that Bootstrap can use it.

**BootstrapProofs** proves for any lists of packages `BootTypeCorrect`,
`ToolsInstalledTheorem`, `CleanInstallsTheorem`, `BuiltSoundTheorem` and, with a vacuole
(`HasVacuole`), `SourcesWholeTheorem`.  `BootInv` takes the parts of Builder's
invariant, each for the packages for which it holds there: `BuildsSound` and
`MarksHold` where no script works in SRCDIR (whose marks a resumed build would
otherwise trust over sources extracted anew), `BuildsInPlace` where one directory does
not serve two places.  It adds how the run goes through its packages: `OfPackage` and
`OfPhase` (the build is of the first package still to do), `WholeFromStart` (it has the
whole sources), and `ToolsSoFar` and `CleanSoFar` (what the phases so far should have
installed is in place, is still to do, or the run has failed).

**RepositoryProofs** proves for any processes, package files and contents
`TypeCorrect`, `IndexMatchesTheorem` and `SidecarTheorem`.  The index on disk says
nothing of what is about to be written over it, so `IInv` adds: an operation that met
no other is alone (`Alone`), and all is in doubt otherwise (`Met`); what such an
operation has in memory is right (`Work`: of a publish, once it has loaded the index;
of a rebuild, about the files visited so far; of a create, empty over an empty
repository); without an index there are no packages (`Empty`); and what nobody is
publishing is right in nucleus.db (`Indexed`).  `AddedRight` is the lemma about
add_entry: of the entry that stays and the one that comes, whichever it keeps is
right if the old one was right or is of the same file, because a file replaces itself.
Under `Alike` (versions compare as text as they do as numbers, which 1.9 and 1.10 do
not) it also proves `NewestIndexedTheorem`: add_entry's three comparisons then follow
one order of the files (`Under`, which `UnderUnder` shows transitive where it is used),
and an index that is right has no file above the one it names.

**FetchProofs** proves for any recipes, sources, mirrors and contents `TypeCorrect` and
`ServedTheorem`.  Its `IInv` follows the batch: what a fetch has behind it is
named, unless it counted a failure (`Placed` on the way, `Fetched` at the end); what it
downloads has a hash and no name yet, so that no name from elsewhere is written over
(`Downloading`); a name has a hash that a latest recipe gives for it
(`Hashes`) and its object is there, unless it is stale (`NamedGood`); and what a fetch answered for stays named (`ReadyNamed`).
A second invariant, `MInv`, is proved over the first: the sums count the sources of the
packages done, and the report those of the package at hand (`Accounting`); a source has
been asked of no more addresses than it has (`Asking`); and the parts unpacked so far
are those of the recipe's first sources with a hash, each with one of the `Hashes` of its
file name (`Unpacking`, `PartsRight`).  From it follow `AccountedTheorem`, the action property
`GivesUpLastTheorem` and `ExtractedRightTheorem`.
`LatestIsLast` proves of any finite set of
recipes that `Latest` is the greatest as text.

**PhaseRunProofs** proves `ScriptOverTheorem` for any number of lines and any pipe
size: the holders of a pipe run (`HoldersRun`), what is in a pipe was written
(`PipeWritten`), a reader that ended did so at the end of its pipe or at a binary line
(`EndedAtEnd`), and what the builder waits for at each place has happened (`Where`).
It proves `OutputKeptTheorem` with a second invariant, `KInv`: the lines of a stream that
have left its pipe are, in their order, in the transcript, then in the builder's hand,
then in the channel, and with what is in the pipe they are what was written, or the
beginning of it where a binary line cut the reader off (`Arrives`; in the sandbox
`Collected`), down to the transcript when the phase returns (`KeptAtEnd`).  `PipesRight`
and `LinesAt` say which of these places are in use when.

**BuildAllProofs** proves for any recipes, directories and graphs `TypeCorrect`,
`DepsFirstTheorem`, `SuccessTheorem`, `BuildsOnlySoundTheorem`, `RemovableTheorem` and
`PlansTheorem`.  `IInv` says that the graph is that of the documents loaded
(`GraphLoaded`), that what was tried is the part of the order before `k` (`InOrder`,
`Unbegun`), that what is built was accepted (`Parses`), and that the counters count
outcomes (`Counted`).
RemovableTheorem needs that reaching is transitive, which holds for paths given as
closed sets without induction. PlansTheorem is about build_order and
resolve_install_order, in every graph that build-all loads.  Each keeps some of an order of
the packages: once each, as the order has them once (`Listing`, `AmongKeeps`), and in its
order (`Follows`, shown of `Among` by induction).  What a name needs has all that this
needs (`NeededClosed`), so that without a cycle dependencies come first (`AmongOrdered`,
`CollectedLemma`); the names the graph has not follow (`PlanThenRest`).  With a cycle the
theorem says only what the code then keeps to: the names asked for, once, and nothing they
do not need.  `LockHolds` is about resolve: the version that a pin asks for, or without a
pin the version lock, is the one resolved if there is a recipe of it, so that a pin goes
before the lock.

What `Of`, `Among`, `Hashed` and `SourcesOf` compute is proved for every input.
They are recursive functions, and the induction is over sets: a set of naturals with 0
and every successor lacks no natural, since the least one it lacked could not exist
(`SetInduction`, from the library's `WFMin`); that the functions exist is proved first.

The assumptions are those the modules state, which TLC evaluates on the instances:
`HashAssumption`, `ValueAssumption` (the vacuole's digests and model values differ),
`VersionAssumption` (versions of lysin are numbers, 0 for none), `PackageAssumption` (a
package is no dependency of its own, which the validator refuses),
`RecipeAssumption`, `PackagesAssumption` (each phase has a list of packages),
`FileAssumption` (of versions, only that equal texts parse alike), `MarkAssumption` and
`EntryAssumption` (None and Partial are no content, no record and no index),
`FetchAssumption`, `IndexAssumption` (finitely many recipes, and texts are ordered),
`BuildAllAssumption`, `PhaseAssumption`.  The hypotheses `QuietGC`, `OneLysin`,
`HasVacuole` and `Alike` belong to the theorems named with them, and hold on the
instances of vacuole_quiet, lysin, bootstrap and repository.

### Model-checked only

Every safety property of a passing run is stated by a theorem.  Left to TLC are the
liveness properties, PhaseReturns, BashEnds, RibosomeEnds and BuildAllEnds: they rest on
fairness, and the provers do not reason about ENABLED.

## Where the code and its documents differ

Three runs show such a difference (phase_output, bootstrap_sysroot, bootstrap_resume;
PROJECT.json quotes the lines).  Others were met while modelling, and need no run to
be seen or are kept out by a bound the properties name:

* A gc that overlaps a writer can leave a reference dangling (`ribosome-store`'s
  gc.rs:30), though no object that a reference names is to be collected
  (cas-design.md:46).  GcSparesRooted is what holds in any case, RefsResolve what holds
  with the advice of cas-design.md:178 to run it in idle times.
* Two lysins at once can lose a record, and the dependencies of a dependency are not
  installed.
* In a repository's index 1.9 replaces 1.10, as add_entry compares an older version as
  text as well, and the latest recipe of a name is the last as text.
* The default cache of `ribosome fetch` is `build/cache/vacuole` with `vacuole` joined
  to it, and so not the one `ribosome build` looks into.
* fetch and build-all do not read versions.lock; a pinned version that is missing is a
  warning, and the latest is taken.
* The validator takes a SHA-256 in capitals (validate.rs:15), and the download compares
  it with small letters (source.rs:535): such a source is never fetched.
* Whether a source is fetched depends on its file name alone (source.rs:103), and
  extract_source compares no hash (source.rs:314).  If two latest recipes give one file
  name different hashes, fetch takes the second for cached and ends in success, and a
  build of it unpacks the other's source, though SECURITY.md:51 says that tarballs are
  verified by their SHA-256.  The model has such recipes; Served and ExtractedRight name
  the exception: what they find is the hash of one of them.  The same goes for a hash
  edited after the source was stored (`stale`).
* A cycle anywhere in the graph makes build_order an error for every name, and leaves an
  install plan with the names asked for and nothing they need (graph.rs:255, where
  line 250 says "best-effort").  resolve_install_order is documented as the closure of
  runtime dependencies (graph.rs:248); the graph has the build dependencies.
* extract_source is documented to do nothing for a source that is not in the vacuole
  (source.rs:284); it is an error.

## Not modelled

Statistics, list_refs, sizes, list, info, search and queries only read.  Shard
directories of the vacuole are abstracted.  `ribosome clean`, which would call
gc, does nothing in the code (`ribosome-cli/src/main.rs:230`): gc runs only where
a caller of the library runs it.  The membrane's root file system is a copy of the
host's tools and its subvolumes are btrfs's: what of it decides a build is the end of
its processes, in PhaseRun.  YAML and the text of the lock file, progress bars,
logging, compiler flags, systemd-nspawn's command line, constraints of versions (asked
only by lysin's read-only deps) and the text of META are left out.

## Plan

1. Vacuole, RootedStore, VacuoleProofs; Lysin, PackageDb, LysinProofs; Builder,
   Bootstrap and their proofs; Repository, RepositoryProofs; MrnaIndex, Fetch,
   FetchProofs; Validate, DepGraph, BuildAll, BuildAllProofs; PhaseRun,
   PhaseRunProofs (done).
2. What holds of two lysins at once: the types do; which records are lost, and that no
   other harm is done to the files, is open.
3. What --clean owes a package whose recipe changed, for which Builder would have to
   tell one recipe's files from another's.
