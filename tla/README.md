# A verification development for Baker

Baker (`src/`) builds the BlueyOS distribution: it clones the source
repositories, builds a kernel and a toolchain, builds components in dependency
order into a sysroot, packages them and makes an image.  It is a sequential
Python program; what makes it hard to get right is that its state lives on disk
between runs, that every external command may fail, that a run may die
anywhere, and that the order in which Python iterates over sets of names changes
from one process to the next.

## 1. Inventory

| Component | Source | State it keeps | Operations |
|---|---|---|---|
| Dependency resolver | `deps.py` | the graph; `target_nodes`, `in_degree`, `queue`, `result` during a sort | `add_*`, `all_dependencies_of`, `topological_sort`, `resolve_build_order` |
| Build stage | `stages/build.py` | class attributes for the target; `build_order`, `failed`; the sysroot and the checkouts on disk | `run`, `_refresh_repo_main` |
| Prepare stage, change detection | `stages/prepare.py`, `helpers/change_detection.py` | checkouts, `.baker_state.json` | `run`, `_fetch_repo`, `_pull_latest`, `_detect_changes`, `has_changed`, `save_state` |
| Port recipes | `recipes/_port_recipe.py` and its subclasses | tarball cache, extracted source, staging directory | `fetch`, `build`, `install`, `package` |
| Package recipes | `recipes/_musl_package.py` and its subclasses | checkout, sysroot, claw's `units.manifest` | `build`, `install`, `package`, `_update_claw_manifest` |
| Package stage | `stages/package.py` | `output/`, `core/` | `run`, `_copy_to_core` |
| Command line, stage runner | `baker.py`, `stage_runner.py` | results of the stages of one process | `main`, `run_stages` |
| Kernel and toolchain stages | `stages/kernel.py`, `stages/toolchain.py`, `helpers/musl.py` | kernel image in the sysroot; compiler prefix; musl prefix with its specs and wrapper | `run`, `ensure_musl_specs`, `repair_musl_wrapper` |
| Image, VM and clean stages | `stages/image.py`, `vm.py`, `clean.py`, `helpers/image.py` | the image; removal of `build/`, `sysroot/`, `output/` | `run`, `_ensure_musl_runtime`, `_fresh_rebuild`, `_remove_dir` |
| Sysroot installer | `helpers/sysroot.py` | the sysroot | `install_tree`, `_merge_path`, `install_file`, `symlink` |
| Root password | `helpers/password.py`, `recipes/blueyos_bash.py` | `etc/passwd`, `etc/shadow`, `etc/shells` | `set_root_password`, `_ensure_root_uses_bash` |
| Extract stage, BlueyFS reader | `stages/extract.py`, `helpers/blueyfs.py` | a stack of directory iterations; the files written so far | `run`, `iter_dir`, `inode_block`, `lookup_path`, `extract_inode` |
| Configuration, host tools | `config.py`, `helpers/host_tools.py` | none | parsing, defaults |

**How they interact.**  `main` gives `StageRunner` a list of stages and each
stage runs to its end in the same process.  Stages call each other only
through the disk: prepare leaves checkouts, kernel and toolchain leave a prefix, the
build stage fills the sysroot, package reads the sysroot and the staging
directories, image reads the sysroot.  Recipes are called by the build and package
stages.  The build stage asks the resolver for an order.  There are no threads; the
concurrency is with upstream repositories that move, with a crash, and
with whatever order a Python set is iterated in.

**What makes each part correct.**

* Resolver: the closure is exact, prerequisites come first, cycles are reported
  exactly when there are some, for every iteration order.
* Build stage: what a run delivers fits together although earlier runs left torn or
  outdated files and recipes remove and rewrite files of each other; the verdict tells the truth; what is disabled or
  excluded is built only if something asked for needs it.
* Change detection: no upstream commit is taken as known without having been
  reported, whatever fails, and every last one is reported in the end.
* Port recipes and packaging: a package holds what a successful build of
  that version installed, whatever interrupted ones left.
* Claw manifest: every installed service is registered whatever the order of rebuilds.
* Sysroot installer: a merge ends in the payload laid over the sysroot, whatever kinds of entries are
  in the way, and disturbs nothing that the payload does not name.
* Password: root's entry, hash and shell are in place after every finished run, the
  other users' entries survive, and bash, once installed, stays root's shell.
* BlueyFS reader: it ends on damaged images too; from a sound one it extracts exactly what was asked for.
* The stages together: an image is made only of what is complete and current, although every stage
  skips work that looks done, and whatever is on disk is replaced in the end.

The hazards of the code, each at its line, are in `PROJECT.json`.

## 2. Plan

| Step | Module | State |
|---|---|---|
| 1 | `DependencyGraph`, `BuildOrder`, `TopologicalSort`: resolver, its abstract specification, the refinement | done, proved |
| 2 | `BuildStage`: the stage on top of what the resolver guarantees | done, safety proved |
| 3 | `Prepare`: checkouts, change detection | done, safety proved |
| 4 | `ClawUnits`: registration of services by claw, matey, yap, walkies, blueyos-base in any order of rebuilds | done, safety proved |
| 5 | `Packaging`: download, extraction, staging, the package stage | done, safety proved |
| 6 | `Pipeline`: stage sequences, kernel and toolchain outputs and what makes a run skip them, image, vm, clean | done, safety proved |
| 7 | `RootPassword`: passwd and shadow rewritten in place, with interrupted runs and reinstallations of bash and blueyos-base | done, safety proved |
| 8 | `SysrootMerge`: merging payloads over entries of other kinds | done, safety proved |
| 9 | `BlueyFS`: directory iteration, lookup, block map and extraction | done, safety proved |

Every safety property that a run finds to hold is proved; the theorems of a component are in the module named after it with
`_proofs`, those of `ClawUnits` and `BlueyFS` together in `Image_proofs`.  Liveness stays with TLC.  What is left to
model is in section 6.

The modules are composed where components share state: `TopologicalSort` implements `BuildOrder`;
`BuildStage` uses what that guarantees; `RootPassword` has the three writers of one pair of files, `ClawUnits`
those of one manifest; `Pipeline` has all stages over one disk, each reduced to what the others can
see of it.

## 3. Modules

### DependencyGraph, BuildOrder, TopologicalSort

`DependencyGraph` has the notions (closure, prerequisites first, deadlocked set).  A
closure is defined as the least closed superset, not by recursion, so that it can be
reasoned about.  `BuildOrder` is the abstract resolver: emit any
component of the closure whose prerequisites are out, accept when nothing is
left, reject when what is left waits for itself.

`TopologicalSort` is `topological_sort` step by step.  Its variables are the
locals of the function; the actions are

| Action | Code |
|---|---|
| `Visit(n)` | one call of `all_dependencies_of` expanding a node (`frontier` is the set of calls still to be made) |
| `CountInDegrees` | lines 92-101 |
| `Seed(n)`, `StartDraining` | the generator in line 103, element by element |
| `Pop`, `Release(m)` | the loop of lines 106-112; `releasing` is what is left of the inner `for` |
| `Finish` | lines 114-120 |

The `\E n` in `Next` is the iteration order of Python's sets.  Self-dependencies and
cycles are among the graphs.  One difference is deliberate: the code's recursion is
depth first and calls it for one requested name after the other with a fresh
visited set; `Visit` takes the pending calls in any order with one set.  Both add the
same names, and only the result is used.

### BuildStage

One action per thing `BuildStage.run` does: `NothingEnabled`, `Refuse` and `Begin` for
the selection of components, `Refresh` for `_refresh_repo_main` of one component,
`SkipUnknown`, `Advance` (fetch, configure or build returns), `Install`, `Raise` and
`Finish` for the loop, `Kill` for the death of the process.  The resolver is used through
what `TopologicalSort` is shown to guarantee (`SortYieldsLinearization`): some linearization of the closure,
or an error if there is none.

An install is not confined to the component's own files, so the sysroot has a state for every component and
place (`Part`; a place is `lib`, or the rest): absent, torn when any file of it may be missing, cut short or older, and
whole when every file is there that its last install copied.  Which places a recipe copies to, which
directories it removes first and which files of others it rewrites are parameters:

| Parameter | In the code |
|---|---|
| `InstallsTo` | the payloads and binaries that `install()` puts into the sysroot (`Own`); none for musl-blueyos, whose `install()` is empty, and for the ports that fill `build/<name>/staging` only |
| `Clears` | glibc-blueyos: `install_tree(lib_dir, "lib")` removes all of `sysroot/lib`, with what others have there (`Cleared`) |
| `Edits` | bash reads `etc/passwd` and `etc/shells`, which blueyos-base ships, and writes them again; the recipes with services do it to claw's manifest (`Edited`) |
| `MaySkip` | recipes whose `install()` returns when it does not find what was built |

`Replace` is an install that gets to its end; `TearCopy` and `TearEdit` are one that stops while it removes and copies, and
one that stops while it rewrites a file of another component.  A finished edit leaves the file whole: what
bash, `baker passwd` and the recipes with services do to the lines is in `RootPassword` and `ClawUnits`.  The other state is
that of each checkout, and `stale`, a history of the pairs of components where the first was built
against a version of the second that has been replaced since (`Outdated`).  `progress` and `delivered` record what the
current run did.

### Prepare

One run is: per repository `CloneSucceeds`/`CloneFails` or `PullSucceeds`/`PullFails`
(`_fetch_repo`, `_pull_latest`), then `Detect`, `Check` per tracked repository, `Collect` per
repository (`save_state` reads every HEAD again), `Write` or `WriteFails`.  `Crash` ends it
anywhere; in a clone it may leave a `.git` without a commit ("torn"), in the write an
empty state file, which `_load_state` treats like none.  Between runs,
`Publish` moves upstream and `RefreshForBuild` is `baker build --component` pulling
on its own.  Only repositories with a URL are in `Order`.

A git command in a directory that is no checkout answers for the checkout around it,
so `save_state`, unlike the comparison, may record a foreign HEAD (`RealHead`).
A local history that diverged from upstream is covered by `PullFails`.

### ClawUnits

The sysroot as far as claw's services go: `present`, the unit files in it, and `lines`, the
content of `etc/claw/units.manifest`.  `install()` of a recipe is `Start`, one `Merge` per file
of its payload (`SysrootInstaller._merge_path`), and then either `SkipRegistration` or `Read`, one
`AppendMissing` per desired entry, and `Register`, which is `_merge_units_manifest` of claw
and `_update_claw_manifest` of the others.  claw's payload contains a manifest of its own,
which replaces the file.  `Scattered` is walkies, whose `install()` looks for payload and binary
in several places and registers its units exactly if it finds the binary.  scout brings a unit
and never registers.  `Stop` cuts an install short: a file that was being replaced may be gone,
a manifest that was being rewritten ends anywhere.  The order in which entries
are appended is left open.  Two history variables say what the properties are about: `partial`, the
recipes whose last install was cut short, and `lost`, whether entries got lost since claw was
last installed.

### Packaging

What lies on disk between runs for a component: per version the tarball and the extracted
source of a port, the staging directory file by file, with the version each file is of,
the `.dpk` files among which `package()` looks for the one it made (output/ for ports, the dist
directory of claw, the checkout otherwise), and core/.

| Action | Code |
|---|---|
| `Download`, `DownloadFails`, `Extract`, `ExtractFails`, `SkipExtract` | `PortRecipe.fetch`, `safe_extract` |
| `Build`, `BuildFails` | configure and build, and the beginning of install |
| `InstallFile(f)`, `EndInstall` | `make install DESTDIR=staging` |
| `StartPackaging`, `Package(c)`, `PackageFails(c)` | the loop of `PackageStage.run` and `package()` |
| `StartCopying`, `Copy(p)`, `EndPackaging` | `_copy_to_core` |
| `Stop` | a step that raises, or the process dying |
| `Clean`, `Bump(c)` | `baker clean`, a version that changes |

Recipes find the file they made in three ways (`Picks`): any file that matches (ports, dimsim,
most package recipes), the newest (blueyos-bash), or that of the version in the recipe, with a
refusal to choose among several others (yap).  claw (`Cleared`) empties its staging and dist
directories first; scout clears its dist directory the same way.  Whether a build gets by with a partially extracted
source is left open; if it does, its install has some of the version's files only (`Installable`), and ends like any other.

### RootPassword

`etc` has the lines and the mode of passwd and shadow, `shells` and `bash` the rest of what is read.
A rewrite is three steps, as in `_write_lines`: opening truncates the file (`Truncate`), the lines read before are
written (`Write`), the file is made private and then gets its mode (`MakePrivate`, `SetMode`).

| Action | Code |
|---|---|
| `StartPasswd` | `_run_passwd` up to the call of `set_root_password` |
| `UpdateShadow`, `EnsurePasswd`, `PasswdIsThere` | `_update_shadow`, `_ensure_passwd` |
| `MergeBash`, `BashPasswd`, `BashPasswdIsRight`, `BashWrite`, `BashShells` | `install` of blueyos-bash, `_ensure_root_uses_bash` |
| `MergeLibrary` | the same `install` of ncurses and readline, which brings no `bin/bash` but rewrites the files too |
| `InstallBase`, `CleanSysroot` | blueyos-base brings the files; `baker clean --sysroot` |
| `Stop` | an error, or the process dying, also in the middle of a line |

A line is a user and the field that matters: the run that made the hash, or the shell.  A line that was
cut keeps its user, or not even that.  The two programs judge lines differently, and so does the model:
`baker passwd` looks at the first line of root, bash at every whole one.

### SysrootMerge

`tree` is the sysroot, two levels deep: absent, a file and who made it, a directory, or a link.  `install_tree` is `StartMerge`
(`os.listdir`), and per entry, in any order, `Enter`, `Remove` if something is `InTheWay`, and `Create`; `EndMerge`
returns.  `Real` and `DirOf` say which entry a path names when its directory is a link: `Way` follows the links from a
name as often as there are names, and a way that then still ends at a link (`EndOfWay`) is a cycle, which leads nowhere.
`ReplaceTree` is `install_tree` into a subdirectory, `InstallFile` and `MakeLink` are the other
operations.  `Stop` ends a merge anywhere, in a removal or in a copy too, and `StopReplace` a replacement.  A step that lacks permission is tried again with
sudo; it then succeeds or raises, so there is no outcome of its own.

### BlueyFS

The generator `iter_dir` is what makes this module: while a record is being handled, which for a directory means
everything below it, the iteration is suspended with its cursor.  `frames` is the stack of these iterations; a frame has the locals `cursor`,
`offset` (`block_offset`) and `advanced`.

| Action | Code |
|---|---|
| `EnterBlock`, `LeaveBlock` | the outer loop of `iter_dir`, and a block without (further) records |
| `Record` | one turn of the inner loop, given to `LookupRecord` (`lookup_path`) or `ExtractRecord` (`extract_inode`) |
| `NextPath`, `NotFound`, `Finish` | the loop of `ExtractStage.run` over the paths asked for |
| `Open`, `EndDirectory` | the superblock is checked; an iteration ends |

`Inode`, `InodeBlock` and `Content` are `read_inode`, `inode_block` and `read_file`, with the sizes of the format as parameters.
Where the cursor is not at a record, the bytes there may be read as any length (`HeadersAt`).
A name with a separator in it ends the stage (`safe_child_path`), and a path that does not begin with `/` is skipped like one that leads nowhere.

The code has no writer of images, so the reference for `ExtractedIsExact` is a definition of its own.  Besides its disk an
image has what whoever made it knows and the reader does not look at: `inodes` (by number), `blocks` (those given to each
inode) and `tree` (the inode of every path).  `Sound` says that the disk agrees with them: inodes are in the tables
of their groups (`InodesInPlace`), block numbers in the inode or in the blocks of pointers (`BlocksInPlace`), records fill their
blocks (`Filled`), and entries and paths are the same (`TreeInPlace`).  None of this goes through an operator of the
reader; `Holds` and `Below` are what a path holds and what is below it.  Damaged images are read too, and then only `Terminates` is claimed.

### Pipeline

Every command of `main` is a sequence of steps (`Steps`): `baker all` is `ALL_STAGES`, `vm --fresh` is the removals, build, image and boot.
`Start(c)` begins a command, every step either `Ends` or `Fails`, and a failure drops the rest, as in
`run_stages`.  All that stages know of each other is on `disk`:

| Field | On disk |
|---|---|
| `checkout` | the revision the repositories are at, 0 before the first clone |
| `build` | whether `build/` is there |
| `cross` | `bin/i686-elf-gcc`: none, partial (the program without its library), whole |
| `lib`, `specs`, `wrapper` | the musl prefix: the library, `musl-gcc.specs`, `musl-gcc` |
| `sysroot` | of which revision the kernel, the components and `libc.so` are, and whether there is the link of the dynamic linker |
| `image` | the same, when it was made; or torn, or used: a guest has written to it |

Each stage is an action with the tests the code makes: `Cross` builds a compiler only if its program is missing, `Musl`
always installs but repairs specs and wrapper only under its conditions (`EnsureSpecs`, `RepairWrapper`), `Build`
makes the specs first, `Image` copies a libc only if there is none (`EnsureRuntime`).  `Break` is any stage that
raises or dies, and `Left` what it may leave: a kernel half copied, a compiler without its library, specs that end
before or after the guard, components of several revisions, a removal that did not get to its end.  `BuildFails`
is a build that fails because something it needs is not `Sound`; it is not forced to, as not every component
uses everything.

Some stages end with success without having made what they are there for, and only log it:

* `KernelNotFound`: make did not leave `build/kernel/bkernel`.  Another name may be installed instead, or nothing; the
  `bkernel` that is in the sysroot, and in every image made by copying the sysroot, stays the old one.
* `BuildNotFound`: a recipe did not find what it built and left what an earlier one had installed.
* `Linked`: the link to the libc could not be made (`ensure_musl_dynlinker` returns False, and nobody asks).

The history variable `skipped` holds the steps of the running command of which one of the first two is true
(`EndsSkipping`), so that the properties can say what holds unless that happened, and what holds even so.  So `comps` is the checkout of
the last build that reported success and found everything it built.  A build with glibc-blueyos takes the link away
with the rest of `lib` (`WithComps`).  Specs are "good", "old" (without the guard that `musl.py` looks for, whether written by an older version
or cut off before it) or "cut" (cut off after it: taken for good by `musl.py:101-105`, and never made again).  Booting may turn
an image into a used one (`Booted`), as `snapshot` is false in `baker.yaml`.

## 4. Runs

| Run | Question | Bounds |
|---|---|---|
| `toposort` | is the resolver right, and does it implement `BuildOrder`? | all graphs of 4 components with at most 4 edges (self-loops included), all requests, all iteration orders |
| `build_stage` | is what a build delivers coherent, its verdict honest, and what is excluded left alone unless it is needed? | 6 components (one without recipe, one that installs nothing, one that removes a directory of others, one that edits a file of another), two places, a graph with the declared dependencies and a cyclic one, 3 configurations, 2 consecutive runs |
| `prepare` | are changes never lost and finally reported? | kernel with the nested repository and one extra repository, one new commit each, one crash, HEAD is read in time |
| `prepare_slow_git` | (violated) the same when reading HEAD may time out | no crash |
| `prepare_clone` | (violated) is every repository cloned in the end? | no crash |
| `claw_units` | does the manifest list what is installed, whatever the order of rebuilds? | claw, matey (shares a unit with claw), walkies, scout; two interrupted installs, any number of rebuilds |
| `packaging` | are packages complete, and do they reach core/? | nano; claw; yap with blueyos-bash; two versions, two files, one run cut short |
| `packaging_port` | (violated) does every package made reach core/? | nano, nothing cut short |
| `root_password` | do `baker passwd`, bash, its libraries and blueyos-base leave root and the other users as they should be? | two other users, two runs of `baker passwd`, any number of the others, two runs cut short |
| `sysroot_merge` | does a merge end in the overlay, and touch nothing else? | two names, two children each, all payloads of files, directories and links over every sysroot the operations reach, one install cut short |
| `blueyfs` | is what is extracted exact, does the cursor stay in step, does it end? | the records of a directory in all layouts over up to four blocks, files of all sizes up to eight blocks (one more than can be addressed) with one hole, damaged records, a name with a separator |
| `pipeline` | is an image made only of what is complete and current? | two revisions, one break, any number of stages that skip, five configurations (native image, genext2fs, mke2fs, disabled; with and without glibc-blueyos; prefixes below `build/`, of their own, not writable) |

*Why the bounds are enough.*  Four components have diamonds, chains, two-cycles with
something waiting for them, and requests that leave components out; the theorems remove
the bound.  Two builds are enough for everything a first one leaves behind to meet a
second; base, which has files in `lib` and one that bash edits, is what both kinds of interference need.  In `Prepare` repositories interact only through the nested one and the shared state
file, which two tracked repositories show, and one commit beyond the cloned one is
what distinguishes an old record from a new one; the number of runs is not bounded.

In `ClawUnits` the second interruption meets what the first one left; the theorems remove the
bound.  In `Packaging` components only share the loops of the package stage, which one pair has, and
a second version, of which one file is new and one is gone, is what stale files and stale packages need; the theorems remove the bounds.

In `RootPassword` two users are what an order, a loss and a repetition need; the second interruption meets a file that the
first one tore, and the second run a hash of an earlier one.  In `SysrootMerge` two names are what a link
and its target need, and two children what survives beside what is replaced; longer chains of links are left to the theorems.
In `BlueyFS` the block map is scaled down (one direct block, two pointers per block), so that eight blocks cross every boundary
of it, and four blocks of records have every kind of last, empty and full block behind every other.  In `Pipeline` two revisions
tell current from outdated; with one break every stage can leave each of its partial results for any later command, and
the theorems remove both bounds.

*Deadlock* is checked for every run but `build_stage`, which stops after its bounded number of runs.
(`toposort` and `blueyfs` stutter when they have returned.)

*Fairness.*  A sort and an extraction are plain calls that go on until they return: weak fairness
of their steps.  For `Prepare` the liveness property is about the
environment as well: somebody runs the stage again (weak fairness of `Begin`) and the network does
not fail one repository every single time (strong fairness of the successful clone and pull).
The number of crashes is finite.  For `ClawUnits` an install goes on until it ends, and claw is
rebuilt again and again (strong fairness of `Start(Claw)`).  For `Packaging` runs go on until they
end, somebody builds and packages every component again and again, and no download, build or
packaging fails every single time; the property itself assumes that cleaning comes to an end.
For `Pipeline` a command goes on until it ends (weak fairness of `Step`), somebody runs `baker all` again and again, with
any other commands in between (strong fairness of `Start("all")`), and not every fetch fails (strong
fairness of a `Prepare` that reaches upstream); revisions and breaks are finite in number.  No fairness keeps a stage from
skipping its work with success again and again: whether make leaves its result where it is looked for is up to the repositories, and
`EventuallyCurrent` says what holds if that comes to an end.

*What the violated runs show.*

* `prepare_slow_git`: `has_changed` takes a HEAD it cannot read for unchanged, `save_state` then
  reads it again and records it; that commit is never reported.
* `packaging_port`: `package()` of a port returns the first file that matches `<name>-*.dpk` in
  output/.  After a version change that may be the old package, and the new one does not reach
  core/, whereas the README says that all produced packages are copied there.
* `prepare_clone`: after one failed kernel clone the nested destination makes the kernel
  directory non-empty, and every later clone into it fails.

*What else came up.*  None of this contradicts a claim of the repository clearly enough for a run of its own:

* `resolve_build_order` adds every prerequisite of what is enabled (`build.py:64`), so that a component on the list
  "to explicitly exclude from the build" (`baker.yaml:134`) is built if an enabled one depends on it.
* glibc-blueyos replaces `sysroot/lib` (`glibc_blueyos.py:73`).  What other components have there is gone when it comes after
  them in the order, and there when it comes before; nothing declares which it is to be, and a
  `baker build --component glibc-blueyos` removes it in any case.  `DeliveredAreCoherent` says exactly this much.
* A build reports success although nano, vim, w3m and dropbear only fill `build/<name>/staging`, and although a
  package recipe did not find its binary (`_musl_package.py:112`); the files of an earlier build then get into the image.
  The kernel stage reports success when it finds no kernel (`kernel.py:73`), walkies when it finds a payload but no binary.
* A line of root that was cut before its shell counts as an entry and is never completed (`password.py:161-174`); a
  passwd that a crash left with mode 600 keeps it as long as its line needs no change.
* A compiler whose program was installed when the run died is never completed (`toolchain.py:54`): that is the
  exception in `EventuallyCurrent`.  `baker clean` helps only if it is below `build/`.
* Specs that were cut off after `%{!static:` are taken for complete (`musl.py:104`), and builds that need the rest fail
  until a clean; that is the other exception.
* A port's source that was extracted in part is taken for whole (`_port_recipe.py:85`).  If it builds, the package lacks files:
  `PackagesAreComplete` leaves such ports out.
* After `baker clean`, `baker toolchain` alone fails when the prefixes are elsewhere: the directory for the script
  is not made (`toolchain.py:187-193`).
* A libc that is in the sysroot, old or torn, gets into every image until the sysroot is cleaned (`image.py:141`).
* The result of a merge depends on the order of `os.listdir` if a directory of the payload is, in the sysroot,
  a link to another of its names (`sysroot.py:206`).
* `vm --build` boots the image that is there if the format is `tar`, which makes a file of another name.

## 5. Proofs

`TopologicalSort_proofs` proves, for every finite set of components and every graph:

* `InductiveInvariant`: `IInv`, the conjunction of type, phase, closure, in-degree, queue, result and
  verdict parts.  None of the properties is inductive alone: that `Pop` keeps the
  order right needs that a queued component has in-degree zero, which means nothing unless the
  in-degree counts exactly what is missing from the result (`InDegreeCountsWaiting`), and that
  needs queue and result to be disjoint and free of repetitions.
* `TypeCorrect`, `OrderIsSafe`, `DegreesAreExact`, `ClosureIsExact`, `CycleErrorsAreExact` follow from it;
  for the last, the components left with a positive in-degree are shown to wait for each other
  (`StuckNodes`), and no such set can contain an emitted one (`ResultInv`).
* `SortImplementsBuildOrder`: under the mapping `order <- result` each step is a step of `BuildOrder`
  or leaves it unchanged; `Pop` is `Emit`, `Finish` is `Accept` or `Reject`.
* `SortYieldsLinearization`: what is returned is one of the `Linearizations` of the closure, and an error is raised only when
  there is none.  That is what `BuildStage` takes the resolver for (`BuildOrders`), so the theorems about
  the build stage rest on nothing about the resolver that is not proved.

`Image_proofs` proves of `ClawUnits`, for every set of recipes and units and any number of interrupted
installs, `UnitsTyped`, `InstalledStayRegistered`, `ManifestHasNoDuplicates` and
`ClawAlwaysRepairs`.  `InstalledAreRegistered` is not inductive: a recipe that merges a unit which another
recipe brings as well could make an unregistered unit appear under the other's name.  The invariant
(`IInv`) adds that claw's own units are registered, present or not, whenever nothing is lost
(`RegisteredInv`), and what holds in the middle of an install (`PhaseInv`); the assumption is that units
are shared with claw only (`SharingAssumption`), as in the recipes.

`Packaging_proofs` proves, for every set of components, files and versions, any number of version
changes and of runs cut short, `TypeCorrect`, `ClearedStayExact`, `CompletePackages` and `PackagedAreInCore`.
That a finished install left what it should is not inductive, as an install writes one file after the
other: the invariant (`IInv`) adds what is there of the version in the middle of one (`InstallingInv`) and
that an install in progress counts as not finished, so that no package is held to it.  `PhaseInv` says
what the loops still have to do.  A port that is built from a source extracted in part is allowed to lack files from then on, until the source
is removed; the theorem leaves it out, as the code takes it for whole.  `CopyInv` follows a package to core/: for a recipe that does not take any
file that matches, `package()` returns the one it has just made (`FoundIsMade`), which is unchanged until it is copied.

`BuildStage_proofs` proves, for every finite set of components and places, every graph and configuration, every choice of what recipes
install, remove and edit, and any number of runs, `TypeCorrect`, `DeliveredStayCoherent`, `VerdictsAreHonest` and `OnlyTheWantedIsTouched`.
The step that matters is `Install`: it replaces a component, removes what others have in the directories it replaces, and makes whatever was
built against it stale.  That nothing
delivered becomes stale needs that the order lists nothing twice, and that nothing handled already
depends on the current component (`OrderFacts`, from what the resolver guarantees); that nothing delivered is missing for any other reason than a
later component's install needs what `LoopInv` says the loop has done with
each component before the current one, from which the verdict follows too.  `OnlyWantedAreTouched` rests on what an
order without a prerequisite missing is: everything in a linearization of the least closed superset of what was asked for was
asked for, or comes before something that declares it.

`Prepare_proofs` proves `TypeCorrect`, and under the assumption that HEAD is read in time (`~HeadReadsFail`; `prepare_slow_git`
shows that it is needed) `RecordsWereReported`, `CheckoutsAreReported` and `ReportsAreNotSpurious`, for any number of repositories, commits
and crashes.  The invariant relates the three places a commit is noted at: nothing is reported that is ahead of its
checkout (`HistoryInv`), what the run has compared is reported and what it collects is what was compared (`RunInv`), and unless
a record was lost, every reported commit that is checked out is in the file or about to be (`RecordInv`).

`Pipeline_proofs` proves `AllMakesCurrent`, `FailedBuildsMakeNoImage` and `BootsWhatWasRebuilt` for every set of
configurations and any number of revisions, commands and breaks.  `QueueInv` says that what is left to do is the end
of the command's list of steps; `AllInv`, `FreshInv` and `BootInv` say what the command has achieved by then, in terms of how many
steps are left.  The steps are not compared with each other: `Fits` is the contract of a stage that ends, with or without what it is there
for; each stage is shown to keep to
it (`StepEnds`) or to fail without making an image (`StepFails`), and the invariant follows from the contracts
(`EndKeepsInv`).  Where a stage passed its work over, the contract and the invariant say nothing of what it should have made,
and everything of the rest.

`RootPassword_proofs` proves `TypeCorrect`, `OthersStay`, `BashStays` and `PasswdSetsRootLine` for any number of users, of runs
and of interruptions.  Between opening a file and writing it the file is empty, so the invariant is about the text
a file stands for (`Text`: the buffer while it is being written).  `UsersInv` and `PasswdInv` hold of the texts of files that no run left
unfinished; `SetInv` says what a run of `baker passwd` has achieved at each point, `BashInv` that root's line never goes back to
sh, also when a write of it stops in the middle (`BeginningsFacts`).  The lemmas above them say what replacing root's line or
putting it in front does to the users of a file (`PutFacts`, `PutUsers`, `WithBashFacts`).

`SysrootMerge_proofs` proves `TypeCorrect`, `MergeOverlays` and `UnrelatedStay` for any number of names, any payloads and links, every order
of the listing and any number of interrupted merges.  The invariant (`IInv`) says that every entry still to be merged has a
place to go (`TodoInv`), and, unless the order matters, which entries are as they were and which are as in the
overlay already, for the names (`NamesInv`) and for what directories have (`EntriesInv`).  Its difficulty is the
links: merging one entry could change where the directory of another leads.  That it does not is `MergedLeads`, and
rests on `WayAgrees`: trees that agree on the names of a way agree on where it leads.  Ways are of any length;
the induction over the number of links is by the least counterexample (`NumberInduction`).

`Image_proofs` proves of `BlueyFS`, for all sizes of the format and every sound image, with trees of any depth, `ExtractsExactly` and
`CursorStaysAtRecords`.  The invariant (`ReaderInv`, `ReaderInvariant`) has three levels.

* One iteration: its cursor is at the beginning of a block, at a record, or past the last one (`CursorInv`).  What it has
  come by (`Passed`) are the entries before its cursor; a step adds exactly the record it yields (`EnterFacts`, `LeaveFacts`, `PastFacts`),
  and at the end it has come by every entry of the directory (`EndFacts`), because records fill their blocks and blocks follow each other.
* The stack (`Stack`): what an iteration has come by is in the output with all that is below it, except for the
  entry that the next iteration is at.  So when the innermost one ends, its directory is complete (`StackPop`, `DirectoryIsEntries`), and the
  exception of the one around it is gone.  A lookup instead has not come by the name it looks for (`Lookup`), so that
  at the end of the directory there is no such path (`EndKeeps`).
* The paths: the ones before that in progress are extracted, and what is left is the end of the list (`LeftInv`).

Below these are lemmas about the format: `InodeFound`, `BlockFound` and `ContentFound` say that `read_inode`, `inode_block` and
`read_file` find what `Sound` put in place, at every boundary of the block map.  That what leads to a path is in the tree
(`PathsAreClosed`) is shown by the least counterexample.  The only assumptions are `SizeAssumption` and
`AskedAssumption`; that the image is sound is part of the properties.

Assumptions: the sets of components are finite (`NodeAssumption`, `RecipeAssumption`), the graphs are functions on
them (`GraphAssumption`), the order of repositories has no repetitions and the kernel is one of them (`OrderAssumption`), root and the user of a torn line
are none of the shipped ones (`UserAssumption`), payloads are trees
of a finite number of names (`NodeAssumption` of `SysrootMerge`), and the other named assumptions on constants; TLC evaluates
each of them in the runs.  Model-checked only: termination and the other liveness properties, which are out of the
prover's reach.

## 6. Not modelled

Log and console output, versions and contents of files, the commands inside a recipe
step, the command-line parser, the parsing of `baker.yaml`, host tools, archives that `PackageBuilder` writes, and the legacy recipes that
are not in the registry.  Of the components that are modelled:

* `Pipeline`: the repositories as one checkout (`Prepare` has them one by one), a host without make or bash, the
  alias scripts of the toolchain, an `image.output` outside the output directory, checkouts that lack the scripts the toolchain stage
  calls (it then skips them with success).  An unwritable musl prefix is skipped with success, which is modelled.  A kernel that is not found is one case whatever
  an older make left at the place it is looked for.
* `BuildStage`: what is in the files, and which of a component's files are in a directory of another beyond the places told apart.
* `RootPassword`: the hash itself, users that somebody adds by hand, `--sysroot` given as something other than a sysroot.
* `SysrootMerge`: ownership and modes, links with absolute targets, directories deeper than two levels.
* `BlueyFS`: inode metadata, the decoding of fields, block pointers that lead out of the image, and images whose
  directories are not a tree; in one that contained its own ancestor the extraction would go on until Python's recursion limit.
