------------------------------ MODULE Pipeline ------------------------------
(***************************************************************************)
(* The commands of baker (baker.py) as sequences of stages that share      *)
(* nothing but the disk: StageRunner runs one after the other and stops at *)
(* the first that fails, `baker vm --build` and `--fresh` call other       *)
(* stages themselves.  Each stage decides by what it finds on disk whether *)
(* its work has been done, so what an earlier run left, complete or not,   *)
(* is what the next one builds on.                                         *)
(*                                                                         *)
(* The repositories are one checkout here, numbered by what upstream has;  *)
(* how they fail one by one is in Prepare, what happens within the build   *)
(* stage in BuildStage.                                                    *)
(***************************************************************************)
EXTENDS Naturals, Sequences

CONSTANTS
    Configs,    \* the configurations and hosts
    None,       \* a file that is not there, no command
    Torn,       \* a file that was not written to its end
    Used,       \* an image that a guest has written to
    Mixed,      \* components of several checkouts, or some of them missing
    MaxRev,     \* bound: revisions that upstream publishes
    MaxBreaks   \* bound: stages that break although nothing they need is missing

\* What the sysroot and an image hold: of which revision the kernel, the
\* components and the libc are, and whether there is the link to it.
Revs == Nat \cup {None, Torn, Mixed}
Sysroots == [boot : Revs, comps : Revs, libc : Revs, link : BOOLEAN]
Contents == [kernel : Revs, comps : Revs, libc : Revs, link : BOOLEAN]

\* image.enabled and image.format, where ext2 and ext4 go by the tool the host
\* has; whether glibc-blueyos is enabled; where the toolchain goes: below build/,
\* to a prefix of its own, or to one that cannot be written; the specs of the musl
\* that a prefix of its own came with, None if it came with none.
ASSUME ConfigAssumption ==
    /\ Configs \subseteq [enabled : BOOLEAN,
                          format : {"native", "genext2fs", "mke2fs", "tar"},
                          glibc : BOOLEAN,
                          prefix : {"build", "opt", "readonly"},
                          shipped : {None, "none", "old", "good"}]
    /\ \A c \in Configs : c.prefix = "build" => c.shipped = None
    /\ MaxRev \in Nat \ {0} /\ MaxBreaks \in Nat
    /\ {None, Torn, Mixed} \cap Nat = {}
    /\ None \notin {"all", "vmBuild", "vmFresh"}
    /\ \A m \in {None, Torn, Used} : m \notin Sysroots \cup Contents

VARIABLES
    config,     \* baker.yaml and the host
    upstream,   \* the last revision published
    disk,       \* what is on disk
    command,    \* the command that runs, None between two
    queue,      \* the steps it has still to do
    failed,     \* whether a step of it failed, or of the last one
    skipped,    \* history: its steps that ended without having made all that they
                \* are there for
    breaks      \* number of breaks so far

run == <<command, queue, failed, skipped>>
vars == <<config, upstream, disk, run, breaks>>

Empty == [boot |-> None, comps |-> None, libc |-> None, link |-> FALSE]

Init ==
    /\ config \in Configs
    /\ upstream = 1
    /\ LET none == config.shipped = None
       IN  disk = [checkout |-> 0,      \* 0 before the first clone
                   build |-> FALSE,     \* whether build/ is there
                   cross |-> "none",    \* the cross compiler
                   lib |-> IF none THEN None ELSE 0,    \* the checkout that musl is of
                   specs |-> IF none THEN "none" ELSE config.shipped,
                   wrapper |-> IF none THEN "none" ELSE "good",
                   sysroot |-> None,    \* None, or kernel, components, libc and its link
                   image |-> None]
    /\ command = None /\ queue = <<>> /\ failed = FALSE /\ skipped = {}
    /\ breaks = 0

-----------------------------------------------------------------------------
(***************************************************************************)
(* Commands.                                                               *)
(***************************************************************************)

Toolchain == <<"cross", "musl">>

\* Mutant: the image is made before the components are.
ImageFirst == <<"prepare", "kernel", "cross", "musl", "image", "build", "package">>

\* ALL_STAGES
AllStages == <<"prepare", "kernel", "cross", "musl", "build", "package", "image">>

\* Mutant: the components are built over what there is.
FreshSteps == <<"rm-output", "build", "image", "boot">>

\* VmStage._fresh_rebuild
FreshRebuild == <<"rm-sysroot", "rm-output", "build", "image", "boot">>

\* What main() runs for each command; cleaning the sysroot always cleans the
\* output as well.
Steps ==
    [prepare |-> <<"prepare">>, kernel |-> <<"kernel">>, toolchain |-> Toolchain,
     build |-> <<"build">>, package |-> <<"package">>, image |-> <<"image">>,
     all |-> AllStages,
     vm |-> <<"boot">>, vmBuild |-> <<"image", "boot">>, vmFresh |-> FreshRebuild,
     clean |-> <<"rm-build">>, cleanOutput |-> <<"rm-build", "rm-output">>,
     cleanSysroot |-> <<"rm-build", "rm-sysroot", "rm-output">>]

Idle == queue = <<>>

SysrootOf(d) == IF d.sysroot = None THEN Empty ELSE d.sysroot

Start(c) ==
    /\ Idle
    /\ command' = c /\ queue' = Steps[c] /\ failed' = FALSE
    /\ UNCHANGED <<config, upstream, disk, skipped, breaks>>

At(step) == ~Idle /\ Head(queue) = step

Moves(d, missing) ==
    /\ disk' = d
    /\ queue' = Tail(queue)
    /\ command' = IF Len(queue) = 1 THEN None ELSE command
    /\ skipped' = IF Len(queue) = 1 THEN {} ELSE skipped \cup missing
    /\ UNCHANGED <<config, upstream, failed, breaks>>

Ends(d) == Moves(d, {})

\* With success, and nothing but a message in the log.
EndsSkipping(d) == Moves(d, {Head(queue)})

\* Mutant: the stages go on after one that failed.
FailsAndGoesOn(d) ==
    /\ disk' = d
    /\ queue' = Tail(queue)
    /\ command' = IF Len(queue) = 1 THEN None ELSE command
    /\ skipped' = IF Len(queue) = 1 THEN {} ELSE skipped
    /\ failed' = TRUE
    /\ UNCHANGED <<config, upstream>>

\* run_stages: no stage runs after one that failed.
Fails(d) ==
    /\ disk' = d
    /\ queue' = <<>> /\ command' = None
    /\ failed' = TRUE /\ skipped' = {}
    /\ UNCHANGED <<config, upstream>>

-----------------------------------------------------------------------------
(***************************************************************************)
(* Prepare, kernel and toolchain.                                          *)
(***************************************************************************)

\* Directories are made; a fetch that fails is only logged.
Prepared(d) ==
    {[d EXCEPT !.build = TRUE, !.sysroot = SysrootOf(d), !.checkout = c] : c \in {d.checkout, upstream}}

Prepare ==
    /\ At("prepare")
    /\ \E d \in Prepared(disk) : Ends(d)

\* Nothing is done, with success, before the first clone.
Unprepared ==
    /\ At("kernel") \/ At("cross") \/ At("musl")
    /\ disk.checkout = 0
    /\ Ends(disk)

WithBoot(d, kernel) == [d EXCEPT !.sysroot = [SysrootOf(d) EXCEPT !.boot = kernel]]

Kernel ==
    /\ At("kernel") /\ disk.checkout # 0
    /\ Ends(WithBoot(disk, disk.checkout))

\* make did not leave the kernel where it is looked for first: it is installed
\* under another name, or not at all.
KernelNotFound ==
    /\ At("kernel") /\ disk.checkout # 0
    /\ EndsSkipping([disk EXCEPT !.sysroot = SysrootOf(disk)])

MuslBelowBuild == config.prefix = "build"
CrossBelowBuild == config.prefix # "opt"    \* load_config falls back to build/
Writable == config.prefix # "readonly"

\* The script that builds the compiler is written to build/.
CanWriteScript(d) == d.build \/ CrossBelowBuild

\* A compiler that is there is not built again.
Cross ==
    /\ At("cross") /\ disk.checkout # 0
    /\ disk.cross = "none" => CanWriteScript(disk)
    /\ Ends(IF disk.cross = "none" THEN [disk EXCEPT !.build = TRUE, !.cross = "whole"] ELSE disk)

CrossFails ==
    /\ At("cross") /\ disk.checkout # 0
    /\ disk.cross = "none" /\ ~CanWriteScript(disk)
    /\ Fails(disk)
    /\ UNCHANGED breaks

\* Mutant: specs are good if they are there.
SpecsIfAbsent(d) ==
    IF d.specs # "none" \/ d.lib = None \/ ~Writable THEN {d.specs} ELSE {"good"}

\* ensure_musl_specs: specs without the guard, old ones and those that were torn
\* before it, are made again, but not those that are cut off after it; that needs
\* the headers and the library, which a torn musl may lack.
EnsureSpecs(d) ==
    IF d.specs \in {"good", "cut"} \/ d.lib = None \/ ~Writable THEN {d.specs}
    ELSE IF d.lib = Torn THEN {d.specs, "good"} ELSE {"good"}

\* repair_musl_wrapper: specs that are there are not looked into.
RepairWrapper(d) ==
    LET specs == IF d.specs = "none" THEN EnsureSpecs(d) ELSE {d.specs}
    IN  {[d EXCEPT !.specs = s,
                   !.wrapper = IF Writable /\ d.wrapper # "none" /\ s # "none" THEN "good" ELSE @] :
            s \in specs}

\* build-musl.sh installs musl, with specs of its own or without, and a
\* wrapper that the stage then repairs; a prefix it cannot write is skipped.
Installed(d) ==
    IF Writable
    THEN {[d EXCEPT !.build = TRUE, !.lib = d.checkout, !.specs = s, !.wrapper = "raw"] :
             s \in {d.specs, "old"}}
    ELSE {[d EXCEPT !.build = TRUE]}

Musl ==
    /\ At("musl") /\ disk.checkout # 0
    /\ \E d \in UNION {RepairWrapper(e) : e \in Installed(disk)} : Ends(d)

-----------------------------------------------------------------------------
(***************************************************************************)
(* Build, package and image.                                               *)
(***************************************************************************)

\* glibc-blueyos replaces lib/ and with it the link.
WithComps(d, comps, specs) ==
    [d EXCEPT !.build = TRUE, !.specs = specs,
              !.sysroot = [SysrootOf(d) EXCEPT !.comps = comps, !.link = @ /\ ~config.glibc]]

\* The recipes make the specs before they configure.
CanBuild(d, specs) == d.checkout # 0 /\ d.lib # None /\ specs \in EnsureSpecs(d) \ {"none"}

Build ==
    /\ At("build")
    /\ \E s \in EnsureSpecs(disk) : CanBuild(disk, s) /\ Ends(WithComps(disk, disk.checkout, s))

\* A recipe that does not find what it built leaves what an earlier one installed.
BuildNotFound ==
    /\ At("build")
    /\ \E s \in EnsureSpecs(disk), c \in {SysrootOf(disk).comps, Mixed} :
          CanBuild(disk, s) /\ EndsSkipping(WithComps(disk, c, s))

\* Some component may not build unless all that builds need is complete.
Sound(d) ==
    /\ d.checkout # 0
    /\ d.cross = "whole"
    /\ d.lib \in Nat /\ EnsureSpecs(d) = {"good"} /\ d.wrapper = "good"

\* What a failed or killed build leaves.
Unbuilt(d) ==
    {WithComps(d, c, s) :
        s \in {d.specs} \cup EnsureSpecs(d)
                \cup (IF EnsureSpecs(d) = {d.specs} THEN {} ELSE {"old", "cut"}),
        c \in {SysrootOf(d).comps, Mixed}}
    \cup {[d EXCEPT !.build = TRUE]}

BuildFails ==
    /\ At("build") /\ ~Sound(disk)
    /\ \E d \in Unbuilt(disk) : Fails(d)
    /\ UNCHANGED breaks

\* package() of a component that fails is only logged; the packages
\* themselves are in Packaging.
Package ==
    /\ At("package")
    /\ Ends(disk)

\* ensure_musl_dynlinker: a link that is there is kept, and whether a new one can
\* be made is only logged.
Linked(sysroot) == {[sysroot EXCEPT !.link = k] : k \in {TRUE, sysroot.link}}

\* _ensure_musl_runtime: a libc that is there is kept, whatever it is.
EnsureRuntime(d) ==
    IF d.lib = None THEN {d}
    ELSE {[d EXCEPT !.sysroot = s] : s \in Linked([SysrootOf(d) EXCEPT !.libc = IF @ = None THEN d.lib ELSE @])}

Snapshot(d, kernel) ==
    [kernel |-> kernel, comps |-> SysrootOf(d).comps, libc |-> SysrootOf(d).libc, link |-> SysrootOf(d).link]

Blank == [kernel |-> None, comps |-> None, libc |-> None, link |-> FALSE]

\* Neither of the others gives the image a new content: nothing is done if
\* images are disabled, and an archive is a file of another name.
Images == config.enabled /\ config.format # "tar"
FromSysroot == config.enabled /\ config.format \in {"native", "genext2fs"}

\* make builds the kernel as well, and reads the sysroot; mke2fs makes an
\* empty file system and leaves it at that.
CanImage(d) == ~config.enabled \/ IF config.format = "native" THEN d.checkout # 0
                                  ELSE config.format = "mke2fs" \/ d.sysroot # None

Imaged(d) ==
    IF ~Images THEN {d} ELSE
    CASE config.format = "native" ->
            {[e EXCEPT !.image = Snapshot(e, d.checkout)] : e \in EnsureRuntime(d)}
      [] config.format = "genext2fs" -> {[d EXCEPT !.image = Snapshot(d, SysrootOf(d).boot)]}
      [] config.format = "mke2fs" -> {[d EXCEPT !.image = Blank]}

Native == config.enabled /\ config.format = "native"

Image ==
    /\ At("image") /\ CanImage(disk)
    /\ \E d \in Imaged(disk) : Ends(d)

ImageFails ==
    /\ At("image") /\ ~CanImage(disk)
    /\ Fails(disk)
    /\ UNCHANGED breaks

\* Without -snapshot the guest writes to the image.
Booted(d) == IF d.image = None THEN {d} ELSE {d, [d EXCEPT !.image = Used]}

\* Anything that is there is booted.
Boot ==
    /\ At("boot") /\ disk.image # None
    /\ \E d \in Booted(disk) : Ends(d)

BootFails ==
    /\ At("boot") /\ disk.image = None
    /\ Fails(disk)
    /\ UNCHANGED breaks

-----------------------------------------------------------------------------
(***************************************************************************)
(* Removals.                                                               *)
(***************************************************************************)

WithoutBuild(d) ==
    LET e == [d EXCEPT !.build = FALSE, !.cross = IF CrossBelowBuild THEN "none" ELSE @]
    IN  IF MuslBelowBuild THEN [e EXCEPT !.lib = None, !.specs = "none", !.wrapper = "none"] ELSE e

RemoveBuild ==
    /\ At("rm-build")
    /\ Ends(WithoutBuild(disk))

RemoveSysroot ==
    /\ At("rm-sysroot")
    /\ Ends([disk EXCEPT !.sysroot = None])

RemoveOutput ==
    /\ At("rm-output")
    /\ Ends([disk EXCEPT !.image = None])

-----------------------------------------------------------------------------
(***************************************************************************)
(* Breaks: a command of the stage fails, or the process dies.              *)
(***************************************************************************)

\* The compiler's program is installed before its library.
CrossLeaves(d) ==
    IF d.cross = "none" /\ CanWriteScript(d)
    THEN {[d EXCEPT !.build = TRUE, !.cross = c] : c \in {"none", "partial"}} ELSE {d}

\* Specs are torn only if the stage has to make them.
MuslLeaves(d) ==
    IF Writable
    THEN {[d EXCEPT !.build = TRUE, !.lib = Torn, !.specs = s, !.wrapper = w] :
             s \in {d.specs, "old"}, w \in {d.wrapper, "raw"}}
         \cup {[e EXCEPT !.specs = IF @ = "none" THEN t ELSE @] : e \in Installed(d), t \in {"old", "cut"}}
    ELSE {d, [d EXCEPT !.build = TRUE]}

ImageLeaves(d) ==
    LET ready == IF Native THEN EnsureRuntime(d) ELSE {d}
        copying == IF Native /\ SysrootOf(d).libc = None
                   THEN {[d EXCEPT !.sysroot = [SysrootOf(d) EXCEPT !.libc = l]] : l \in {Torn, d.lib}}
                   ELSE {}
    IN  IF Images /\ CanImage(d)
        THEN {d} \cup ready \cup {[e EXCEPT !.image = Torn] : e \in ready}
             \cup (IF d.lib = None THEN {} ELSE copying)
        ELSE {d}

\* A removal that did not get to its end.
BuildLeft(d) ==
    LET gone == WithoutBuild(d)
    IN  {[d EXCEPT !.cross = c, !.lib = l, !.specs = s, !.wrapper = w] :
            c \in {gone.cross, IF d.cross = "none" \/ gone.cross # "none" THEN d.cross ELSE "partial"},
            l \in {gone.lib, IF d.lib = gone.lib THEN d.lib ELSE Torn},
            s \in {gone.specs, d.specs},
            w \in {gone.wrapper, d.wrapper}}

SysrootLeft(d) ==
    IF d.sysroot = None THEN {d}
    ELSE {[d EXCEPT !.sysroot = [boot |-> b, comps |-> c, libc |-> l, link |-> k]] :
             b \in {d.sysroot.boot, None}, c \in {d.sysroot.comps, Mixed},
             l \in {d.sysroot.libc}, k \in {d.sysroot.link, FALSE}}
         \cup {[d EXCEPT !.sysroot = [boot |-> b, comps |-> c, libc |-> None, link |-> FALSE]] :
             b \in {d.sysroot.boot, None}, c \in {d.sysroot.comps, Mixed}}

Left(step, d) ==
    CASE step = "prepare" -> Prepared(d) \cup {d}
      [] step \in {"kernel", "cross", "musl"} /\ d.checkout = 0 -> {d}
      [] step = "kernel" /\ d.checkout # 0 -> {d, WithBoot(d, Torn), WithBoot(d, d.checkout)}
      [] step = "cross" /\ d.checkout # 0 -> CrossLeaves(d)
      [] step = "musl" /\ d.checkout # 0 -> MuslLeaves(d)
      [] step = "build" -> Unbuilt(d)
      [] step = "image" -> ImageLeaves(d)
      [] step = "rm-build" -> BuildLeft(d)
      [] step = "rm-sysroot" -> SysrootLeft(d)
      [] step = "rm-output" -> {d, [d EXCEPT !.image = None]}
      [] step = "boot" -> Booted(d)
      [] step = "package" -> {d}

Break ==
    /\ ~Idle /\ breaks < MaxBreaks
    /\ \E d \in Left(Head(queue), disk) : Fails(d)
    /\ breaks' = breaks + 1

Publish ==
    /\ upstream < MaxRev
    /\ upstream' = upstream + 1
    /\ UNCHANGED <<config, disk, run, breaks>>

-----------------------------------------------------------------------------

Step ==
    \/ Prepare \/ Unprepared \/ Kernel \/ KernelNotFound \/ Cross \/ CrossFails \/ Musl
    \/ Build \/ BuildNotFound \/ BuildFails \/ Package \/ Image \/ ImageFails
    \/ Boot \/ BootFails
    \/ RemoveBuild \/ RemoveSysroot \/ RemoveOutput

Next ==
    \/ \E c \in DOMAIN Steps : Start(c)
    \/ Step
    \/ Break
    \/ Publish

Spec == Init /\ [][Next]_vars

\* A command goes on until it ends; somebody runs `baker all` again and again,
\* and not every single fetch fails.
Fairness ==
    /\ WF_vars(Step)
    /\ SF_vars(Start("all"))
    /\ SF_vars(Prepare /\ disk'.checkout = upstream)

FairSpec == Spec /\ Fairness

-----------------------------------------------------------------------------
(***************************************************************************)
(* Properties.                                                             *)
(***************************************************************************)

\* When `baker all` ends with success, the image is a new one and has the
\* kernel and the components of the present checkout, whatever partial and
\* outdated results earlier runs left on disk: a native one the kernel in any case,
\* any other unless the kernel stage did not find what make made, and
\* the components unless a recipe did not find what it built.  A native image
\* has a libc too, the one in the musl prefix unless the sysroot had one before;
\* the link to it is there if it was before or could be made.
\* (ALL_STAGES, and what makes each stage skip its work)
AllIsCurrent ==
    [][command = "all" /\ queue' = <<>> /\ ~failed' /\ FromSysroot =>
          LET image == disk'.image
              libc == SysrootOf(disk).libc
          IN  /\ image \notin {None, Torn, Used}
              /\ Native \/ "kernel" \notin skipped => image.kernel = disk'.checkout
              /\ "build" \notin skipped => image.comps = disk'.checkout
              /\ Native => /\ image.libc = IF libc = None THEN disk'.lib ELSE libc
                           /\ image.link = SysrootOf(disk').link]_vars

\* Neither `baker all` nor `baker vm --fresh` writes an image of components
\* that are not those of the present checkout, unless a recipe of this very run
\* did not find what it built: if the build fails, the image is left as it
\* was, or removed.
\* (run_stages, _fresh_rebuild)
NoImageOfFailedBuild ==
    [][/\ command \in {"all", "vmFresh"} /\ FromSysroot
       /\ disk'.image \notin {disk.image, None, Torn, Used}
       => disk'.image.comps = disk.checkout \/ "build" \in skipped]_vars

\* What `baker vm --build` boots was made from the sysroot and the kernel
\* sources as they are, and no guest has written to it; what `--fresh` boots has in
\* addition the components of the checkout, unless a recipe did not find what
\* it built, and the libc of the musl prefix, nothing older.
\* (VmStage.run)
BootedWasRebuilt ==
    [][Boot /\ FromSysroot /\ command \in {"vmBuild", "vmFresh"} =>
          /\ disk.image \notin {Torn, Used}
          /\ disk.image.comps = SysrootOf(disk).comps
          /\ command = "vmFresh" => disk.image.comps = disk.checkout \/ "build" \in skipped
          /\ Native => /\ disk.image.kernel = disk.checkout
                       /\ command = "vmFresh" => disk.image.libc = disk.lib]_vars

\* Again and again there is an image of what upstream has published last,
\* however runs were mixed and broken off before, unless stages go on to
\* skip work with success, or a run has left what nothing but `baker clean`
\* completes: a compiler without its library, or specs cut off after the guard.
\* (the conditions under which stages skip their work)
EventuallyCurrent ==
    FromSysroot /\ Writable =>
        \/ []<>(disk.image \notin {None, Torn, Used}
                /\ disk.image.kernel = upstream /\ disk.image.comps = upstream)
        \/ []<>(skipped # {})
        \/ <>[](disk.cross = "partial")
        \/ <>[](disk.specs = "cut")
=============================================================================
