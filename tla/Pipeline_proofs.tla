--------------------------- MODULE Pipeline_proofs ---------------------------
(***************************************************************************)
(* Proofs about what the commands of baker put into an image and boot, for *)
(* every set of configurations, any number of revisions and of breaks.     *)
(***************************************************************************)
EXTENDS Pipeline, SequenceTheorems, TLAPS

-----------------------------------------------------------------------------
(***************************************************************************)
(* What is on disk.                                                        *)
(***************************************************************************)

Disk == [checkout : Nat, build : BOOLEAN, cross : {"none", "partial", "whole"},
         lib : Revs, specs : {"none", "old", "cut", "good"}, wrapper : {"none", "raw", "good"},
         sysroot : Sysroots \cup {None}, image : Contents \cup {None, Torn, Used}]

\* A step leaves sysroot and image alone.
Keeps(d, e) == e.checkout = d.checkout /\ SysrootOf(e) = SysrootOf(d) /\ e.image = d.image

\* The sysroot may be missing; what is put into it is there then.
LEMMA SysrootFacts ==
    ASSUME NEW d \in Disk
    PROVE  /\ SysrootOf(d) \in Sysroots
           /\ Empty \in Sysroots
           /\ None \in Revs /\ Torn \in Revs /\ Mixed \in Revs /\ Nat \subseteq Revs
           /\ \A s \in Sysroots : /\ [d EXCEPT !.sysroot = s] \in Disk
                                  /\ SysrootOf([d EXCEPT !.sysroot = s]) = s
<1>1. None \in Revs /\ Torn \in Revs /\ Mixed \in Revs /\ Nat \subseteq Revs
  BY DEF Revs
<1>2. Empty \in Sysroots
  BY <1>1 DEF Empty, Sysroots
<1>3. None \notin Sysroots
  BY ConfigAssumption
<1>4. SysrootOf(d) \in Sysroots
  BY <1>2 DEF SysrootOf, Disk
<1>5. ASSUME NEW s \in Sysroots
      PROVE  [d EXCEPT !.sysroot = s] \in Disk /\ SysrootOf([d EXCEPT !.sysroot = s]) = s
  BY <1>3 DEF SysrootOf, Disk
<1> QED BY <1>1, <1>2, <1>4, <1>5

\* A revision of the kernel is put into the sysroot (kernel.py:51-83).
LEMMA BootFacts ==
    ASSUME NEW d \in Disk, NEW k \in Revs
    PROVE  /\ WithBoot(d, k) \in Disk
           /\ WithBoot(d, k).checkout = d.checkout /\ WithBoot(d, k).image = d.image
           /\ SysrootOf(WithBoot(d, k)) = [SysrootOf(d) EXCEPT !.boot = k]
<1> DEFINE s == [SysrootOf(d) EXCEPT !.boot = k]
<1>1. s \in Sysroots
  BY SysrootFacts DEF Sysroots
<1> HIDE DEF s
<1>2. [d EXCEPT !.sysroot = s] \in Disk /\ SysrootOf([d EXCEPT !.sysroot = s]) = s
  BY <1>1, SysrootFacts
<1>3. WithBoot(d, k) = [d EXCEPT !.sysroot = s]
  BY DEF WithBoot, s
<1>4. [d EXCEPT !.sysroot = s].checkout = d.checkout /\ [d EXCEPT !.sysroot = s].image = d.image
  BY DEF Disk
<1> QED BY <1>2, <1>3, <1>4 DEF s

\* The components are put into the sysroot (build.py:79-108).
LEMMA CompsFacts ==
    ASSUME NEW d \in Disk, NEW c \in Revs, NEW t \in {"none", "old", "cut", "good"}
    PROVE  LET g == WithComps(d, c, t)
           IN  /\ g \in Disk
               /\ g.checkout = d.checkout /\ g.image = d.image /\ g.lib = d.lib
               /\ SysrootOf(g).comps = c
               /\ SysrootOf(g).boot = SysrootOf(d).boot /\ SysrootOf(g).libc = SysrootOf(d).libc
<1> DEFINE k == SysrootOf(d).link /\ ~config.glibc
           s == [SysrootOf(d) EXCEPT !.comps = c, !.link = k]
           e == [d EXCEPT !.build = TRUE, !.specs = t]
<1>0. k \in BOOLEAN
  BY Zenon
<1>1. WithComps(d, c, t) = [e EXCEPT !.sysroot = s]
  <2>1. WithComps(d, c, t) = [d EXCEPT !.build = TRUE, !.specs = t, !.sysroot = s]
    <3>1. SysrootOf(d) \in Sysroots
      BY SysrootFacts
    <3> QED BY <3>1, Zenon DEF WithComps
  <2> HIDE DEF s
  <2> QED BY <2>1 DEF Disk
<1> HIDE DEF k
<1>2. s \in Sysroots /\ s.comps = c /\ s.boot = SysrootOf(d).boot /\ s.libc = SysrootOf(d).libc
  <2>1. SysrootOf(d) \in Sysroots
    BY SysrootFacts
  <2> QED BY <1>0, <2>1 DEF Sysroots
<1>3. e \in Disk /\ e.checkout = d.checkout /\ e.image = d.image /\ e.lib = d.lib
  BY DEF Disk
<1> HIDE DEF s, e
<1>4. [e EXCEPT !.sysroot = s] \in Disk /\ SysrootOf([e EXCEPT !.sysroot = s]) = s
  BY <1>2, <1>3, SysrootFacts
<1>5. /\ [e EXCEPT !.sysroot = s].checkout = e.checkout /\ [e EXCEPT !.sysroot = s].image = e.image
      /\ [e EXCEPT !.sysroot = s].lib = e.lib
  BY <1>3 DEF Disk
<1> QED BY <1>1, <1>2, <1>3, <1>4, <1>5

\* The specs that can result are specs (helpers/musl.py:84-134).
LEMMA SpecsFacts ==
    ASSUME NEW d \in Disk
    PROVE  EnsureSpecs(d) \subseteq {"none", "old", "cut", "good"}
BY DEF EnsureSpecs, Disk

\* Changing the tools only leaves sysroot and image alone.
LEMMA ToolsFacts ==
    ASSUME NEW d \in Disk, NEW b \in BOOLEAN, NEW c \in {"none", "partial", "whole"}, NEW l \in Revs,
           NEW s \in {"none", "old", "cut", "good"}, NEW w \in {"none", "raw", "good"}
    PROVE  LET e == [d EXCEPT !.build = b, !.cross = c, !.lib = l, !.specs = s, !.wrapper = w]
           IN  e \in Disk /\ Keeps(d, e)
<1> DEFINE e == [d EXCEPT !.build = b, !.cross = c, !.lib = l, !.specs = s, !.wrapper = w]
<1>1. e \in Disk
  BY DEF Disk
<1>2. e.checkout = d.checkout /\ e.sysroot = d.sysroot /\ e.image = d.image
  BY DEF Disk
<1> QED BY <1>1, <1>2 DEF Keeps, SysrootOf

\* prepare makes directories and may move the checkout (prepare.py:29-89).
LEMMA PreparedFacts ==
    ASSUME NEW d \in Disk, upstream \in Nat, NEW e \in Prepared(d)
    PROVE  e \in Disk /\ SysrootOf(e) = SysrootOf(d) /\ e.image = d.image
<1>1. PICK c \in {d.checkout, upstream} : e = [d EXCEPT !.build = TRUE, !.sysroot = SysrootOf(d), !.checkout = c]
  BY DEF Prepared
<1>2. SysrootOf(d) \in Sysroots /\ None \notin Sysroots
  BY SysrootFacts, ConfigAssumption
<1>3. e \in Disk /\ e.sysroot = SysrootOf(d) /\ e.image = d.image
  BY <1>1, <1>2 DEF Disk
<1>4. SysrootOf(e) = e.sysroot
  BY <1>2, <1>3 DEF SysrootOf
<1> QED BY <1>3, <1>4

\* Installing musl and repairing its wrapper touch the prefix only
\* (toolchain.py:94-144, helpers/musl.py:137-201).
LEMMA InstalledFacts ==
    ASSUME NEW d \in Disk
    PROVE  \A e \in Installed(d) : e \in Disk /\ Keeps(d, e)
<1>1. Nat \subseteq Revs
  BY SysrootFacts
<1>2. \A s \in {d.specs, "old"} :
         LET e == [d EXCEPT !.build = TRUE, !.lib = d.checkout, !.specs = s, !.wrapper = "raw"]
         IN  e \in Disk /\ Keeps(d, e)
  <2> SUFFICES ASSUME NEW s \in {d.specs, "old"}
               PROVE  LET e == [d EXCEPT !.build = TRUE, !.lib = d.checkout, !.specs = s, !.wrapper = "raw"]
                      IN  e \in Disk /\ Keeps(d, e)
    OBVIOUS
  <2> DEFINE e == [d EXCEPT !.build = TRUE, !.lib = d.checkout, !.specs = s, !.wrapper = "raw"]
  <2>1. e \in Disk
    BY <1>1 DEF Disk
  <2>2. e.checkout = d.checkout /\ e.sysroot = d.sysroot /\ e.image = d.image
    BY DEF Disk
  <2> QED BY <2>1, <2>2 DEF Keeps, SysrootOf
<1>3. LET e == [d EXCEPT !.build = TRUE] IN e \in Disk /\ Keeps(d, e)
  BY DEF Disk, Keeps, SysrootOf
<1> QED BY <1>2, <1>3 DEF Installed

LEMMA WrapperFacts ==
    ASSUME NEW d \in Disk, NEW e \in RepairWrapper(d)
    PROVE  e \in Disk /\ Keeps(d, e)
<1>1. PICK s \in {"none", "old", "cut", "good"} :
         e = [d EXCEPT !.specs = s,
                       !.wrapper = IF Writable /\ d.wrapper # "none" /\ s # "none" THEN "good" ELSE @]
  <2>1. d.specs \in {"none", "old", "cut", "good"} /\ EnsureSpecs(d) \subseteq {"none", "old", "cut", "good"}
    BY SpecsFacts DEF Disk
  <2> QED BY <2>1 DEF RepairWrapper
<1>2. e \in Disk
  BY <1>1 DEF Disk
<1>3. e.checkout = d.checkout /\ e.sysroot = d.sysroot /\ e.image = d.image
  BY <1>1 DEF Disk
<1> QED BY <1>2, <1>3 DEF Keeps, SysrootOf

\* The runtime is copied if there is none, and the link to it may fail
\* (stages/image.py:113-146, helpers/musl.py:204-270).
LEMMA RuntimeFacts ==
    ASSUME NEW d \in Disk, NEW e \in EnsureRuntime(d)
    PROVE  /\ e \in Disk
           /\ e.checkout = d.checkout /\ e.image = d.image /\ e.lib = d.lib
           /\ SysrootOf(e).boot = SysrootOf(d).boot /\ SysrootOf(e).comps = SysrootOf(d).comps
           /\ d.lib # None =>
                 SysrootOf(e).libc = IF SysrootOf(d).libc = None THEN d.lib ELSE SysrootOf(d).libc
<1>1. CASE d.lib = None
  BY <1>1 DEF EnsureRuntime
<1>2. CASE d.lib # None
  <2> DEFINE c == [SysrootOf(d) EXCEPT !.libc = IF SysrootOf(d).libc = None THEN d.lib ELSE SysrootOf(d).libc]
  <2>1. SysrootOf(d) \in Sysroots /\ d.lib \in Revs
    BY SysrootFacts DEF Disk
  <2>2. /\ c \in Sysroots /\ c.boot = SysrootOf(d).boot /\ c.comps = SysrootOf(d).comps
        /\ c.libc = IF SysrootOf(d).libc = None THEN d.lib ELSE SysrootOf(d).libc
    BY <2>1 DEF Sysroots
  <2>3. EnsureRuntime(d) = {[d EXCEPT !.sysroot = s] : s \in Linked(c)}
    BY <1>2 DEF EnsureRuntime
  <2> HIDE DEF c
  <2>4. PICK s \in Linked(c) : e = [d EXCEPT !.sysroot = s]
    BY <2>3
  <2>5. PICK k \in BOOLEAN : s = [c EXCEPT !.link = k]
    BY <2>2 DEF Linked, Sysroots
  <2>6. s \in Sysroots /\ s.boot = c.boot /\ s.comps = c.comps /\ s.libc = c.libc
    BY <2>2, <2>5 DEF Sysroots
  <2>7. [d EXCEPT !.sysroot = s] \in Disk /\ SysrootOf([d EXCEPT !.sysroot = s]) = s
    BY <2>6, SysrootFacts
  <2>8. /\ [d EXCEPT !.sysroot = s].checkout = d.checkout /\ [d EXCEPT !.sysroot = s].image = d.image
        /\ [d EXCEPT !.sysroot = s].lib = d.lib
    BY DEF Disk
  <2> QED BY <2>2, <2>4, <2>6, <2>7, <2>8
<1> QED BY <1>1, <1>2

\* A new image is put next to the sysroot (stages/image.py:23-100, helpers/image.py).
LEMMA PutImage ==
    ASSUME NEW d \in Disk, NEW i \in Contents \cup {None, Torn, Used}
    PROVE  LET e == [d EXCEPT !.image = i]
           IN  /\ e \in Disk /\ e.image = i /\ e.checkout = d.checkout /\ e.lib = d.lib
               /\ SysrootOf(e) = SysrootOf(d)
<1> DEFINE e == [d EXCEPT !.image = i]
<1>1. e \in Disk /\ e.image = i /\ e.checkout = d.checkout /\ e.sysroot = d.sysroot /\ e.lib = d.lib
  BY DEF Disk
<1> QED BY <1>1 DEF SysrootOf

\* What an image is made of is what the sysroot has after it has been completed.
LEMMA SnapshotFacts ==
    ASSUME NEW d \in Disk, NEW k \in Revs
    PROVE  /\ Snapshot(d, k) \in Contents
           /\ Snapshot(d, k).kernel = k /\ Snapshot(d, k).comps = SysrootOf(d).comps
           /\ Snapshot(d, k).libc = SysrootOf(d).libc /\ Snapshot(d, k).link = SysrootOf(d).link
BY SysrootFacts DEF Snapshot, Contents, Sysroots

LEMMA ImagedFacts ==
    ASSUME NEW d \in Disk, config \in Configs, NEW g \in Imaged(d)
    PROVE  /\ g \in Disk /\ g.checkout = d.checkout /\ g.lib = d.lib
           /\ SysrootOf(g).boot = SysrootOf(d).boot /\ SysrootOf(g).comps = SysrootOf(d).comps
           /\ FromSysroot =>
                 /\ g.image \in Contents /\ g.image.comps = SysrootOf(d).comps
                 /\ Native =>
                       /\ g.image.kernel = d.checkout
                       /\ g.image.link = SysrootOf(g).link
                       /\ d.lib # None =>
                             g.image.libc = IF SysrootOf(d).libc = None THEN d.lib ELSE SysrootOf(d).libc
                 /\ ~Native => g.image.kernel = SysrootOf(d).boot
<1>0. SysrootOf(d) \in Sysroots /\ d.checkout \in Revs /\ SysrootOf(d).boot \in Revs
  BY SysrootFacts DEF Disk, Sysroots
<1>1. CASE ~Images
  <2>1. g = d /\ ~FromSysroot
    BY <1>1 DEF Imaged, Images, FromSysroot
  <2> QED BY <2>1
<1>2. CASE Images /\ config.format = "native"
  <2>1. PICK e \in EnsureRuntime(d) : g = [e EXCEPT !.image = Snapshot(e, d.checkout)]
    BY <1>2 DEF Imaged
  <2>2. /\ e \in Disk /\ e.checkout = d.checkout /\ e.lib = d.lib
        /\ SysrootOf(e).boot = SysrootOf(d).boot /\ SysrootOf(e).comps = SysrootOf(d).comps
        /\ d.lib # None =>
              SysrootOf(e).libc = IF SysrootOf(d).libc = None THEN d.lib ELSE SysrootOf(d).libc
    BY RuntimeFacts
  <2>3. /\ Snapshot(e, d.checkout) \in Contents
        /\ Snapshot(e, d.checkout).kernel = d.checkout /\ Snapshot(e, d.checkout).comps = SysrootOf(e).comps
        /\ Snapshot(e, d.checkout).libc = SysrootOf(e).libc /\ Snapshot(e, d.checkout).link = SysrootOf(e).link
    BY <1>0, <2>2, SnapshotFacts
  <2>4. /\ g \in Disk /\ g.image = Snapshot(e, d.checkout)
        /\ g.checkout = d.checkout /\ g.lib = d.lib /\ SysrootOf(g) = SysrootOf(e)
    BY <2>1, <2>2, <2>3, PutImage
  <2>5. FromSysroot => Native
    BY <1>2 DEF FromSysroot, Native
  <2> QED BY <2>2, <2>3, <2>4, <2>5
<1>3. CASE Images /\ config.format = "genext2fs"
  <2>1. g = [d EXCEPT !.image = Snapshot(d, SysrootOf(d).boot)] /\ ~Native
    BY <1>3 DEF Imaged, Native
  <2>2. /\ Snapshot(d, SysrootOf(d).boot) \in Contents
        /\ Snapshot(d, SysrootOf(d).boot).kernel = SysrootOf(d).boot
        /\ Snapshot(d, SysrootOf(d).boot).comps = SysrootOf(d).comps
    BY <1>0, SnapshotFacts
  <2>3. /\ g \in Disk /\ g.image = Snapshot(d, SysrootOf(d).boot)
        /\ g.checkout = d.checkout /\ g.lib = d.lib /\ SysrootOf(g) = SysrootOf(d)
    BY <2>1, <2>2, PutImage
  <2> QED BY <2>1, <2>2, <2>3
<1>4. CASE Images /\ config.format = "mke2fs"
  <2>1. g = [d EXCEPT !.image = Blank] /\ ~FromSysroot
    BY <1>4 DEF Imaged, FromSysroot
  <2>2. Blank \in Contents
    BY SysrootFacts DEF Blank, Contents
  <2> QED BY <2>1, <2>2, PutImage
<1>5. config.format \in {"native", "genext2fs", "mke2fs", "tar"}
  BY ConfigAssumption
<1> QED BY <1>1, <1>2, <1>3, <1>4, <1>5 DEF Images

\* `baker clean` removes the tools below build/ (clean.py:25-46).
LEMMA WithoutBuildFacts ==
    ASSUME NEW d \in Disk
    PROVE  WithoutBuild(d) \in Disk /\ Keeps(d, WithoutBuild(d))
<1> DEFINE e == [d EXCEPT !.build = FALSE, !.cross = IF CrossBelowBuild THEN "none" ELSE @]
<1>1. e \in Disk /\ e.checkout = d.checkout /\ e.sysroot = d.sysroot /\ e.image = d.image
  BY DEF Disk
<1> DEFINE g == [e EXCEPT !.lib = None, !.specs = "none", !.wrapper = "none"]
<1>2. WithoutBuild(d) = IF MuslBelowBuild THEN g ELSE e
  BY DEF WithoutBuild
<1> HIDE DEF e
<1>3. g \in Disk /\ g.checkout = e.checkout /\ g.sysroot = e.sysroot /\ g.image = e.image
  BY <1>1, SysrootFacts DEF Disk
<1> HIDE DEF g
<1> QED BY <1>1, <1>2, <1>3 DEF Keeps, SysrootOf

\* A step that is broken off leaves the image as it was, removes or tears it, or
\* leaves it to a guest.
LEMMA LeftFacts ==
    ASSUME NEW d \in Disk, upstream \in Nat, NEW step, NEW e \in Left(step, d),
           step \in {"prepare", "kernel", "cross", "musl", "build", "package", "image", "boot",
                     "rm-build", "rm-sysroot", "rm-output"}
    PROVE  e \in Disk /\ e.image \in {d.image, None, Torn, Used}
<1>0. /\ None \in Revs /\ Torn \in Revs /\ Mixed \in Revs /\ Nat \subseteq Revs
      /\ SysrootOf(d) \in Sysroots /\ d.checkout \in Nat
  BY SysrootFacts DEF Disk
<1>1. CASE step = "prepare"
  BY <1>1, PreparedFacts DEF Left
<1>2. CASE step \in {"kernel", "cross", "musl"} /\ d.checkout = 0
  <2>1. e = d
    BY <1>2 DEF Left
  <2> QED BY <2>1
<1>3. CASE step = "kernel" /\ d.checkout # 0
  <2>1. e \in {d, WithBoot(d, Torn), WithBoot(d, d.checkout)}
    BY <1>3 DEF Left
  <2>2. WithBoot(d, Torn) \in Disk /\ WithBoot(d, Torn).image = d.image
    BY <1>0, BootFacts
  <2>3. WithBoot(d, d.checkout) \in Disk /\ WithBoot(d, d.checkout).image = d.image
    BY <1>0, BootFacts
  <2> QED BY <2>1, <2>2, <2>3
<1>4. CASE step = "cross" /\ d.checkout # 0
  <2>1. e \in CrossLeaves(d)
    BY <1>4 DEF Left
  <2>2. ASSUME NEW c \in {"none", "partial"}, e = [d EXCEPT !.build = TRUE, !.cross = c]
        PROVE  e \in Disk /\ e.image = d.image
    BY <2>2 DEF Disk
  <2>3. e = d \/ \E c \in {"none", "partial"} : e = [d EXCEPT !.build = TRUE, !.cross = c]
    BY <2>1 DEF CrossLeaves
  <2> QED BY <2>2, <2>3
<1>5. CASE step = "musl" /\ d.checkout # 0
  <2>1. e \in MuslLeaves(d)
    BY <1>5 DEF Left
  <2>2. CASE ~Writable
    <3>1. e \in {d, [d EXCEPT !.build = TRUE]}
      BY <2>1, <2>2 DEF MuslLeaves
    <3>2. [d EXCEPT !.build = TRUE] \in Disk /\ [d EXCEPT !.build = TRUE].image = d.image
      BY DEF Disk
    <3> QED BY <3>1, <3>2
  <2>3. CASE Writable
    <3>1. CASE e \in {[g EXCEPT !.specs = IF @ = "none" THEN t ELSE @] :
                         g \in Installed(d), t \in {"old", "cut"}}
      <4>1. PICK g \in Installed(d), t \in {"old", "cut"} : e = [g EXCEPT !.specs = IF @ = "none" THEN t ELSE @]
        BY <3>1
      <4>2. g \in Disk /\ g.image = d.image
        BY InstalledFacts DEF Keeps
      <4>3. e \in Disk /\ e.image = g.image
        BY <4>1, <4>2 DEF Disk
      <4> QED BY <4>2, <4>3
    <3>2. CASE e \in {[d EXCEPT !.build = TRUE, !.lib = Torn, !.specs = s, !.wrapper = w] :
                         s \in {d.specs, "old"}, w \in {d.wrapper, "raw"}}
      <4>1. PICK s \in {d.specs, "old"}, w \in {d.wrapper, "raw"} :
               e = [d EXCEPT !.build = TRUE, !.lib = Torn, !.specs = s, !.wrapper = w]
        BY <3>2
      <4>2. e \in Disk /\ e.image = d.image
        BY <1>0, <4>1 DEF Disk
      <4> QED BY <4>2
    <3> QED BY <2>1, <2>3, <3>1, <3>2 DEF MuslLeaves
  <2> QED BY <2>2, <2>3
<1>6. CASE step = "build"
  <2>1. e \in Unbuilt(d)
    BY <1>6 DEF Left
  <2> DEFINE S == {d.specs} \cup EnsureSpecs(d) \cup (IF EnsureSpecs(d) = {d.specs} THEN {} ELSE {"old", "cut"})
  <2>2. S \subseteq {"none", "old", "cut", "good"}
    BY SpecsFacts DEF Disk
  <2>3. Unbuilt(d) = {WithComps(d, c, t) : t \in S, c \in {SysrootOf(d).comps, Mixed}} \cup {[d EXCEPT !.build = TRUE]}
    BY DEF Unbuilt
  <2> HIDE DEF S
  <2>4. CASE e = [d EXCEPT !.build = TRUE]
    BY <2>4 DEF Disk
  <2>5. CASE \E t \in S, c \in {SysrootOf(d).comps, Mixed} : e = WithComps(d, c, t)
    <3>1. PICK t \in S, c \in {SysrootOf(d).comps, Mixed} : e = WithComps(d, c, t)
      BY <2>5
    <3>2. t \in {"none", "old", "cut", "good"} /\ c \in Revs
      BY <1>0, <2>2 DEF Sysroots
    <3> QED BY <3>1, <3>2, CompsFacts
  <2> QED BY <2>1, <2>3, <2>4, <2>5
<1>7. CASE step = "image"
  <2>1. e \in ImageLeaves(d)
    BY <1>7 DEF Left
  <2> DEFINE ready == IF Native THEN EnsureRuntime(d) ELSE {d}
  <2>2. \A g \in ready : g \in Disk /\ g.image = d.image
    BY RuntimeFacts
  <2>5. \/ e = d \/ e \in ready
        \/ \E g \in ready : e = [g EXCEPT !.image = Torn]
        \/ \E l \in {Torn, d.lib} : e = [d EXCEPT !.sysroot = [SysrootOf(d) EXCEPT !.libc = l]]
    BY <2>1 DEF ImageLeaves
  <2> HIDE DEF ready
  <2>3. CASE \E g \in ready : e = [g EXCEPT !.image = Torn]
    <3>1. PICK g \in ready : e = [g EXCEPT !.image = Torn]
      BY <2>3
    <3> QED BY <2>2, <3>1, PutImage
  <2>4. CASE \E l \in {Torn, d.lib} : e = [d EXCEPT !.sysroot = [SysrootOf(d) EXCEPT !.libc = l]]
    <3>1. PICK l \in Revs : e = [d EXCEPT !.sysroot = [SysrootOf(d) EXCEPT !.libc = l]]
      BY <1>0, <2>4 DEF Disk
    <3>2. [SysrootOf(d) EXCEPT !.libc = l] \in Sysroots
      BY <1>0 DEF Sysroots
    <3>3. e.image = d.image
      BY <3>1 DEF Disk
    <3> QED BY <3>1, <3>2, <3>3, SysrootFacts
  <2> QED BY <2>2, <2>3, <2>4, <2>5
<1>8. CASE step = "rm-build"
  <2>1. e \in BuildLeft(d)
    BY <1>8 DEF Left
  <2>2. WithoutBuild(d) \in Disk
    BY WithoutBuildFacts
  <2> DEFINE g == WithoutBuild(d)
  <2>3. PICK c \in {g.cross, IF d.cross = "none" \/ g.cross # "none" THEN d.cross ELSE "partial"},
             l \in {g.lib, IF d.lib = g.lib THEN d.lib ELSE Torn},
             s \in {g.specs, d.specs},
             w \in {g.wrapper, d.wrapper} :
           e = [d EXCEPT !.cross = c, !.lib = l, !.specs = s, !.wrapper = w]
    BY <2>1 DEF BuildLeft
  <2>4. /\ c \in {"none", "partial", "whole"} /\ l \in Revs
        /\ s \in {"none", "old", "cut", "good"} /\ w \in {"none", "raw", "good"}
    BY <1>0, <2>2 DEF Disk
  <2>5. e \in Disk /\ e.image = d.image
    BY <2>3, <2>4 DEF Disk
  <2> QED BY <2>5
<1>9. CASE step = "rm-sysroot"
  <2>1. e \in SysrootLeft(d)
    BY <1>9 DEF Left
  <2>2. CASE d.sysroot = None
    BY <2>1, <2>2 DEF SysrootLeft
  <2>3. CASE d.sysroot # None
    <3>1. d.sysroot \in Sysroots
      BY <2>3 DEF Disk
    <3>2. PICK b \in Revs, c \in Revs, l \in Revs, k \in BOOLEAN :
             e = [d EXCEPT !.sysroot = [boot |-> b, comps |-> c, libc |-> l, link |-> k]]
      <4> DEFINE R(b, c, l, k) == [d EXCEPT !.sysroot = [boot |-> b, comps |-> c, libc |-> l, link |-> k]]
      <4>1. \/ \E b \in {d.sysroot.boot, None}, c \in {d.sysroot.comps, Mixed},
                   l \in {d.sysroot.libc}, k \in {d.sysroot.link, FALSE} : e = R(b, c, l, k)
            \/ \E b \in {d.sysroot.boot, None}, c \in {d.sysroot.comps, Mixed} : e = R(b, c, None, FALSE)
        BY <2>1, <2>3 DEF SysrootLeft
      <4>2. d.sysroot.boot \in Revs /\ d.sysroot.comps \in Revs /\ d.sysroot.libc \in Revs /\ d.sysroot.link \in BOOLEAN
        BY <3>1 DEF Sysroots
      <4> HIDE DEF R
      <4>3. \E b \in Revs, c \in Revs, l \in Revs, k \in BOOLEAN : e = R(b, c, l, k)
        BY <1>0, <4>1, <4>2
      <4> QED BY <4>3 DEF R
    <3>3. [boot |-> b, comps |-> c, libc |-> l, link |-> k] \in Sysroots
      BY DEF Sysroots
    <3> QED BY <3>2, <3>3 DEF Disk
  <2> QED BY <2>2, <2>3
<1>10. CASE step = "rm-output"
  BY <1>10, PutImage DEF Left
<1>11. CASE step = "package"
  BY <1>11 DEF Left
<1>12. CASE step = "boot"
  <2>1. e = d \/ e = [d EXCEPT !.image = Used]
    BY <1>12 DEF Left, Booted
  <2>2. [d EXCEPT !.image = Used] \in Disk /\ [d EXCEPT !.image = Used].image = Used
    BY PutImage
  <2> QED BY <2>1, <2>2
<1> QED BY <1>1, <1>2, <1>3, <1>4, <1>5, <1>6, <1>7, <1>8, <1>9, <1>10, <1>11, <1>12

-----------------------------------------------------------------------------
(***************************************************************************)
(* What is still to do.                                                    *)
(***************************************************************************)

StepName == {"prepare", "kernel", "cross", "musl", "build", "package", "image", "boot",
             "rm-build", "rm-sysroot", "rm-output"}

\* q is what is left of s.
Rest(q, s) ==
    /\ q \in Seq(StepName) /\ Len(q) <= Len(s)
    /\ \A i \in 1 .. Len(q) : q[i] = s[Len(s) - Len(q) + i]

LEMMA AllStagesFacts ==
    /\ AllStages \in Seq(StepName) /\ Len(AllStages) = 7
    /\ AllStages[1] = "prepare" /\ AllStages[2] = "kernel" /\ AllStages[3] = "cross"
    /\ AllStages[4] = "musl" /\ AllStages[5] = "build" /\ AllStages[6] = "package" /\ AllStages[7] = "image"
BY DEF AllStages, StepName

\* Every command has steps (baker.py:342-430, vm.py:48-113).
LEMMA StepsFacts ==
    /\ \A c \in DOMAIN Steps : Steps[c] \in Seq(StepName) /\ Len(Steps[c]) > 0
    /\ None \notin {"all", "vmBuild", "vmFresh"}
    /\ {"all", "vmBuild", "vmFresh"} \subseteq DOMAIN Steps
    /\ Steps["all"] = AllStages
    /\ Len(Steps["vmBuild"]) = 2 /\ Steps["vmBuild"][1] = "image" /\ Steps["vmBuild"][2] = "boot"
    /\ Len(Steps["vmFresh"]) = 5
    /\ Steps["vmFresh"][1] = "rm-sysroot" /\ Steps["vmFresh"][2] = "rm-output"
    /\ Steps["vmFresh"][3] = "build" /\ Steps["vmFresh"][4] = "image" /\ Steps["vmFresh"][5] = "boot"
<1>1. Steps["all"] = AllStages /\ Steps["vmBuild"] = <<"image", "boot">>
      /\ Steps["vmFresh"] = <<"rm-sysroot", "rm-output", "build", "image", "boot">>
  BY DEF Steps, FreshRebuild
<1>2. \A c \in DOMAIN Steps : Steps[c] \in Seq(StepName) /\ Len(Steps[c]) > 0
  <2> SUFFICES ASSUME NEW c \in DOMAIN Steps PROVE Steps[c] \in Seq(StepName) /\ Len(Steps[c]) > 0
    OBVIOUS
  <2>1. c \in {"prepare", "kernel", "toolchain", "build", "package", "image", "all", "vm", "vmBuild", "vmFresh",
               "clean", "cleanOutput", "cleanSysroot"}
    BY DEF Steps
  <2>2. CASE c \in {"prepare", "kernel", "build", "package", "image", "vm", "clean"}
    <3>1. PICK n \in StepName : Steps[c] = <<n>>
      BY <2>2 DEF Steps, StepName
    <3>2. <<n>> \in Seq(StepName) /\ Len(<<n>>) > 0
      OBVIOUS
    <3> QED BY <3>1, <3>2
  <2>3. CASE c \in {"toolchain", "vmBuild", "cleanOutput"}
    <3>3. /\ Steps["toolchain"] = <<"cross", "musl">>
          /\ Steps["vmBuild"] = <<"image", "boot">>
          /\ Steps["cleanOutput"] = <<"rm-build", "rm-output">>
      BY DEF Steps, Toolchain
    <3>4. {"cross", "musl", "image", "boot", "rm-build", "rm-output"} \subseteq StepName
      BY DEF StepName
    <3>1. PICK n \in StepName, m \in StepName : Steps[c] = <<n, m>>
      BY <2>3, <3>3, <3>4
    <3>2. <<n, m>> \in Seq(StepName) /\ Len(<<n, m>>) > 0
      OBVIOUS
    <3> QED BY <3>1, <3>2
  <2>6. CASE c = "cleanSysroot"
    <3>1. Steps[c] = <<"rm-build", "rm-sysroot", "rm-output">>
      BY <2>6 DEF Steps
    <3> QED BY <3>1 DEF StepName
  <2>4. CASE c = "all"
    <3>1. Len(AllStages) > 0
      BY AllStagesFacts
    <3> QED BY <1>1, <2>4, <3>1, AllStagesFacts
  <2>5. CASE c = "vmFresh"
    <3> DEFINE q == <<"rm-sysroot", "rm-output", "build", "image", "boot">>
    <3>1. Len(q) = 5
      OBVIOUS
    <3>2. q \in Seq(StepName)
      BY DEF StepName
    <3>3. Steps[c] = q
      BY <1>1, <2>5
    <3> QED BY <3>1, <3>2, <3>3
  <2> QED BY <2>1, <2>2, <2>3, <2>4, <2>5, <2>6
<1>3. {"all", "vmBuild", "vmFresh"} \subseteq DOMAIN Steps
  BY DEF Steps
<1> QED BY <1>1, <1>2, <1>3, ConfigAssumption

\* A command has something left to do, and what that is.
QueueInv ==
    /\ queue \in Seq(StepName)
    /\ command \in DOMAIN Steps \cup {None}
    /\ command # None => Len(queue) > 0
    /\ command # None => Rest(queue, Steps[command])

\* A step that ends is the next of its command (stage_runner.py:115-136).
LEMMA EndsFacts ==
    ASSUME QueueInv, ~Idle, NEW d, NEW missing, Moves(d, missing)
    PROVE  /\ QueueInv'
           /\ command' # None => /\ command' = command /\ Len(queue') = Len(queue) - 1
                                 /\ skipped' = skipped \cup missing
           /\ queue' = <<>> => Len(queue) = 1
           /\ queue \in Seq(StepName) /\ Len(queue) \in Nat \ {0} /\ Head(queue) = queue[1]
           /\ Head(queue) \in StepName
           /\ disk' = d /\ UNCHANGED <<config, upstream, failed>>
<1> USE DEF Moves, Idle
<1>1. /\ queue \in Seq(StepName) /\ queue # <<>> /\ Len(queue) \in Nat \ {0}
      /\ Head(queue) = queue[1] /\ Head(queue) \in StepName
  BY DEF QueueInv
<1>2. /\ Tail(queue) \in Seq(StepName) /\ Len(Tail(queue)) = Len(queue) - 1
      /\ \A i \in 1 .. Len(queue) - 1 : Tail(queue)[i] = queue[i + 1]
  BY <1>1, HeadTailProperties
<1>3. command' # None => command' = command /\ Len(queue) # 1 /\ skipped' = skipped \cup missing
  OBVIOUS
<1>4. ASSUME command # None, Len(queue) # 1 PROVE Rest(queue', Steps[command])
  <2>1. Rest(queue, Steps[command]) /\ Steps[command] \in Seq(StepName)
    BY <1>4, StepsFacts DEF QueueInv
  <2>4. Len(Steps[command]) \in Nat
    BY <2>1
  <2>2. ASSUME NEW i \in 1 .. Len(queue) - 1
        PROVE  queue'[i] = Steps[command][Len(Steps[command]) - (Len(queue) - 1) + i]
    <3>1. i + 1 \in 1 .. Len(queue) /\ queue'[i] = queue[i + 1]
      BY <1>1, <1>2
    <3>2. queue[i + 1] = Steps[command][Len(Steps[command]) - Len(queue) + (i + 1)]
      BY <2>1, <3>1 DEF Rest
    <3>3. Len(Steps[command]) - Len(queue) + (i + 1) = Len(Steps[command]) - (Len(queue) - 1) + i
      <4>1. \A x, y, z \in Int : x - y + (z + 1) = x - (y - 1) + z
        OBVIOUS
      <4>2. Len(Steps[command]) \in Int /\ Len(queue) \in Int /\ i \in Int
        BY <1>1, <2>4
      <4> HIDE DEF Moves, Idle
      <4> QED BY <4>1, <4>2
    <3> QED BY <3>1, <3>2, <3>3
  <2>3. Len(queue') = Len(queue) - 1 /\ Len(queue') <= Len(Steps[command])
    BY <1>1, <1>2, <2>1 DEF Rest
  <2> QED BY <1>2, <2>2, <2>3 DEF Rest
<1>5. QueueInv'
  BY <1>1, <1>2, <1>3, <1>4 DEF QueueInv
<1>6. queue' = <<>> => Len(queue) = 1
  <2>1. Tail(queue) = <<>> => Len(Tail(queue)) = 0
    BY <1>2, EmptySeq
  <2> QED BY <1>1, <1>2, <2>1
<1>7. queue' = Tail(queue)
  OBVIOUS
<1> QED BY <1>1, <1>2, <1>3, <1>5, <1>6, <1>7

\* Where each command of interest is.
LEMMA HeadFacts ==
    ASSUME QueueInv, ~Idle
    PROVE  /\ Len(queue) \in Nat \ {0} /\ Head(queue) = queue[1] /\ Head(queue) \in StepName
           /\ command = "all" => Len(queue) <= 7 /\ Head(queue) = AllStages[8 - Len(queue)]
           /\ command = "vmBuild" => Len(queue) <= 2 /\ Head(queue) = Steps["vmBuild"][3 - Len(queue)]
           /\ command = "vmFresh" => Len(queue) <= 5 /\ Head(queue) = Steps["vmFresh"][6 - Len(queue)]
<1>1. queue \in Seq(StepName) /\ queue # <<>>
  BY DEF QueueInv, Idle
<1>2. Len(queue) \in Nat \ {0} /\ Head(queue) = queue[1] /\ Head(queue) \in StepName
  BY <1>1
<1>3. ASSUME command # None
      PROVE  /\ Len(queue) <= Len(Steps[command])
             /\ queue[1] = Steps[command][Len(Steps[command]) - Len(queue) + 1]
  BY <1>2, <1>3 DEF QueueInv, Rest
<1>4. CASE command = "all"
  BY <1>2, <1>3, <1>4, StepsFacts, AllStagesFacts
<1>5. CASE command = "vmBuild"
  BY <1>2, <1>3, <1>5, StepsFacts
<1>6. CASE command = "vmFresh"
  BY <1>2, <1>3, <1>6, StepsFacts
<1> QED BY <1>2, <1>4, <1>5, <1>6

\* In which position of a command a step is.
LEMMA PlaceFacts ==
    ASSUME QueueInv, ~Idle
    PROVE  LET n == Len(queue)
               h == Head(queue)
           IN  /\ n \in Nat \ {0} /\ h \in StepName
               /\ command = "all" =>
                     /\ n \in 1 .. 7
                     /\ h = "prepare" <=> n = 7
                     /\ h = "kernel" <=> n = 6
                     /\ h \in {"cross", "musl"} <=> n \in 4 .. 5
                     /\ h = "build" <=> n = 3
                     /\ h = "package" <=> n = 2
                     /\ h = "image" <=> n = 1
                     /\ h \notin {"boot", "rm-build", "rm-sysroot", "rm-output"}
               /\ command = "vmBuild" =>
                     /\ n \in 1 .. 2 /\ h \in {"image", "boot"}
                     /\ h = "image" <=> n = 2
                     /\ h = "boot" <=> n = 1
               /\ command = "vmFresh" =>
                     /\ n \in 1 .. 5
                     /\ h = "rm-sysroot" <=> n = 5
                     /\ h = "rm-output" <=> n = 4
                     /\ h = "build" <=> n = 3
                     /\ h = "image" <=> n = 2
                     /\ h = "boot" <=> n = 1
                     /\ h \notin {"prepare", "kernel", "cross", "musl", "package", "rm-build"}
<1> DEFINE n == Len(queue)
           h == Head(queue)
<1>1. /\ n \in Nat \ {0} /\ h = queue[1] /\ h \in StepName
      /\ command = "all" => n <= 7 /\ h = AllStages[8 - n]
      /\ command = "vmBuild" => n <= 2 /\ h = Steps["vmBuild"][3 - n]
      /\ command = "vmFresh" => n <= 5 /\ h = Steps["vmFresh"][6 - n]
  BY HeadFacts
<1> HIDE DEF n, h
<1>2. ASSUME command = "all"
      PROVE  /\ n \in 1 .. 7
             /\ n = 7 => h = "prepare"
             /\ n = 6 => h = "kernel"
             /\ n = 5 => h = "cross"
             /\ n = 4 => h = "musl"
             /\ n = 3 => h = "build"
             /\ n = 2 => h = "package"
             /\ n = 1 => h = "image"
  BY <1>1, <1>2, AllStagesFacts
<1>3. ASSUME command = "vmBuild" PROVE n \in 1 .. 2 /\ h = IF n = 2 THEN "image" ELSE "boot"
  BY <1>1, <1>3, StepsFacts
<1>4. ASSUME command = "vmFresh"
      PROVE  /\ n \in 1 .. 5
             /\ n = 5 => h = "rm-sysroot"
             /\ n = 4 => h = "rm-output"
             /\ n = 3 => h = "build"
             /\ n = 2 => h = "image"
             /\ n = 1 => h = "boot"
  BY <1>1, <1>4, StepsFacts
<1>5. command = "all" =>
         /\ n \in 1 .. 7
         /\ h = "prepare" <=> n = 7
         /\ h = "kernel" <=> n = 6
         /\ h \in {"cross", "musl"} <=> n \in 4 .. 5
         /\ h = "build" <=> n = 3
         /\ h = "package" <=> n = 2
         /\ h = "image" <=> n = 1
         /\ h \notin {"boot", "rm-build", "rm-sysroot", "rm-output"}
  BY <1>2
<1>6. command = "vmBuild" =>
         /\ n \in 1 .. 2
         /\ h = "image" <=> n = 2
         /\ h = "boot" <=> n = 1
  BY <1>3
<1>7. command = "vmFresh" =>
         /\ n \in 1 .. 5
         /\ h = "rm-sysroot" <=> n = 5
         /\ h = "rm-output" <=> n = 4
         /\ h = "build" <=> n = 3
         /\ h = "image" <=> n = 2
         /\ h = "boot" <=> n = 1
         /\ h \notin {"prepare", "kernel", "cross", "musl", "package", "rm-build"}
  BY <1>4
<1>8. command = "vmBuild" => h \in {"image", "boot"}
  BY <1>3
<1> QED BY <1>1, <1>5, <1>6, <1>7, <1>8 DEF n, h

-----------------------------------------------------------------------------
(***************************************************************************)
(* The inductive invariant.                                                *)
(***************************************************************************)

\* The sysroot of the disk now, and what a build has made of it.
Here == SysrootOf(disk)
IsBuilt ==
    /\ disk.checkout # 0 /\ disk.lib # None
    /\ Here.comps = disk.checkout \/ "build" \in skipped

\* `baker all` after the kernel stage, and after the build stage.
AllInv ==
    command = "all" =>
        /\ Len(queue) <= 5 => disk.checkout = 0 \/ Here.boot = disk.checkout \/ "kernel" \in skipped
        /\ Len(queue) <= 2 => IsBuilt

\* `baker vm --fresh` after the removal, after the build and before the image.
FreshInv ==
    command = "vmFresh" =>
        /\ Len(queue) \in 2 .. 4 => Here.libc = None
        /\ Len(queue) <= 2 => IsBuilt

\* What is about to be booted.
BootInv ==
    command \in {"vmBuild", "vmFresh"} /\ Len(queue) = 1 /\ FromSysroot =>
        /\ disk.image \in Contents /\ disk.image.comps = Here.comps
        /\ Native =>
              /\ disk.image.kernel = disk.checkout
              /\ command = "vmFresh" => disk.image.libc = disk.lib

IInv ==
    /\ config \in Configs /\ upstream \in Nat /\ disk \in Disk
    /\ QueueInv /\ AllInv /\ FreshInv /\ BootInv

\* What each step has to have done when it ends, or has skipped.
Fits(d, missing) ==
    LET h == Head(queue)
        new == SysrootOf(d)
    IN  /\ h # "prepare" => d.checkout = disk.checkout
        /\ h # "image" => d.image \in {disk.image, None, Used}
        /\ h \in {"cross", "musl", "package", "rm-output"} => new = Here
        /\ h = "package" => d.lib = disk.lib
        /\ h = "kernel" => disk.checkout = 0 \/ new.boot = disk.checkout \/ "kernel" \in missing
        /\ h = "build" => /\ d.checkout # 0 /\ d.lib # None
                          /\ new.comps = d.checkout \/ "build" \in missing
                          /\ new.boot = Here.boot /\ new.libc = Here.libc
        /\ h = "rm-sysroot" => new.libc = None
        /\ h = "image" =>
              /\ d.lib = disk.lib /\ new.comps = Here.comps
              /\ FromSysroot =>
                    /\ d.image \in Contents /\ d.image.comps = Here.comps
                    /\ Native =>
                          /\ d.image.kernel = disk.checkout
                          /\ disk.lib # None =>
                                d.image.libc = IF Here.libc = None THEN disk.lib ELSE Here.libc

\* A step that has done its work keeps the invariant.
LEMMA EndKeepsInv ==
    ASSUME IInv, ~Idle, NEW d \in Disk, NEW missing, Fits(d, missing), Moves(d, missing)
    PROVE  IInv'
<1> DEFINE n == Len(queue)
           h == Head(queue)
           m == Len(queue')
<1>1. /\ QueueInv' /\ disk' = d /\ UNCHANGED <<config, upstream>>
      /\ command' # None => command' = command /\ m = n - 1 /\ skipped' = skipped \cup missing
  BY EndsFacts DEF IInv
<1>2. /\ n \in Nat \ {0}
      /\ command = "all" =>
            /\ n \in 1 .. 7
            /\ h = "prepare" <=> n = 7
            /\ h = "kernel" <=> n = 6
            /\ h \in {"cross", "musl"} <=> n \in 4 .. 5
            /\ h = "build" <=> n = 3
            /\ h = "package" <=> n = 2
      /\ command = "vmBuild" =>
            /\ n \in 1 .. 2
            /\ h = "image" <=> n = 2
      /\ command = "vmFresh" =>
            /\ n \in 1 .. 5
            /\ h = "rm-sysroot" <=> n = 5
            /\ h = "rm-output" <=> n = 4
            /\ h = "build" <=> n = 3
            /\ h = "image" <=> n = 2
  BY PlaceFacts DEF IInv
<1>3. /\ Here' = SysrootOf(d) /\ FromSysroot' = FromSysroot /\ Native' = Native
      /\ None \notin {"all", "vmBuild", "vmFresh"}
      /\ AllInv /\ FreshInv /\ BootInv
  BY <1>1, ConfigAssumption DEF Here, FromSysroot, Native, IInv
<1>4. /\ command' \in {"all", "vmBuild", "vmFresh"} => command' = command /\ m = n - 1 /\ skipped' = skipped \cup missing
  BY <1>1, <1>3
<1> HIDE DEF n, h, m
<1>8. Len(queue') = m /\ disk' = d /\ Here' = SysrootOf(d)
  BY <1>1, <1>3 DEF m
<1>5. AllInv'
  <2> SUFFICES ASSUME command' = "all"
               PROVE  /\ m <= 5 => d.checkout = 0 \/ SysrootOf(d).boot = d.checkout \/ "kernel" \in skipped'
                      /\ m <= 2 => /\ d.checkout # 0 /\ d.lib # None
                                   /\ SysrootOf(d).comps = d.checkout \/ "build" \in skipped'
    BY <1>8 DEF AllInv, IsBuilt, Here
  <2>1. command = "all" /\ m = n - 1 /\ m \in 0 .. 6 /\ skipped' = skipped \cup missing
    BY <1>2, <1>4
  <2>2. CASE m = 5
    BY <1>2, <2>1, <2>2 DEF Fits, h
  <2>3. CASE m \in 3 .. 4
    <3>1. h \in {"cross", "musl"} /\ n <= 5
      BY <1>2, <2>1, <2>3
    <3>2. disk.checkout = 0 \/ Here.boot = disk.checkout \/ "kernel" \in skipped
      BY <1>3, <2>1, <3>1 DEF AllInv, n
    <3>3. d.checkout = disk.checkout /\ SysrootOf(d) = Here
      BY <3>1 DEF Fits, h
    <3> QED BY <2>1, <2>3, <3>2, <3>3
  <2>4. CASE m = 2
    <3>1. h = "build" /\ n <= 5
      BY <1>2, <2>1, <2>4
    <3> QED BY <1>3, <2>1, <2>4, <3>1 DEF Fits, AllInv, h, n
  <2>5. CASE m = 1
    <3>1. h = "package" /\ n <= 2
      BY <1>2, <2>1, <2>5
    <3> QED BY <1>3, <2>1, <2>5, <3>1 DEF Fits, AllInv, IsBuilt, h, n
  <2>6. CASE m = 0
    <3>1. n = 1
      BY <2>1, <2>6
    <3>2. command' = None
      BY <3>1 DEF Moves, n
    <3> QED BY <1>3, <2>1, <3>2
  <2> QED BY <2>1, <2>2, <2>3, <2>4, <2>5, <2>6
<1>6. FreshInv'
  <2> SUFFICES ASSUME command' = "vmFresh"
               PROVE  /\ m \in 2 .. 4 => SysrootOf(d).libc = None
                      /\ m <= 2 => /\ d.checkout # 0 /\ d.lib # None
                                   /\ SysrootOf(d).comps = d.checkout \/ "build" \in skipped'
    BY <1>8 DEF FreshInv, IsBuilt, Here
  <2>1. command = "vmFresh" /\ m = n - 1 /\ m \in 0 .. 4 /\ skipped' = skipped \cup missing
    BY <1>2, <1>4
  <2>2. CASE m = 4
    BY <1>2, <2>1, <2>2 DEF Fits, h
  <2>3. CASE m = 3
    <3>1. h = "rm-output" /\ n \in 2 .. 4
      BY <1>2, <2>1, <2>3
    <3>2. Here.libc = None
      BY <1>3, <2>1, <3>1 DEF FreshInv, n
    <3>3. SysrootOf(d) = Here
      BY <3>1 DEF Fits, h
    <3> QED BY <2>1, <2>3, <3>2, <3>3
  <2>4. CASE m = 2
    <3>1. h = "build" /\ n \in 2 .. 4
      BY <1>2, <2>1, <2>4
    <3> QED BY <1>3, <2>1, <2>4, <3>1 DEF Fits, FreshInv, h, n
  <2>5. CASE m = 1
    <3>1. h = "image" /\ n <= 2
      BY <1>2, <2>1, <2>5
    <3>2. IsBuilt
      BY <1>3, <2>1, <3>1 DEF FreshInv, n
    <3>3. d.checkout = disk.checkout /\ d.lib = disk.lib /\ SysrootOf(d).comps = Here.comps
      BY <3>1 DEF Fits, h
    <3> QED BY <2>1, <2>5, <3>2, <3>3 DEF IsBuilt
  <2>6. CASE m = 0
    <3>1. n = 1
      BY <2>1, <2>6
    <3>2. command' = None
      BY <3>1 DEF Moves, n
    <3> QED BY <1>3, <2>1, <3>2
  <2> QED BY <2>1, <2>2, <2>3, <2>4, <2>5, <2>6
<1>7. BootInv'
  <2> SUFFICES ASSUME command' \in {"vmBuild", "vmFresh"}, m = 1, FromSysroot
               PROVE  /\ d.image \in Contents /\ d.image.comps = SysrootOf(d).comps
                      /\ Native =>
                            /\ d.image.kernel = d.checkout
                            /\ command' = "vmFresh" => d.image.libc = d.lib
    BY <1>1, <1>3 DEF BootInv, m
  <2>1. command' = command /\ n = 2 /\ h = "image"
    BY <1>2, <1>4
  <2>2. /\ d.checkout = disk.checkout /\ d.lib = disk.lib /\ SysrootOf(d).comps = Here.comps
        /\ d.image \in Contents /\ d.image.comps = Here.comps
        /\ Native =>
              /\ d.image.kernel = disk.checkout
              /\ disk.lib # None =>
                    d.image.libc = IF Here.libc = None THEN disk.lib ELSE Here.libc
    BY <2>1 DEF Fits, h
  <2>3. command = "vmFresh" => Here.libc = None /\ disk.lib # None
    BY <1>3, <2>1 DEF FreshInv, IsBuilt, n
  <2> QED BY <2>1, <2>2, <2>3
<1> QED BY <1>1, <1>5, <1>6, <1>7 DEF IInv

\* A command that fails or is broken off has nothing more to do.
LEMMA FailKeepsInv ==
    ASSUME IInv, NEW d \in Disk, Fails(d)
    PROVE  IInv'
<1>1. queue' \in Seq(StepName)
  BY EmptySeq DEF Fails
<1>2. command' = None /\ disk' = d /\ UNCHANGED <<config, upstream>>
  BY DEF Fails
<1> QED BY <1>1, <1>2, ConfigAssumption DEF IInv, QueueInv, AllInv, FreshInv, BootInv

\* What each stage leaves when it ends is what the following ones count on.
StepFits ==
    \E d \in Disk, missing \in SUBSET StepName : ~Idle /\ Fits(d, missing) /\ Moves(d, missing)

LEMMA StepEnds ==
    ASSUME IInv,
           \/ Prepare \/ Unprepared \/ Kernel \/ KernelNotFound \/ Cross \/ Musl \/ Build \/ BuildNotFound
           \/ Package \/ Image \/ Boot
           \/ RemoveBuild \/ RemoveSysroot \/ RemoveOutput
    PROVE  StepFits
<1> USE DEF At
<1>e. ASSUME NEW d \in Disk, ~Idle, Ends(d), Fits(d, {}) PROVE StepFits
  <2>1. {} \in SUBSET StepName
    OBVIOUS
  <2> QED BY <1>e, <2>1 DEF StepFits, Ends
<1>s. ASSUME NEW d \in Disk, ~Idle, EndsSkipping(d), Fits(d, {Head(queue)}) PROVE StepFits
  <2>1. {Head(queue)} \in SUBSET StepName
    BY <1>s, HeadFacts DEF IInv
  <2> QED BY <1>s, <2>1 DEF StepFits, EndsSkipping
<1>0. disk \in Disk /\ upstream \in Nat /\ config \in Configs
      /\ disk.checkout \in Nat /\ disk.checkout \in Revs /\ Here \in Sysroots
  BY SysrootFacts DEF IInv, Disk, Here
<1>1. CASE Prepare
  <2>1. PICK d \in Prepared(disk) : Ends(d) /\ ~Idle /\ Head(queue) = "prepare"
    BY <1>1 DEF Prepare
  <2>2. d \in Disk /\ d.image = disk.image
    BY <1>0, PreparedFacts
  <2> QED BY <1>e, <2>1, <2>2 DEF Fits
<1>2. CASE Unprepared
  <2>1. Ends(disk) /\ ~Idle /\ Head(queue) \in {"kernel", "cross", "musl"} /\ disk.checkout = 0
    BY <1>2 DEF Unprepared
  <2>2. Fits(disk, {})
    BY <2>1 DEF Fits, Here
  <2> QED BY <1>0, <1>e, <2>1, <2>2
<1>3. CASE Kernel
  <2> DEFINE d == WithBoot(disk, disk.checkout)
  <2>1. Ends(d) /\ ~Idle /\ Head(queue) = "kernel"
    BY <1>3 DEF Kernel
  <2>2. /\ d \in Disk /\ d.checkout = disk.checkout /\ d.image = disk.image
        /\ SysrootOf(d) = [Here EXCEPT !.boot = disk.checkout]
    BY <1>0, BootFacts DEF Here
  <2>3. SysrootOf(d).boot = disk.checkout
    BY <1>0, <2>2 DEF Sysroots
  <2> HIDE DEF d
  <2>4. Fits(d, {})
    BY <2>1, <2>2, <2>3 DEF Fits
  <2> QED BY <1>e, <2>1, <2>2, <2>4
<1>4. CASE Cross
  <2> DEFINE d == IF disk.cross = "none" THEN [disk EXCEPT !.build = TRUE, !.cross = "whole"] ELSE disk
  <2>1. Ends(d) /\ ~Idle /\ Head(queue) = "cross"
    BY <1>4 DEF Cross
  <2>2. d \in Disk /\ d.checkout = disk.checkout /\ d.sysroot = disk.sysroot /\ d.image = disk.image
    BY <1>0 DEF Disk
  <2>3. SysrootOf(d) = Here
    BY <2>2 DEF SysrootOf, Here
  <2> HIDE DEF d
  <2>4. Fits(d, {})
    BY <2>1, <2>2, <2>3 DEF Fits
  <2> QED BY <1>e, <2>1, <2>2, <2>4
<1>5. CASE Musl
  <2>1. PICK d \in UNION {RepairWrapper(e) : e \in Installed(disk)} : Ends(d) /\ ~Idle /\ Head(queue) = "musl"
    BY <1>5 DEF Musl
  <2>2. PICK e \in Installed(disk) : d \in RepairWrapper(e)
    BY <2>1
  <2>3. d \in Disk /\ Keeps(disk, e) /\ Keeps(e, d)
    BY <1>0, <2>2, InstalledFacts, WrapperFacts
  <2>4. d.checkout = disk.checkout /\ SysrootOf(d) = Here /\ d.image = disk.image
    BY <2>3 DEF Keeps, Here
  <2>5. Fits(d, {})
    BY <2>1, <2>4 DEF Fits
  <2> QED BY <1>e, <2>1, <2>3, <2>5
<1>6. CASE Build
  <2>1. PICK s \in EnsureSpecs(disk) :
           /\ CanBuild(disk, s) /\ Ends(WithComps(disk, disk.checkout, s))
           /\ ~Idle /\ Head(queue) = "build"
    BY <1>6 DEF Build
  <2> DEFINE d == WithComps(disk, disk.checkout, s)
  <2>2. s \in {"none", "old", "cut", "good"}
    BY <1>0, SpecsFacts
  <2>3. /\ d \in Disk /\ d.checkout = disk.checkout /\ d.lib = disk.lib /\ d.image = disk.image
        /\ SysrootOf(d).comps = disk.checkout
        /\ SysrootOf(d).boot = Here.boot /\ SysrootOf(d).libc = Here.libc
    BY <1>0, <2>2, CompsFacts DEF Here
  <2>4. Ends(d) /\ disk.checkout # 0 /\ disk.lib # None
    BY <2>1 DEF CanBuild
  <2> HIDE DEF d
  <2>5. Fits(d, {})
    BY <2>1, <2>3, <2>4 DEF Fits
  <2> QED BY <1>e, <2>1, <2>3, <2>4, <2>5
<1>12. CASE BuildNotFound
  <2>1. PICK s \in EnsureSpecs(disk), c \in {SysrootOf(disk).comps, Mixed} :
           /\ CanBuild(disk, s) /\ EndsSkipping(WithComps(disk, c, s))
           /\ ~Idle /\ Head(queue) = "build"
    BY <1>12 DEF BuildNotFound
  <2> DEFINE d == WithComps(disk, c, s)
  <2>2. s \in {"none", "old", "cut", "good"} /\ c \in Revs
    BY <1>0, SpecsFacts, SysrootFacts DEF Sysroots
  <2>3. /\ d \in Disk /\ d.checkout = disk.checkout /\ d.lib = disk.lib /\ d.image = disk.image
        /\ SysrootOf(d).boot = Here.boot /\ SysrootOf(d).libc = Here.libc
    BY <1>0, <2>2, CompsFacts DEF Here
  <2>4. EndsSkipping(d) /\ disk.checkout # 0 /\ disk.lib # None
    BY <2>1 DEF CanBuild
  <2> HIDE DEF d
  <2>5. Fits(d, {"build"})
    BY <2>1, <2>3, <2>4 DEF Fits
  <2> QED BY <1>s, <2>1, <2>3, <2>4, <2>5
<1>13. CASE KernelNotFound
  <2> DEFINE d == [disk EXCEPT !.sysroot = SysrootOf(disk)]
  <2>1. EndsSkipping(d) /\ ~Idle /\ Head(queue) = "kernel"
    BY <1>13 DEF KernelNotFound
  <2>2. d \in Disk /\ d.checkout = disk.checkout /\ d.image = disk.image
    BY <1>0, SysrootFacts DEF Disk
  <2> HIDE DEF d
  <2>3. Fits(d, {"kernel"})
    BY <2>1, <2>2 DEF Fits
  <2> QED BY <1>s, <2>1, <2>2, <2>3
<1>7. CASE Package
  <2>1. Ends(disk) /\ ~Idle /\ Head(queue) = "package"
    BY <1>7 DEF Package
  <2>2. Fits(disk, {})
    BY <2>1 DEF Fits, Here
  <2> QED BY <1>0, <1>e, <2>1, <2>2
<1>14. CASE Boot
  <2>1. PICK d \in Booted(disk) : Ends(d) /\ ~Idle /\ Head(queue) = "boot"
    BY <1>14 DEF Boot
  <2>2. d \in Disk /\ d.checkout = disk.checkout /\ d.image \in {disk.image, Used}
    <3>1. d = disk \/ d = [disk EXCEPT !.image = Used]
      BY <2>1 DEF Booted
    <3>2. LET e == [disk EXCEPT !.image = Used]
          IN  e \in Disk /\ e.checkout = disk.checkout /\ e.image = Used
      BY <1>0, PutImage
    <3> QED BY <1>0, <3>1, <3>2
  <2>3. Fits(d, {})
    BY <2>1, <2>2 DEF Fits
  <2> QED BY <1>e, <2>1, <2>2, <2>3
<1>8. CASE Image
  <2>1. PICK d \in Imaged(disk) : Ends(d) /\ ~Idle /\ Head(queue) = "image"
    BY <1>8 DEF Image
  <2>2. /\ d \in Disk /\ d.checkout = disk.checkout /\ d.lib = disk.lib
        /\ SysrootOf(d).comps = Here.comps
        /\ FromSysroot =>
              /\ d.image \in Contents /\ d.image.comps = Here.comps
              /\ Native =>
                    /\ d.image.kernel = disk.checkout
                    /\ disk.lib # None =>
                          d.image.libc = IF Here.libc = None THEN disk.lib ELSE Here.libc
    BY <1>0, ImagedFacts DEF Here
  <2>3. Fits(d, {})
    BY <2>1, <2>2 DEF Fits
  <2> QED BY <1>e, <2>1, <2>2, <2>3
<1>9. CASE RemoveBuild
  <2> DEFINE d == WithoutBuild(disk)
  <2>1. Ends(d) /\ ~Idle /\ Head(queue) = "rm-build"
    BY <1>9 DEF RemoveBuild
  <2>2. d \in Disk /\ d.checkout = disk.checkout /\ d.image = disk.image
    BY <1>0, WithoutBuildFacts DEF Keeps
  <2> HIDE DEF d
  <2> QED BY <1>e, <2>1, <2>2 DEF Fits
<1>10. CASE RemoveSysroot
  <2> DEFINE d == [disk EXCEPT !.sysroot = None]
  <2>1. Ends(d) /\ ~Idle /\ Head(queue) = "rm-sysroot"
    BY <1>10 DEF RemoveSysroot
  <2>2. d \in Disk /\ d.checkout = disk.checkout /\ d.sysroot = None /\ d.image = disk.image
    BY <1>0 DEF Disk
  <2>3. SysrootOf(d).libc = None
    BY <2>2 DEF SysrootOf, Empty
  <2> HIDE DEF d
  <2> QED BY <1>e, <2>1, <2>2, <2>3 DEF Fits
<1>11. CASE RemoveOutput
  <2> DEFINE d == [disk EXCEPT !.image = None]
  <2>1. Ends(d) /\ ~Idle /\ Head(queue) = "rm-output"
    BY <1>11 DEF RemoveOutput
  <2>2. d \in Disk /\ d.checkout = disk.checkout /\ SysrootOf(d) = Here /\ d.image = None
    BY <1>0, PutImage DEF Here
  <2> HIDE DEF d
  <2> QED BY <1>e, <2>1, <2>2 DEF Fits
<1> QED BY <1>1, <1>2, <1>3, <1>4, <1>5, <1>6, <1>7, <1>8, <1>9, <1>10, <1>11, <1>12, <1>13, <1>14

\* What fails or is broken off makes no image.
LEMMA StepFails ==
    ASSUME IInv, CrossFails \/ BuildFails \/ ImageFails \/ BootFails \/ Break
    PROVE  \E d \in Disk : ~Idle /\ Fails(d) /\ d.image \in {disk.image, None, Torn, Used}
<1> USE DEF At
<1>0. disk \in Disk /\ upstream \in Nat
  BY DEF IInv
<1>1. CASE CrossFails \/ ImageFails \/ BootFails
  BY <1>0, <1>1 DEF CrossFails, ImageFails, BootFails
<1>2. CASE BuildFails
  <2>1. PICK d \in Unbuilt(disk) : Fails(d) /\ ~Idle
    BY <1>2 DEF BuildFails
  <2>2. Left("build", disk) = Unbuilt(disk)
    BY DEF Left
  <2>3. d \in Disk /\ d.image \in {disk.image, None, Torn, Used}
    BY <1>0, <2>1, <2>2, LeftFacts
  <2> QED BY <2>1, <2>3
<1>3. CASE Break
  <2>1. PICK d \in Left(Head(queue), disk) : Fails(d) /\ ~Idle
    BY <1>3 DEF Break
  <2>2. Head(queue) \in StepName
    BY <2>1, HeadFacts DEF IInv
  <2>3. d \in Disk /\ d.image \in {disk.image, None, Torn, Used}
    <3> DEFINE h == Head(queue)
    <3>1. h \in StepName /\ d \in Left(h, disk)
      BY <2>1, <2>2
    <3> HIDE DEF h
    <3> QED BY <1>0, <3>1, LeftFacts DEF StepName
  <2> QED BY <2>1, <2>3
<1> QED BY <1>1, <1>2, <1>3

\* Between two steps a command is started or upstream moves on.
LEMMA BetweenKeepsInv ==
    ASSUME IInv, Publish \/ \E c \in DOMAIN Steps : Start(c)
    PROVE  IInv'
<1>1. CASE Publish
  <2>1. /\ UNCHANGED <<config, disk, command, queue, skipped>> /\ upstream' \in Nat
    BY <1>1 DEF Publish, run, IInv
  <2> QED BY <2>1 DEF IInv, QueueInv, AllInv, FreshInv, BootInv, Here, IsBuilt, FromSysroot, Native
<1>2. ASSUME NEW c \in DOMAIN Steps, Start(c) PROVE IInv'
  <2>1. UNCHANGED <<config, disk, upstream>> /\ command' = c /\ queue' = Steps[c]
    BY <1>2 DEF Start
  <2>2. Steps[c] \in Seq(StepName) /\ Len(Steps[c]) > 0 /\ Len(Steps[c]) \in Nat
    BY StepsFacts
  <2>3. QueueInv'
    BY <2>1, <2>2 DEF QueueInv, Rest
  <2>4. /\ c = "all" => Len(Steps[c]) = 7
        /\ c = "vmFresh" => Len(Steps[c]) = 5
        /\ c = "vmBuild" => Len(Steps[c]) = 2
    BY StepsFacts, AllStagesFacts
  <2>5. /\ command' = c /\ Len(queue') = Len(Steps[c])
    BY <2>1
  <2>6. AllInv'
    <3>1. Len(queue') = 7 => ~(Len(queue') <= 5) /\ ~(Len(queue') <= 2)
      OBVIOUS
    <3>2. command' = "all" => ~(Len(queue') <= 5) /\ ~(Len(queue') <= 2)
      BY <2>4, <2>5, <3>1, Zenon
    <3> QED BY <3>2, Zenon DEF AllInv
  <2>7. FreshInv'
    <3>1. Len(queue') = 5 => Len(queue') \notin 2 .. 4 /\ ~(Len(queue') <= 2)
      OBVIOUS
    <3>2. command' = "vmFresh" => Len(queue') \notin 2 .. 4 /\ ~(Len(queue') <= 2)
      BY <2>4, <2>5, <3>1, Zenon
    <3> QED BY <3>2, Zenon DEF FreshInv
  <2>8. BootInv'
    BY <2>2, <2>4, <2>5 DEF BootInv
  <2> QED BY <2>1, <2>3, <2>6, <2>7, <2>8 DEF IInv
<1> QED BY <1>1, <1>2

-----------------------------------------------------------------------------
(***************************************************************************)
(* Theorems.                                                               *)
(***************************************************************************)

\* A step ends and fits, or it fails and makes no image.
LEMMA StepCases ==
    ASSUME IInv, Step \/ Break
    PROVE  \/ StepFits
           \/ \E d \in Disk : ~Idle /\ Fails(d) /\ d.image \in {disk.image, None, Torn, Used}
BY StepEnds, StepFails DEF Step

\* The invariant holds after every sequence of commands, complete or not.
THEOREM InductiveInvariant == Spec => []IInv
<1>1. ASSUME Init PROVE IInv
  <2>1. queue \in Seq(StepName) /\ command = None
    BY <1>1, EmptySeq DEF Init
  <2>2. disk \in Disk
    <3>1. 0 \in Revs /\ None \in Revs
      BY DEF Revs
    <3>2. config.shipped # None => config.shipped \in {"none", "old", "good"}
      BY <1>1, ConfigAssumption DEF Init
    <3> QED BY <1>1, <3>1, <3>2 DEF Init, Disk
  <2>3. upstream \in Nat /\ config \in Configs
    BY <1>1 DEF Init
  <2> QED BY <2>1, <2>2, <2>3, ConfigAssumption DEF IInv, QueueInv, AllInv, FreshInv, BootInv
<1>2. ASSUME IInv, [Next]_vars PROVE IInv'
  <2>1. CASE UNCHANGED vars
    BY <1>2, <2>1 DEF vars, run, IInv, QueueInv, AllInv, FreshInv, BootInv, Here, IsBuilt, FromSysroot, Native
  <2>2. CASE Step \/ Break
    BY <1>2, <2>2, StepCases, EndKeepsInv, FailKeepsInv DEF StepFits
  <2>3. CASE Publish \/ \E c \in DOMAIN Steps : Start(c)
    BY <1>2, <2>3, BetweenKeepsInv
  <2> QED BY <1>2, <2>1, <2>2, <2>3 DEF Next
<1> QED BY <1>1, <1>2, PTL DEF Spec

\* The image that a successful `baker all` leaves is of the present checkout
\* (stage_runner.py:115-136, baker.py:290).
THEOREM AllMakesCurrent == Spec => AllIsCurrent
<1> DEFINE Current ==
       command = "all" /\ queue' = <<>> /\ ~failed' /\ FromSysroot =>
          LET image == disk'.image
              libc == SysrootOf(disk).libc
          IN  /\ image \notin {None, Torn, Used}
              /\ Native \/ "kernel" \notin skipped => image.kernel = disk'.checkout
              /\ "build" \notin skipped => image.comps = disk'.checkout
              /\ Native => /\ image.libc = IF libc = None THEN disk'.lib ELSE libc
                           /\ image.link = SysrootOf(disk').link
<1>1. ASSUME IInv, Next PROVE Current
  <2> SUFFICES ASSUME command = "all", queue' = <<>>, ~failed', FromSysroot PROVE Current
    OBVIOUS
  <2>1. ~Idle
    <3>1. Len(queue) > 0 /\ queue \in Seq(StepName)
      BY <1>1, StepsFacts DEF IInv, QueueInv
    <3>2. Len(<<>>) = 0
      BY EmptySeq
    <3> QED BY <3>1, <3>2 DEF Idle
  <2>2. ~Publish /\ ~\E c \in DOMAIN Steps : Start(c)
    BY <2>1 DEF Publish, Start, run, Idle
  <2>3. ~\E d \in Disk : Fails(d)
    BY DEF Fails
  <2>4. ~Break /\ ~CrossFails /\ ~BuildFails /\ ~ImageFails /\ ~BootFails
    BY <1>1, <2>3, StepFails
  <2>5. PICK d, missing : Moves(d, missing)
    BY <1>1, <2>2, <2>4, StepEnds DEF Next, Step, StepFits
  <2>6. Len(queue) = 1
    BY <1>1, <2>1, <2>5, EndsFacts DEF IInv
  <2>7. Head(queue) = "image"
    BY <1>1, <2>1, <2>6, PlaceFacts DEF IInv
  <2>8. Image
    BY <1>1, <2>2, <2>4, <2>7 DEF Next, Step, Prepare, Unprepared, Kernel, KernelNotFound, Cross, Musl,
       Build, BuildNotFound, Package, Boot, RemoveBuild, RemoveSysroot, RemoveOutput, At
  <2>9. disk' \in Imaged(disk) /\ disk \in Disk /\ config \in Configs
    BY <1>1, <2>8 DEF Image, Ends, Moves, IInv
  <2>10. IsBuilt /\ (Here.boot = disk.checkout \/ "kernel" \in skipped)
    BY <1>1, <2>6 DEF IInv, AllInv, IsBuilt
  <2>11. disk'.checkout = disk.checkout /\ disk'.lib = disk.lib
    BY <2>9, ImagedFacts
  <2>12. /\ disk'.image \in Contents /\ disk'.image.comps = Here.comps
         /\ Native =>
               /\ disk'.image.kernel = disk.checkout
               /\ disk'.image.libc = IF Here.libc = None THEN disk.lib ELSE Here.libc
               /\ disk'.image.link = SysrootOf(disk').link
         /\ ~Native => disk'.image.kernel = Here.boot
    BY <2>9, <2>10, ImagedFacts DEF Here, IsBuilt
  <2>13. disk'.image \notin {None, Torn, Used}
    BY <2>12, ConfigAssumption
  <2> QED BY <2>10, <2>11, <2>12, <2>13 DEF Here, IsBuilt
<1>2. IInv /\ [Next]_vars => [Current]_vars
  BY <1>1
<1>3. Spec => [][Current]_vars
  BY <1>2, InductiveInvariant, PTL DEF Spec
<1> QED BY <1>3 DEF AllIsCurrent

\* After a build that failed no image is made of what it left
\* (stage_runner.py:115-136, vm.py:93-113).
THEOREM FailedBuildsMakeNoImage == Spec => NoImageOfFailedBuild
<1> DEFINE ImageIsBuilt ==
       /\ command \in {"all", "vmFresh"} /\ FromSysroot
       /\ disk'.image \notin {disk.image, None, Torn, Used}
       => disk'.image.comps = disk.checkout \/ "build" \in skipped
<1>1. ASSUME IInv, Next PROVE ImageIsBuilt
  <2> SUFFICES ASSUME command \in {"all", "vmFresh"}, FromSysroot,
                      disk'.image \notin {disk.image, None, Torn, Used}
               PROVE  disk'.image.comps = disk.checkout \/ "build" \in skipped
    OBVIOUS
  <2>1. ~Publish /\ ~\E c \in DOMAIN Steps : Start(c)
    BY DEF Publish, Start
  <2>2. PICK d \in Disk, missing \in SUBSET StepName :
              \/ ~Idle /\ Fits(d, missing) /\ Moves(d, missing)
              \/ Fails(d) /\ d.image \in {disk.image, None, Torn, Used}
    BY <1>1, <2>1, StepCases DEF Next, StepFits
  <2>3. ~Idle /\ Fits(d, missing) /\ Moves(d, missing) /\ disk' = d
    BY <2>2 DEF Fails, Moves
  <2>4. Head(queue) = "image"
    BY <2>3 DEF Fits
  <2>5. Len(queue) \in 1 .. 2 /\ (command = "all" => Len(queue) = 1)
    BY <1>1, <2>3, <2>4, PlaceFacts DEF IInv
  <2>6. IsBuilt
    <3>1. AllInv /\ FreshInv
      BY <1>1 DEF IInv
    <3>2. Len(queue) <= 2
      <4>1. \A n \in 1 .. 2 : n <= 2
        OBVIOUS
      <4> QED BY <2>5, <4>1, Zenon
    <3> QED BY <3>1, <3>2, Zenon DEF AllInv, FreshInv
  <2> QED BY <2>3, <2>4, <2>6 DEF Fits, IsBuilt
<1>2. IInv /\ [Next]_vars => [ImageIsBuilt]_vars
  BY <1>1
<1>3. Spec => [][ImageIsBuilt]_vars
  BY <1>2, InductiveInvariant, PTL DEF Spec
<1> QED BY <1>3 DEF NoImageOfFailedBuild

\* `baker vm --build` and `--fresh` boot what they have made (vm.py:48-113).
THEOREM BootsWhatWasRebuilt == Spec => BootedWasRebuilt
<1> DEFINE Rebuilt ==
       Boot /\ FromSysroot /\ command \in {"vmBuild", "vmFresh"} =>
          /\ disk.image \notin {Torn, Used}
          /\ disk.image.comps = SysrootOf(disk).comps
          /\ command = "vmFresh" => disk.image.comps = disk.checkout \/ "build" \in skipped
          /\ Native => /\ disk.image.kernel = disk.checkout
                       /\ command = "vmFresh" => disk.image.libc = disk.lib
<1>1. ASSUME IInv PROVE Rebuilt
  <2> SUFFICES ASSUME Boot, FromSysroot, command \in {"vmBuild", "vmFresh"} PROVE Rebuilt
    OBVIOUS
  <2>1. Len(queue) = 1
    BY <1>1, PlaceFacts DEF IInv, Boot, At
  <2>2. BootInv /\ (command = "vmFresh" => IsBuilt)
    BY <1>1, <2>1 DEF IInv, FreshInv
  <2>3. disk.image \notin {Torn, Used}
    BY <2>1, <2>2, ConfigAssumption DEF BootInv
  <2> QED BY <2>1, <2>2, <2>3 DEF BootInv, IsBuilt, Here
<1>2. IInv /\ [Next]_vars => [Rebuilt]_vars
  BY <1>1
<1>3. Spec => [][Rebuilt]_vars
  BY <1>2, InductiveInvariant, PTL DEF Spec
<1> QED BY <1>3 DEF BootedWasRebuilt
=============================================================================
