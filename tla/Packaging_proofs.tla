-------------------------- MODULE Packaging_proofs --------------------------
(***************************************************************************)
(* Proofs that packages made after a finished install are complete, and    *)
(* those of recipes that clear first are exact, for every set of           *)
(* components, files and versions and any number of runs cut short.        *)
(***************************************************************************)
EXTENDS Packaging, FiniteSetTheorems, TLAPS

\* What the variables of a run stand for while it lasts.
PhaseInv ==
    /\ pc = "fetching" => who \in Port
    /\ pc \in {"building", "installing"} /\ who \in Port => Source(who) # "absent"
    /\ pc = "installing" => todo \subseteq FilesOf[version[who]]
    /\ pc = "packaging" => todo \subseteq Component
    /\ pc = "copying" => todo \subseteq packages

\* In the middle of an install, the files that are not still to be written are
\* of the version installed, unless they are missing from a partial source, and
\* a staging directory that was emptied has no others.
InstallingInv ==
    pc = "installing" =>
        /\ (who \in Port => Source(who) = "whole") =>
              \A f \in FilesOf[version[who]] \ todo : staged[who][f] = version[who]
        /\ who \in Cleared =>
              \A f \in File \ FilesOf[version[who]] : staged[who][f] = None
        /\ installed[who] = None

\* A finished install left all files of its version, if its source is whole,
\* which it was then, as no source is extracted again.
InstalledInv ==
    \A c \in Staged : installed[c] # None =>
        /\ (c \in Port => source[c][installed[c]] = "whole") => HasAllOf(staged[c], installed[c])
        /\ c \in Port => source[c][installed[c]] # "absent"

\* The recipes whose package() does not pick any file that matches.
Certain(c) == Picks[c] # "any" \/ c \in Cleared

\* What package() returned is the package just made, and stays so until it is
\* in core/.
CopyInv ==
    /\ pc \notin {"packaging", "copying"} => packages = {}
    /\ pc = "packaging" => Packaged \cap todo = {}
    /\ \A c \in Packaged : Certain(c) =>
          /\ <<c, version[c]>> \in packages
          /\ artifacts[c][version[c]] = Content(c)
          /\ pc = "copying" => <<c, version[c]>> \in todo \/ core[c][version[c]] = Content(c)

IInv == TypeOK /\ PhaseInv /\ InstallingInv /\ InstalledInv /\ ClearedAreExact /\ CopyInv

-----------------------------------------------------------------------------

\* Updating an entry of a table, or of a table of tables, keeps its type.
LEMMA UpdateKeepsType ==
    ASSUME NEW S, NEW T, NEW f \in [S -> T], NEW x, NEW y \in T
    PROVE  [f EXCEPT ![x] = y] \in [S -> T]
OBVIOUS

LEMMA DeepUpdateKeepsType ==
    ASSUME NEW S, NEW T, NEW U, NEW f \in [S -> [T -> U]], NEW x, NEW z, NEW y \in U
    PROVE  [f EXCEPT ![x][z] = y] \in [S -> [T -> U]]
<1>1. CASE x \in S
  <2>1. [f[x] EXCEPT ![z] = y] \in [T -> U]
    BY <1>1
  <2> QED BY <2>1
<1>2. CASE x \notin S
  BY <1>2
<1> QED BY <1>1, <1>2

\* An install writes files of the version, and all of them if the source is
\* whole.
LEMMA InstallableFacts ==
    ASSUME NEW files \in Installable(who)
    PROVE  /\ files \subseteq FilesOf[version[who]]
           /\ (who \in Port => Source(who) = "whole") => files = FilesOf[version[who]]
BY DEF Installable

LEMMA StagedIsComponent == Staged \subseteq Component /\ Port \subseteq Staged
BY ComponentAssumption DEF Staged

LEMMA EmptyIsTree == Empty \in Tree
BY DEF Empty, Tree

LEMMA ContentIsTree == ASSUME TypeOK, NEW c \in Component PROVE Content(c) \in Tree
BY FileAssumption DEF TypeOK, Content, Whole, Tree, Version

LEMMA AfterMakingIsTyped ==
    ASSUME TypeOK, NEW c \in Component
    PROVE  /\ ClearArtifacts(c) \in [Version -> PackageFile]
           /\ AfterMaking(c) \in [Version -> PackageFile]
           /\ AfterMaking(c)[version[c]] = Content(c)
           /\ Found(c) \subseteq Version
<1>1. version[c] \in Version /\ artifacts[c] \in [Version -> PackageFile]
  BY DEF TypeOK
<1>2. ClearArtifacts(c) \in [Version -> PackageFile]
  BY <1>1 DEF ClearArtifacts, PackageFile
<1>3. AfterMaking(c) \in [Version -> PackageFile] /\ AfterMaking(c)[version[c]] = Content(c)
  BY <1>1, <1>2, ContentIsTree DEF AfterMaking, PackageFile
<1>4. Found(c) \subseteq Version
  BY <1>1, ComponentAssumption DEF Found
<1> QED BY <1>2, <1>3, <1>4

-----------------------------------------------------------------------------

LEMMA TypeInit == Init => TypeOK
<1> SUFFICES ASSUME Init PROVE TypeOK
  OBVIOUS
<1>1. 1 \in Version /\ 0 \in 0 .. MaxStops
  BY FileAssumption DEF Version
<1>2. enabled \in Configs /\ who \in Staged /\ version \in [Component -> Version]
  BY <1>1 DEF Init
<1>3. /\ tarball \in [Port -> [Version -> {"absent", "torn", "whole"}]]
      /\ source \in [Port -> [Version -> {"absent", "partial", "whole"}]]
  BY DEF Init
<1>4. staged \in [Staged -> Tree] /\ dirs \in SUBSET Staged
  BY EmptyIsTree DEF Init
<1>5. /\ artifacts \in [Component -> [Version -> PackageFile]]
      /\ core \in [Component -> [Version -> PackageFile]]
  BY DEF Init, PackageFile
<1>6. /\ pc \in {"idle", "fetching", "building", "installing", "packaging", "copying"}
      /\ packages \in SUBSET (Component \X Version)
      /\ todo \in SUBSET File
      /\ installed \in [Staged -> Version \cup {None}]
      /\ stops \in 0 .. MaxStops
  BY <1>1 DEF Init
<1> QED BY <1>2, <1>3, <1>4, <1>5, <1>6 DEF TypeOK

LEMMA TypeNext == TypeOK /\ PhaseInv /\ [Next]_vars => TypeOK'
<1> SUFFICES ASSUME TypeOK, PhaseInv, [Next]_vars PROVE TypeOK'
  OBVIOUS
<1> USE DEF TypeOK
<1>v. Staged \subseteq Component /\ Port \subseteq Staged /\ version[who] \in Version
  BY StagedIsComponent
<1>1. ASSUME NEW c \in Staged, StartBuild(c) PROVE TypeOK'
  BY <1>1 DEF StartBuild, config, disk, history
<1>2. CASE StartPackaging
  BY <1>2, ComponentAssumption DEF StartPackaging, config, disk, history
<1>3. CASE Download
  BY <1>3, <1>v DEF Download, config, history, PhaseInv
<1>4. CASE DownloadFails
  BY <1>4, <1>v DEF DownloadFails, config, history, PhaseInv
<1>5. CASE Extract
  BY <1>5, <1>v DEF Extract, config, history, PhaseInv
<1>6. CASE ExtractFails \/ SkipExtract \/ BuildFails
  BY <1>6 DEF ExtractFails, SkipExtract, BuildFails, config, disk, history
<1>7. CASE Build
  <2>1. todo' \in SUBSET File
    BY <1>7, <1>v, InstallableFacts, FileAssumption DEF Build
  <2> QED BY <1>7, <1>v, <2>1, EmptyIsTree DEF Build, config
<1>8. ASSUME NEW f \in File, InstallFile(f) PROVE TypeOK'
  BY <1>8, <1>v DEF InstallFile, config, history, Tree, PhaseInv
<1>9. CASE EndInstall
  BY <1>9, <1>v DEF EndInstall, config, disk
<1>10. ASSUME NEW c \in Component, Package(c) PROVE TypeOK'
  BY <1>10, AfterMakingIsTyped DEF Package, config, history, PhaseInv
<1>11. ASSUME NEW c \in Component, PackageFails(c) PROVE TypeOK'
  <2>1. artifacts' \in [Component -> [Version -> PackageFile]]
    <3>1. artifacts \in [Component -> [Version -> PackageFile]]
      OBVIOUS
    <3>2. /\ ClearArtifacts(c) \in [Version -> PackageFile]
          /\ AfterMaking(c) \in [Version -> PackageFile]
      BY AfterMakingIsTyped
    <3>3. CASE artifacts' = artifacts
      BY <3>1, <3>3
    <3>4. CASE artifacts' = [artifacts EXCEPT ![c] = ClearArtifacts(c)]
      BY <3>1, <3>2, <3>4
    <3>5. CASE artifacts' = [artifacts EXCEPT ![c] = AfterMaking(c)]
      BY <3>1, <3>2, <3>5
    <3> QED BY <1>11, <3>3, <3>4, <3>5 DEF PackageFails
  <2> QED BY <1>11, <2>1 DEF PackageFails, config, history, PhaseInv
<1>12. CASE StartCopying \/ EndPackaging
  BY <1>12 DEF StartCopying, EndPackaging, config, disk, history
<1>13. ASSUME NEW p \in packages, Copy(p) PROVE TypeOK'
  BY <1>13 DEF Copy, config, history, PhaseInv
<1>14. CASE Stop
  <2>1. /\ UNCHANGED <<enabled, version, who, installed>>
        /\ pc' = "idle" /\ todo' = {} /\ packages' = {} /\ stops' \in 0 .. MaxStops
    BY <1>14, FileAssumption DEF Stop, config
  <2>2. dirs' = dirs
    BY <1>14 DEF Stop, Torn, disk
  <2>3. tarball' \in [Port -> [Version -> {"absent", "torn", "whole"}]]
    <3>1. /\ tarball \in [Port -> [Version -> {"absent", "torn", "whole"}]]
          /\ "torn" \in {"absent", "torn", "whole"}
      OBVIOUS
    <3>2. CASE tarball' = tarball
      BY <3>1, <3>2
    <3>3. CASE tarball' = [tarball EXCEPT ![who][version[who]] = "torn"]
      BY <3>1, <3>3, DeepUpdateKeepsType
    <3> QED BY <1>14, <3>2, <3>3 DEF Stop, Torn, disk
  <2>4. source' \in [Port -> [Version -> {"absent", "partial", "whole"}]]
    <3>1. /\ source \in [Port -> [Version -> {"absent", "partial", "whole"}]]
          /\ "partial" \in {"absent", "partial", "whole"}
      OBVIOUS
    <3>2. CASE source' = source
      BY <3>1, <3>2
    <3>3. CASE source' = [source EXCEPT ![who][version[who]] = "partial"]
      BY <3>1, <3>3, DeepUpdateKeepsType
    <3> QED BY <1>14, <3>2, <3>3 DEF Stop, Torn, disk
  <2>5. staged' \in [Staged -> [File -> Version \cup {None}]]
    <3>1. staged \in [Staged -> [File -> Version \cup {None}]] /\ None \in Version \cup {None}
      BY DEF Tree
    <3>2. CASE staged' = staged
      BY <3>1, <3>2
    <3>3. ASSUME NEW f \in todo, staged' = [staged EXCEPT ![who][f] = None]
          PROVE  staged' \in [Staged -> [File -> Version \cup {None}]]
      BY <3>1, <3>3, DeepUpdateKeepsType
    <3> QED BY <1>14, <3>2, <3>3 DEF Stop, Torn, disk
  <2>6. artifacts' \in [Component -> [Version -> PackageFile]]
    <3>1. artifacts \in [Component -> [Version -> PackageFile]] /\ Empty \in PackageFile
      BY EmptyIsTree DEF PackageFile
    <3>2. CASE artifacts' = artifacts
      BY <3>1, <3>2
    <3>3. ASSUME NEW c \in todo, artifacts' = [artifacts EXCEPT ![c][version[c]] = Empty]
          PROVE  artifacts' \in [Component -> [Version -> PackageFile]]
      BY <3>1, <3>3, DeepUpdateKeepsType
    <3> QED BY <1>14, <3>2, <3>3 DEF Stop, Torn, disk
  <2>7. core' \in [Component -> [Version -> PackageFile]]
    <3>1. core \in [Component -> [Version -> PackageFile]] /\ Empty \in PackageFile
      BY EmptyIsTree DEF PackageFile
    <3>2. CASE core' = core
      BY <3>1, <3>2
    <3>3. ASSUME NEW p \in todo, core' = [core EXCEPT ![p[1]][p[2]] = Empty]
          PROVE  core' \in [Component -> [Version -> PackageFile]]
      BY <3>1, <3>3, DeepUpdateKeepsType
    <3> QED BY <1>14, <3>2, <3>3 DEF Stop, Torn, disk
  <2> QED BY <2>1, <2>2, <2>3, <2>4, <2>5, <2>6, <2>7 DEF Tree
<1>15. CASE Clean
  BY <1>15, EmptyIsTree DEF Clean, config, PackageFile
<1>16. ASSUME NEW c \in Component, Bump(c) PROVE TypeOK'
  BY <1>16, FileAssumption DEF Bump, disk, history, Version
<1>17. CASE UNCHANGED vars
  BY <1>17 DEF vars, config, disk, history
<1> QED BY <1>1, <1>2, <1>3, <1>4, <1>5, <1>6, <1>7, <1>8, <1>9, <1>10, <1>11, <1>12,
           <1>13, <1>14, <1>15, <1>16, <1>17 DEF Next, BuildStep, PackageStep
-----------------------------------------------------------------------------

\* Every step but cleaning.
Kept ==
    \/ \E c \in Staged : StartBuild(c)
    \/ StartPackaging \/ BuildStep \/ PackageStep \/ Stop
    \/ \E c \in Component : Bump(c)
    \/ UNCHANGED vars

\* A source that is there is not extracted again: it stays as it is until
\* somebody cleans (_port_recipe.py:85-87).
LEMMA SourceStays ==
    ASSUME TypeOK, Kept, NEW c \in Port, NEW v \in Version, source[c][v] # "absent"
    PROVE  source'[c][v] = source[c][v]
<1>1. CASE source' = source
  BY <1>1
<1>2. ASSUME NEW how, Source(who) = "absent",
             source' = [source EXCEPT ![who][version[who]] = how]
      PROVE  source'[c][v] = source[c][v]
  <2>1. CASE c = who /\ v = version[who]
    BY <1>2, <2>1 DEF Source
  <2>2. CASE c # who \/ v # version[who]
    BY <1>2, <2>2 DEF TypeOK
  <2> QED BY <2>1, <2>2
<1> QED BY <1>1, <1>2
        DEF Kept, BuildStep, PackageStep, StartBuild, StartPackaging, Download, DownloadFails, Extract,
            ExtractFails, SkipExtract, Build, BuildFails, InstallFile, EndInstall, Package, PackageFails,
            StartCopying, Copy, EndPackaging, Stop, Torn, Bump, vars, disk

LEMMA PhaseNext == TypeOK /\ PhaseInv /\ [Next]_vars => PhaseInv'
<1> SUFFICES ASSUME TypeOK, PhaseInv, [Next]_vars PROVE PhaseInv'
  OBVIOUS
<1> USE DEF PhaseInv
<1>1. ASSUME NEW c \in Staged, StartBuild(c) PROVE PhaseInv'
  BY <1>1 DEF StartBuild
<1>2. CASE StartPackaging
  BY <1>2, ComponentAssumption DEF StartPackaging, TypeOK
<1>v. version[who] \in Version /\ who \in Staged
  BY StagedIsComponent DEF TypeOK
<1>a. CASE Extract
  <2>1. /\ pc' = "building" /\ UNCHANGED <<who, version>>
        /\ source' = [source EXCEPT ![who][version[who]] = "whole"] /\ who \in Port
    BY <1>a DEF Extract, config
  <2>2. source'[who][version[who]] = "whole"
    BY <2>1, <1>v DEF TypeOK
  <2> QED BY <2>1, <2>2 DEF Source
<1>b. CASE SkipExtract
  BY <1>b DEF SkipExtract, config, disk, Source
<1>3. CASE Download
  BY <1>3 DEF Download, config
<1>4. CASE DownloadFails \/ ExtractFails \/ BuildFails \/ EndInstall
  BY <1>4 DEF DownloadFails, ExtractFails, BuildFails, EndInstall
<1>5. CASE Build
  <2>1. pc' = "installing" /\ UNCHANGED <<who, version, source>> /\ pc = "building"
    BY <1>5 DEF Build, config
  <2>2. todo' \subseteq FilesOf[version[who]]
    BY <1>5, InstallableFacts DEF Build
  <2> QED BY <2>1, <2>2 DEF Source
<1>6. ASSUME NEW f \in File, InstallFile(f) PROVE PhaseInv'
  BY <1>6 DEF InstallFile, config, Source
<1>7. CASE PackageStep
  BY <1>7 DEF PackageStep, Package, PackageFails, StartCopying, Copy, EndPackaging
<1>8. CASE Stop \/ Clean \/ \E c \in Component : Bump(c)
  BY <1>8 DEF Stop, Clean, Bump
<1>9. CASE UNCHANGED vars
  BY <1>9 DEF vars, config, disk, Source
<1> QED BY <1>1, <1>2, <1>3, <1>4, <1>5, <1>6, <1>7, <1>8, <1>9, <1>a, <1>b DEF Next, BuildStep

-----------------------------------------------------------------------------

StagingInv == InstallingInv /\ InstalledInv /\ ClearedAreExact

\* Steps that touch neither a staging directory nor the record of its install,
\* and do not begin or continue an install, leave StagingInv as it is.
LEMMA StagingKept ==
    ASSUME TypeOK, Kept, StagingInv, pc' # "installing", UNCHANGED <<staged, installed>>
    PROVE  StagingInv'
<1>1. ASSUME NEW c \in Port, installed[c] # None
      PROVE  source'[c][installed[c]] = source[c][installed[c]]
  <2>1. c \in Staged /\ installed[c] \in Version
    BY <1>1, StagedIsComponent DEF TypeOK
  <2>2. source[c][installed[c]] # "absent"
    BY <1>1, <2>1 DEF StagingInv, InstalledInv
  <2> QED BY <2>1, <2>2, SourceStays
<1>2. InstalledInv'
  BY <1>1 DEF StagingInv, InstalledInv, HasAllOf
<1> QED BY <1>2 DEF StagingInv, InstallingInv, ClearedAreExact, Whole

LEMMA StagingNext == TypeOK /\ TypeOK' /\ PhaseInv /\ StagingInv /\ [Next]_vars => StagingInv'
<1> SUFFICES ASSUME TypeOK, TypeOK', PhaseInv, StagingInv, [Next]_vars PROVE StagingInv'
  OBVIOUS
<1>v. /\ version[who] \in Version /\ version[who] # None
      /\ FilesOf[version[who]] \subseteq File
      /\ Cleared \subseteq Staged /\ who \in Staged
  BY FileAssumption, StagedIsComponent DEF TypeOK, Staged
<1>1. CASE Build
  <2>1. /\ pc' = "installing"
        /\ (who \in Port => Source(who) = "whole") => todo' = FilesOf[version[who]]
        /\ installed' = [installed EXCEPT ![who] = None]
        /\ staged' = IF who \in Cleared THEN [staged EXCEPT ![who] = Empty] ELSE staged
        /\ UNCHANGED <<version, who, source>>
    BY <1>1, InstallableFacts DEF Build, config
  <2>2. \A c \in Staged : c # who => staged'[c] = staged[c] /\ installed'[c] = installed[c]
    BY <2>1 DEF TypeOK
  <2>3. installed'[who] = None
    BY <2>1, <1>v DEF TypeOK
  <2>4. who \in Cleared => \A f \in File : staged'[who][f] = None
    BY <2>1, <1>v DEF TypeOK, Empty
  <2>5. InstallingInv'
    BY <2>1, <2>3, <2>4 DEF InstallingInv, Source
  <2>6. InstalledInv'
    BY <2>1, <2>2, <2>3 DEF StagingInv, InstalledInv, HasAllOf
  <2>7. ClearedAreExact'
    BY <2>2, <2>3, <1>v DEF StagingInv, ClearedAreExact, Whole
  <2> QED BY <2>5, <2>6, <2>7 DEF StagingInv
<1>2. ASSUME NEW g \in File, InstallFile(g) PROVE StagingInv'
  <2>1. /\ pc = "installing" /\ g \in todo /\ todo' = todo \ {g}
        /\ staged' = [staged EXCEPT ![who][g] = version[who]]
        /\ UNCHANGED <<version, who, pc, installed, source>>
    BY <1>2 DEF InstallFile, config, history
  <2>2. \A c \in Staged : c # who => staged'[c] = staged[c]
    BY <2>1 DEF TypeOK
  <2>3. /\ staged'[who][g] = version[who]
        /\ \A f \in File : f # g => staged'[who][f] = staged[who][f]
    BY <2>1, <1>v DEF TypeOK, Tree
  <2>4. g \in FilesOf[version[who]]
    BY <2>1 DEF PhaseInv
  <2>5. InstallingInv
    BY DEF StagingInv
  <2>6. InstallingInv'
    BY <2>1, <2>3, <2>4, <2>5, <1>v DEF InstallingInv, Source
  <2>7. installed'[who] = None
    BY <2>1, <2>5 DEF InstallingInv
  <2>8. InstalledInv'
    BY <2>1, <2>2, <2>7 DEF StagingInv, InstalledInv, HasAllOf
  <2>9. ClearedAreExact'
    BY <2>1, <2>2, <2>7, <1>v DEF StagingInv, ClearedAreExact, Whole
  <2> QED BY <2>6, <2>8, <2>9 DEF StagingInv
<1>3. CASE EndInstall
  <2>1. /\ pc = "installing" /\ todo = {} /\ pc' = "idle"
        /\ installed' = [installed EXCEPT ![who] = version[who]]
        /\ UNCHANGED <<version, who, staged, source>>
    BY <1>3 DEF EndInstall, config, disk
  <2>2. /\ \A c \in Staged : c # who => installed'[c] = installed[c]
        /\ installed'[who] = version[who]
    BY <2>1, <1>v DEF TypeOK
  <2>3. /\ (who \in Port => Source(who) = "whole") => HasAllOf(staged[who], version[who])
        /\ who \in Port => Source(who) # "absent"
        /\ who \in Cleared => who \notin Port
    BY <2>1, ComponentAssumption DEF StagingInv, InstallingInv, HasAllOf, PhaseInv
  <2>4. ASSUME who \in Cleared PROVE staged[who] = Whole(version[who])
    <3>1. \A f \in File : staged[who][f] = Whole(version[who])[f]
      BY <2>1, <2>3, <2>4 DEF StagingInv, InstallingInv, HasAllOf, Whole
    <3>2. staged[who] \in [File -> Version \cup {None}]
      BY <1>v DEF TypeOK, Tree
    <3> QED BY <3>1, <3>2 DEF Whole
  <2>5. InstallingInv'
    BY <2>1 DEF InstallingInv
  <2>6. InstalledInv'
    BY <2>1, <2>2, <2>3 DEF StagingInv, InstalledInv, HasAllOf, Source
  <2>7. ClearedAreExact'
    BY <2>1, <2>2, <2>4, <1>v DEF StagingInv, ClearedAreExact, Whole
  <2> QED BY <2>5, <2>6, <2>7 DEF StagingInv
<1>4. CASE Stop
  <2>1. pc' = "idle" /\ UNCHANGED <<version, who, installed>>
    BY <1>4 DEF Stop, config
  <2>2. CASE staged' = staged
    BY <1>4, <2>1, <2>2, StagingKept DEF Kept
  <2>3. ASSUME pc = "installing", source' = source,
               NEW f \in todo, staged' = [staged EXCEPT ![who][f] = None]
        PROVE  StagingInv'
    <3>1. \A c \in Staged : c # who => staged'[c] = staged[c]
      BY <2>3 DEF TypeOK
    <3>2. installed'[who] = None
      BY <2>1, <2>3 DEF StagingInv, InstallingInv
    <3>3. InstallingInv'
      BY <2>1 DEF InstallingInv
    <3>4. InstalledInv'
      BY <2>1, <2>3, <3>1, <3>2 DEF StagingInv, InstalledInv, HasAllOf
    <3>5. ClearedAreExact'
      BY <2>1, <3>1, <3>2, <1>v DEF StagingInv, ClearedAreExact, Whole
    <3> QED BY <3>3, <3>4, <3>5 DEF StagingInv
  <2> QED BY <1>4, <2>2, <2>3 DEF Stop, Torn, disk
<1>5. CASE Clean
  <2>1. pc' = "idle" /\ \A c \in Staged : installed'[c] = None
    BY <1>5 DEF Clean
  <2> QED BY <2>1, <1>v DEF StagingInv, InstallingInv, InstalledInv, ClearedAreExact
<1>6. CASE (\E c \in Staged : StartBuild(c)) \/ StartPackaging \/ \E c \in Component : Bump(c)
  <2>1. pc' # "installing" /\ UNCHANGED <<staged, installed>>
    BY <1>6 DEF StartBuild, StartPackaging, Bump, disk, history
  <2> QED BY <1>6, <2>1, StagingKept DEF Kept
<1>7. CASE \/ Download \/ DownloadFails \/ Extract \/ ExtractFails \/ SkipExtract
           \/ BuildFails
  <2>1. pc' # "installing" /\ UNCHANGED <<staged, installed>>
    BY <1>7 DEF Download, DownloadFails, Extract, ExtractFails, SkipExtract, BuildFails,
                disk, history
  <2> QED BY <1>7, <2>1, StagingKept DEF Kept, BuildStep
<1>8. CASE PackageStep
  <2>1. pc' # "installing" /\ UNCHANGED <<staged, installed>>
    BY <1>8 DEF PackageStep, Package, PackageFails, StartCopying, Copy, EndPackaging,
                disk, history
  <2> QED BY <1>8, <2>1, StagingKept DEF Kept
<1>9. CASE UNCHANGED vars
  BY <1>9 DEF vars, config, disk, history, StagingInv, InstallingInv, InstalledInv,
              ClearedAreExact, HasAllOf, Whole, Source
<1> QED BY <1>1, <1>2, <1>3, <1>4, <1>5, <1>6, <1>7, <1>8, <1>9 DEF Next, BuildStep

-----------------------------------------------------------------------------

\* package() returns the file just made, if it does not pick any that matches:
\* files of other versions are gone, older, or make it refuse.
LEMMA FoundIsMade ==
    ASSUME TypeOK, NEW c \in Component, Certain(c), NEW v \in Found(c)
    PROVE  v = version[c]
<1> DEFINE made == AfterMaking(c)
           there == {w \in Version : made[w] # None}
<1>1. version[c] \in Version /\ Content(c) # None
  BY ContentIsTree, FileAssumption DEF TypeOK, Tree
<1>2. version[c] \in there
  BY <1>1, AfterMakingIsTyped
<1>3. \A w \in Version : w # version[c] => made[w] = ClearArtifacts(c)[w]
  BY AfterMakingIsTyped DEF AfterMaking
<1>4. \A w \in Version : c \in Cleared \/ (Picks[c] = "own" /\ w = Pinned[c]) => ClearArtifacts(c)[w] = None
  BY DEF ClearArtifacts
<1>5. IsFiniteSet(there)
  <2>1. IsFiniteSet(Version)
    BY FileAssumption, FS_Interval DEF Version
  <2> QED BY <2>1, FS_Subset
<1>6. Found(c) = CASE Picks[c] = "newest" -> {version[c]}
                   [] Picks[c] = "own" /\ Pinned[c] \in there -> {Pinned[c]}
                   [] Picks[c] = "own" /\ Pinned[c] \notin there /\ Cardinality(there) > 1 -> {}
                   [] OTHER -> there
  BY DEF Found
<1>7. \A w \in there : c \in Cleared \/ (Picks[c] = "own" /\ w = Pinned[c]) => w = version[c]
  BY <1>3, <1>4
<1>8. ASSUME Cardinality(there) <= 1, NEW w \in there PROVE w = version[c]
  <2> HIDE DEF there
  <2> DEFINE T == {version[c]}
  <2>1. T \in SUBSET there /\ Cardinality(T) = 1
    BY <1>2, FS_Singleton
  <2> HIDE DEF T
  <2>2. Cardinality(T) <= Cardinality(there) /\ (Cardinality(there) = Cardinality(T) => there = T)
    BY <1>5, <2>1, FS_Subset
  <2>3. there = T
    BY <1>5, <1>8, <2>1, <2>2, FS_CardinalityType
  <2> QED BY <1>8, <2>3 DEF T
<1>9. Cardinality(there) \in Nat
  BY <1>5, FS_CardinalityType
<1> HIDE DEF there, made
<1>10. CASE Picks[c] = "newest"
  BY <1>6, <1>10
<1>11. CASE Picks[c] = "own"
  BY <1>6, <1>7, <1>8, <1>9, <1>11
<1>12. CASE c \in Cleared /\ Picks[c] = "any"
  BY <1>6, <1>7, <1>12
<1> QED BY <1>10, <1>11, <1>12, ComponentAssumption DEF Certain

LEMMA CopyNext == TypeOK /\ PhaseInv /\ CopyInv /\ [Next]_vars => CopyInv'
<1> SUFFICES ASSUME TypeOK, PhaseInv, CopyInv, [Next]_vars PROVE CopyInv'
  OBVIOUS
<1>1. ASSUME pc' \notin {"packaging", "copying"}, packages' = {} PROVE CopyInv'
  BY <1>1 DEF CopyInv, Packaged
<1>2. CASE StartPackaging
  BY <1>2 DEF StartPackaging, CopyInv, Packaged
<1>3. ASSUME NEW d \in Component, Package(d) PROVE CopyInv'
  <2>1. /\ pc = "packaging" /\ pc' = "packaging" /\ d \in todo /\ todo' = todo \ {d}
        /\ artifacts' = [artifacts EXCEPT ![d] = AfterMaking(d)]
        /\ UNCHANGED <<version, staged>>
    BY <1>3 DEF Package, config
  <2>2. PICK v \in Found(d) : packages' = packages \cup {<<d, v>>}
    BY <1>3 DEF Package
  <2>3. Packaged' = Packaged \cup {d} /\ d \notin Packaged /\ Packaged \subseteq Component
    <3>1. <<d, v>>[1] = d
      OBVIOUS
    <3>2. Packaged' = Packaged \cup {d}
      BY <2>2, <3>1 DEF Packaged
    <3>3. d \notin Packaged
      BY <2>1 DEF CopyInv
    <3>4. Packaged \subseteq Component
      BY DEF Packaged, TypeOK
    <3> QED BY <3>2, <3>3, <3>4
  <2>4. ASSUME NEW c \in Packaged', Certain(c)
        PROVE  <<c, version[c]>> \in packages' /\ artifacts'[c][version[c]] = Content(c)
    <3>1. CASE c = d
      <4>1. v = version[d]
        BY <2>4, <3>1, FoundIsMade
      <4>2. artifacts'[d] = AfterMaking(d)
        BY <2>1 DEF TypeOK
      <4> QED BY <2>2, <3>1, <4>1, <4>2, AfterMakingIsTyped
    <3>2. CASE c # d
      <4>1. c \in Packaged /\ artifacts'[c] = artifacts[c]
        BY <2>1, <2>3, <2>4, <3>2 DEF TypeOK
      <4> QED BY <2>2, <2>4, <4>1 DEF CopyInv
    <3> QED BY <3>1, <3>2
  <2>5. Packaged' \cap todo' = {}
    BY <2>1, <2>3 DEF CopyInv
  <2>6. \A c : Content(c)' = Content(c)
    BY <2>1 DEF Content, Whole
  <2> QED BY <2>1, <2>4, <2>5, <2>6 DEF CopyInv, Certain
<1>4. ASSUME NEW d \in Component, PackageFails(d) PROVE CopyInv'
  <2>1. /\ pc = "packaging" /\ pc' = "packaging" /\ d \in todo /\ todo' = todo \ {d}
        /\ UNCHANGED <<version, staged, packages>>
    BY <1>4 DEF PackageFails, config
  <2>2. \A c \in Component : c # d => artifacts'[c] = artifacts[c]
    BY <1>4 DEF PackageFails, TypeOK
  <2>3. Packaged' = Packaged /\ d \notin Packaged /\ Packaged \subseteq Component
    BY <2>1 DEF Packaged, CopyInv, TypeOK
  <2>4. \A c : Content(c)' = Content(c)
    BY <2>1 DEF Content, Whole
  <2> QED BY <2>1, <2>2, <2>3, <2>4 DEF CopyInv, Certain
<1>5. CASE StartCopying
  <2>1. /\ pc' = "copying" /\ todo' = packages
        /\ UNCHANGED <<version, staged, packages, artifacts, core>>
    BY <1>5 DEF StartCopying, config, disk
  <2>2. \A c : Content(c)' = Content(c)
    BY <2>1 DEF Content, Whole
  <2> QED BY <2>1, <2>2 DEF CopyInv, Certain, Packaged
<1>6. ASSUME NEW p \in packages, Copy(p) PROVE CopyInv'
  <2>1. /\ pc = "copying" /\ pc' = "copying" /\ p \in todo /\ todo' = todo \ {p}
        /\ core' = [core EXCEPT ![p[1]][p[2]] = artifacts[p[1]][p[2]]]
        /\ UNCHANGED <<version, staged, packages, artifacts>>
    BY <1>6 DEF Copy, config
  <2>2. PICK d \in Component, w \in Version : p = <<d, w>>
    BY DEF TypeOK
  <2>3. core'[d][w] = artifacts[d][w]
    BY <2>1, <2>2 DEF TypeOK
  <2>4. \A c \in Component, v \in Version : <<c, v>> # p => core'[c][v] = core[c][v]
    BY <2>1, <2>2 DEF TypeOK
  <2>5. Packaged' = Packaged
    BY <2>1 DEF Packaged
  <2>6. ASSUME NEW c \in Packaged, Certain(c)
        PROVE  <<c, version[c]>> \in todo' \/ core'[c][version[c]] = Content(c)
    <3>1. c \in Component /\ version[c] \in Version
      BY DEF Packaged, TypeOK
    <3>2. <<c, version[c]>> \in todo \/ core[c][version[c]] = Content(c)
      BY <2>1, <2>6 DEF CopyInv
    <3>3. artifacts[c][version[c]] = Content(c)
      BY <2>6 DEF CopyInv
    <3>4. CASE <<c, version[c]>> = p
      BY <2>2, <2>3, <3>3, <3>4
    <3>5. CASE <<c, version[c]>> # p
      BY <2>1, <2>4, <3>1, <3>2, <3>5
    <3> QED BY <3>4, <3>5
  <2>7. \A c : Content(c)' = Content(c)
    BY <2>1 DEF Content, Whole
  <2> QED BY <2>1, <2>5, <2>6, <2>7 DEF CopyInv, Certain
<1>7. CASE EndPackaging \/ Stop
  BY <1>1, <1>7 DEF EndPackaging, Stop
<1>8. CASE (\E c \in Staged : StartBuild(c)) \/ BuildStep \/ Clean \/ \E c \in Component : Bump(c)
  <2>1. pc \notin {"packaging", "copying"} /\ pc' \notin {"packaging", "copying"} /\ packages' = packages
    BY <1>8 DEF StartBuild, BuildStep, Download, DownloadFails, Extract, ExtractFails,
                SkipExtract, Build, BuildFails, InstallFile, EndInstall, Clean, Bump
  <2> QED BY <1>1, <2>1 DEF CopyInv
<1>9. CASE UNCHANGED vars
  <2>1. UNCHANGED <<pc, todo, packages, version, staged, artifacts, core>>
    BY <1>9 DEF vars, config, disk
  <2>2. \A c : Content(c)' = Content(c)
    BY <2>1 DEF Content, Whole
  <2> QED BY <2>1, <2>2 DEF CopyInv, Certain, Packaged
<1> QED BY <1>2, <1>3, <1>4, <1>5, <1>6, <1>7, <1>8, <1>9 DEF Next, PackageStep

-----------------------------------------------------------------------------

\* The type invariant, the phases of a run, what a staging directory holds and
\* what is known of a package on its way to core/ hold in every reachable state.
THEOREM InductiveInvariant == Spec => []IInv
<1>1. Init => IInv
  BY TypeInit DEF Init, IInv, PhaseInv, InstallingInv, InstalledInv, ClearedAreExact, Staged,
                  CopyInv, Packaged
<1>2. IInv /\ [Next]_vars => IInv'
  BY TypeNext, PhaseNext, StagingNext, CopyNext DEF IInv, StagingInv
<1> QED BY <1>1, <1>2, PTL DEF Spec

\* What is on disk, in core/ and in the variables of a run has its type.
THEOREM TypeCorrect == Spec => []TypeOK
<1>1. IInv => TypeOK
  BY DEF IInv
<1> QED BY <1>1, InductiveInvariant, PTL

\* A staging directory that install() empties first has, after an install that
\* finished, the files of that version and no other, whatever was interrupted
\* before.
THEOREM ClearedStayExact == Spec => []ClearedAreExact
<1>1. IInv => ClearedAreExact
  BY DEF IInv
<1> QED BY <1>1, InductiveInvariant, PTL

\* A package made after an install of the current version that finished has
\* every file of that version, unless its source was extracted in part only
\* (_port_recipe.py:85).
THEOREM CompletePackages == Spec => PackagesAreComplete
<1>1. ASSUME IInv,
             NEW c \in Component, Package(c), c \in Staged => installed[c] = version[c],
             c \in Port => Source(c) = "whole"
      PROVE  HasAllOf(artifacts'[c][version[c]], version[c])
  <2>1. /\ version[c] \in Version /\ version[c] # None
        /\ FilesOf[version[c]] \subseteq File
    BY <1>1, FileAssumption DEF IInv, TypeOK
  <2>2. artifacts'[c][version[c]] = Content(c)
    <3>1. artifacts' = [artifacts EXCEPT ![c] = AfterMaking(c)]
      BY <1>1 DEF Package
    <3>2. AfterMaking(c)[version[c]] = Content(c)
      BY <1>1, AfterMakingIsTyped DEF IInv
    <3> QED BY <3>1, <3>2, <1>1 DEF IInv, TypeOK
  <2>3. CASE c \in Staged
    BY <1>1, <2>1, <2>2, <2>3 DEF IInv, InstalledInv, Content, Source
  <2>4. CASE c \notin Staged
    BY <2>1, <2>2, <2>4 DEF Content, Whole, HasAllOf
  <2> QED BY <2>3, <2>4
<1>2. IInv => [\A c \in Component :
                   /\ Package(c)
                   /\ c \in Staged => installed[c] = version[c]
                   /\ c \in Port => Source(c) = "whole"
                   => HasAllOf(artifacts'[c][version[c]], version[c])]_vars
  BY <1>1
<1> QED BY <1>2, InductiveInvariant, PTL DEF PackagesAreComplete

\* When the package stage ends, core/ has the package just made of each
\* component whose package() returned, for recipes that do not pick any file
\* that matches.
THEOREM PackagedAreInCore == Spec => PackagedReachesCore
<1>1. ASSUME IInv, EndPackaging, NEW c \in Packaged, Certain(c)
      PROVE  core[c][version[c]] = Content(c)
  BY <1>1 DEF IInv, CopyInv, EndPackaging
<1>2. IInv => [EndPackaging => \A c \in Packaged :
                  Picks[c] # "any" \/ c \in Cleared =>
                      core[c][version[c]] = Content(c)]_vars
  BY <1>1 DEF Certain
<1> QED BY <1>2, InductiveInvariant, PTL DEF PackagedReachesCore
=============================================================================
