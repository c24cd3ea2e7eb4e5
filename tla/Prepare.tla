------------------------------ MODULE Prepare ------------------------------
(***************************************************************************)
(* PrepareStage.run (src/stages/prepare.py) and the ChangeDetector it uses *)
(* (src/helpers/change_detection.py), run again and again while the        *)
(* upstream repositories move on.                                          *)
(*                                                                         *)
(* A run clones or fast-forwards the repositories one after the other,     *)
(* then compares their HEADs with the recorded state, reports the changed  *)
(* ones, reads all HEADs once more and overwrites the state file.  Every   *)
(* git command may fail, which is only logged; the run may die anywhere.   *)
(*                                                                         *)
(* git itself is external: a clone needs an absent or empty directory, a   *)
(* clone that dies leaves a .git without a commit, and a command run in a  *)
(* directory that is no checkout answers for the checkout around it.       *)
(***************************************************************************)
EXTENDS Integers, Sequences, FiniteSets

CONSTANTS
    Tracked,        \* sequence of the repositories of run() up to package_repos
    Extra,          \* sequence of the repositories of network.extra_repos
    Kernel,         \* the kernel checkout ...
    Nested,         \* ... and the one that is cloned inside of it
    MaxCommit,      \* bound: commits published per repository
    MaxCrashes,     \* bound: how often the stage dies
    HeadReadsFail,  \* may `git rev-parse HEAD` fail or run into its timeout?
    NoHash,         \* None, or no entry in the state file
    Foreign         \* HEAD of the checkout that Baker's directory may lie in

Order == Tracked \o Extra

Repo == {Order[i] : i \in DOMAIN Order}

IsTracked(r) == \E i \in DOMAIN Tracked : Tracked[i] = r

Hash == Repo \X (0 .. MaxCommit)

ASSUME OrderAssumption ==
    /\ Tracked \in Seq(Repo) /\ Extra \in Seq(Repo)
    /\ \A i, j \in DOMAIN Order : Order[i] = Order[j] => i = j
    /\ Kernel \in Repo /\ Kernel # Nested

ASSUME BoundAssumption ==
    /\ MaxCommit \in Nat /\ MaxCrashes \in Nat
    /\ HeadReadsFail \in BOOLEAN
    /\ NoHash # Foreign /\ {NoHash, Foreign} \cap Hash = {}

VARIABLES
    remote,     \* the last commit of each upstream branch
    disk,       \* what is at each repository's destination
    head,       \* the commit checked out there, when disk is "git"
    file,       \* .baker_state.json; one that cannot be parsed holds nothing
    pc,         \* the part of the stage that runs
    at,         \* index of the repository being handled
    prev,       \* _prev_state
    changed,    \* changed, the repositories this run has reported
    collected,  \* state, the dictionary save_state fills
    reported,   \* history: every <<repository, commit>> ever reported
    lost,       \* history: since the last write a run died or a write failed
    crashes     \* number of runs that died

world == <<remote, crashes>>
repos == <<disk, head>>
detector == <<prev, changed, collected, reported>>
vars == <<world, repos, file, pc, at, detector, lost>>

\* absent; an empty directory; one with files but no .git; a .git without a
\* commit; a checkout.
DiskState == {"absent", "empty", "occupied", "torn", "git"}

Nothing == [r \in Repo |-> NoHash]

Init ==
    /\ remote = [r \in Repo |-> 0]
    /\ disk = [r \in Repo |-> "absent"]
    /\ head = [r \in Repo |-> 0]
    /\ file = Nothing
    /\ pc = "idle" /\ at = 1
    /\ prev = Nothing /\ changed = {} /\ collected = Nothing
    /\ reported = {}
    /\ lost = TRUE
    /\ crashes = 0

-----------------------------------------------------------------------------
(***************************************************************************)
(* Between the runs.                                                       *)
(***************************************************************************)

\* Somebody pushes to the upstream branch.
Publish(r) ==
    /\ remote[r] < MaxCommit
    /\ remote' = [remote EXCEPT ![r] = @ + 1]
    /\ UNCHANGED <<crashes, repos, file, pc, at, detector, lost>>

\* `baker build --component` fast-forwards a checkout by itself.
RefreshForBuild(r) ==
    /\ pc = "idle"
    /\ disk[r] = "git"
    /\ head' = [head EXCEPT ![r] = remote[r]]
    /\ UNCHANGED <<world, disk, file, pc, at, detector, lost>>

Begin ==
    /\ pc = "idle"
    /\ pc' = "fetching"
    /\ at' = 1
    /\ UNCHANGED <<world, repos, file, detector, lost>>

-----------------------------------------------------------------------------
(***************************************************************************)
(* _fetch_repo.                                                            *)
(***************************************************************************)

Here == Order[at]

HasGitDir(r) == disk[r] \in {"torn", "git"}

\* os.makedirs(dest), then what git leaves at dest: inside a kernel directory
\* that is no checkout, the nested directory is what makes it non-empty.
Leave(r, what) ==
    disk' = [d \in Repo |->
                CASE d = r -> what
                  [] d # r /\ r = Nested /\ d = Kernel /\ disk[d] \in {"absent", "empty"}
                        -> "occupied"
                  [] OTHER -> disk[d]]

Fetching(r) == pc = "fetching" /\ at <= Len(Order) /\ Here = r

CloneSucceeds(r) ==
    /\ Fetching(r)
    /\ disk[r] \in {"absent", "empty"}
    /\ Leave(r, "git")
    /\ head' = [head EXCEPT ![r] = remote[r]]
    /\ at' = at + 1
    /\ UNCHANGED <<world, file, pc, detector, lost>>

\* No network, no git, or a destination that is not empty.
CloneFails(r) ==
    /\ Fetching(r)
    /\ ~ HasGitDir(r)
    /\ Leave(r, IF disk[r] = "absent" THEN "empty" ELSE disk[r])
    /\ at' = at + 1
    /\ UNCHANGED <<world, head, file, pc, detector, lost>>

\* Mutant: the branch is fetched but not merged.
PullFetchesOnly(r) ==
    /\ Fetching(r)
    /\ disk[r] = "git"
    /\ at' = at + 1
    /\ UNCHANGED <<world, repos, file, pc, detector, lost>>

\* _pull_latest: HEAD is fast-forwarded unless it is up to date already.
PullSucceeds(r) ==
    /\ Fetching(r)
    /\ disk[r] = "git"
    /\ head' = [head EXCEPT ![r] = remote[r]]
    /\ at' = at + 1
    /\ UNCHANGED <<world, disk, file, pc, detector, lost>>

\* No network, no git, no HEAD to compare, or HEAD cannot be fast-forwarded.
PullFails(r) ==
    /\ Fetching(r)
    /\ HasGitDir(r)
    /\ at' = at + 1
    /\ UNCHANGED <<world, repos, file, pc, detector, lost>>

-----------------------------------------------------------------------------
(***************************************************************************)
(* _detect_changes.                                                        *)
(***************************************************************************)

\* What `git rev-parse HEAD` prints in the directory of r.
RealHead(r) ==
    LET around == IF r = Nested THEN disk[Kernel] ELSE "absent" IN
    CASE disk[r] = "git" -> <<r, head[r]>>
      [] disk[r] \in {"absent", "torn"} -> NoHash
      [] OTHER -> CASE around = "git"  -> <<Kernel, head[Kernel]>>
                    [] around = "torn" -> NoHash
                    [] OTHER           -> Foreign

\* _head_hash: None when git fails, is missing or takes too long.
HeadHashes(r) == {RealHead(r)} \cup (IF HeadReadsFail THEN {NoHash} ELSE {})

\* ChangeDetector loads the state file.
Detect ==
    /\ pc = "fetching"
    /\ at > Len(Order)
    /\ pc' = "checking"
    /\ at' = 1
    /\ prev' = file
    /\ UNCHANGED <<world, repos, file, changed, collected, reported, lost>>

Checking == pc = "checking" /\ at <= Len(Tracked)

\* Mutant: a repository that has no recorded commit counts as unchanged.
HasChangedSinceRecord(r, h) == h # NoHash /\ prev[r] # NoHash /\ prev[r] # h

\* Mutant: a HEAD that cannot be read counts as a change.
HasChangedUnread(r, h) == prev[r] = NoHash \/ prev[r] # h

\* has_changed: HEAD can be read, and is not the recorded one.
HasChanged(r, h) == h # NoHash /\ (prev[r] = NoHash \/ prev[r] # h)

\* Mutant: the loop ends with the first changed repository.
CheckUpToFirst ==
    /\ Checking
    /\ \E h \in HeadHashes(Here) :
           IF HasGitDir(Here) /\ HasChanged(Here, h)
           THEN /\ changed' = changed \cup {Here}
                /\ reported' = reported \cup {h}
                /\ at' = Len(Tracked) + 1
           ELSE at' = at + 1 /\ UNCHANGED <<changed, reported>>
    /\ UNCHANGED <<world, repos, file, pc, prev, collected, lost>>

\* Only directories with a .git are compared, and reported when they differ.
Check ==
    /\ Checking
    /\ \E h \in HeadHashes(Here) :
           IF HasGitDir(Here) /\ HasChanged(Here, h)
           THEN /\ changed' = changed \cup {Here}
                /\ reported' = reported \cup {h}
           ELSE UNCHANGED <<changed, reported>>
    /\ at' = at + 1
    /\ UNCHANGED <<world, repos, file, pc, prev, collected, lost>>

StartSaving ==
    /\ pc = "checking"
    /\ at > Len(Tracked)
    /\ pc' = "saving"
    /\ at' = 1
    /\ UNCHANGED <<world, repos, file, detector, lost>>

\* save_state reads the HEAD of every repository anew, a checkout or not.
Collect ==
    /\ pc = "saving"
    /\ at <= Len(Tracked)
    /\ \E h \in HeadHashes(Here) : collected' = [collected EXCEPT ![Here] = h]
    /\ at' = at + 1
    /\ UNCHANGED <<world, repos, file, pc, prev, changed, reported, lost>>

Saving == pc = "saving" /\ at > Len(Tracked)

\* The stage is over and its variables with it.
End ==
    /\ pc' = "idle" /\ at' = 1
    /\ prev' = Nothing /\ changed' = {} /\ collected' = Nothing
    /\ UNCHANGED reported

\* Mutant: the state is written only by a run that saw no change.
WriteIfUnchanged ==
    /\ Saving
    /\ file' = IF changed = {} THEN collected ELSE file
    /\ lost' = FALSE
    /\ End
    /\ UNCHANGED <<world, repos>>

Write ==
    /\ Saving
    /\ file' = collected
    /\ lost' = FALSE
    /\ End
    /\ UNCHANGED <<world, repos>>

\* OSError: the file could not be opened, or was truncated and not filled.
WriteFails ==
    /\ Saving
    /\ file' \in {file, Nothing}
    /\ lost' = TRUE
    /\ End
    /\ UNCHANGED <<world, repos>>

\* The machine or the process dies: during a clone, between two repositories,
\* or while the state file is being overwritten.
Crash ==
    /\ pc # "idle"
    /\ crashes < MaxCrashes
    /\ \/ UNCHANGED disk
       \/ /\ Fetching(Here)
          /\ disk[Here] \in {"absent", "empty"}
          /\ Leave(Here, "torn")
    /\ file' \in {file} \cup (IF Saving THEN {Nothing} ELSE {})
    /\ crashes' = crashes + 1
    /\ lost' = TRUE
    /\ End
    /\ UNCHANGED <<remote, head>>

-----------------------------------------------------------------------------

Step ==
    \/ \E r \in Repo : CloneSucceeds(r) \/ CloneFails(r) \/ PullSucceeds(r) \/ PullFails(r)
    \/ Detect \/ Check \/ StartSaving \/ Collect \/ Write \/ WriteFails

Next ==
    \/ \E r \in Repo : Publish(r) \/ RefreshForBuild(r)
    \/ Begin
    \/ Step
    \/ Crash

Spec == Init /\ [][Next]_vars

\* A run goes on until it ends, somebody keeps running the stage, and the
\* network does not fail a repository every single time.
FairSpec ==
    /\ Spec
    /\ WF_vars(Begin)
    /\ WF_vars(Step)
    /\ \A r \in Repo : SF_vars(CloneSucceeds(r)) /\ SF_vars(PullSucceeds(r))

-----------------------------------------------------------------------------
(***************************************************************************)
(* Properties.                                                             *)
(***************************************************************************)

\* The type of the checkouts, the state file and the stage's variables.
TypeOK ==
    LET Recorded == [Repo -> Hash \cup {NoHash, Foreign}] IN
    /\ remote \in [Repo -> 0 .. MaxCommit]
    /\ disk \in [Repo -> DiskState]
    /\ head \in [Repo -> 0 .. MaxCommit]
    /\ file \in Recorded /\ prev \in Recorded /\ collected \in Recorded
    /\ pc \in {"idle", "fetching", "checking", "saving"}
    /\ at \in 1 .. Len(Order) + 1
    /\ changed \in SUBSET Repo
    /\ reported \in SUBSET Hash
    /\ lost \in BOOLEAN
    /\ crashes \in 0 .. MaxCrashes

\* A commit that the state file takes as known was reported: otherwise the
\* next run would find it unchanged and nobody would ever rebuild it.
RecordedWasReported ==
    \A r \in Repo, n \in 0 .. MaxCommit : file[r] = <<r, n>> => <<r, n>> \in reported

\* When the comparison is over, the commit every tracked checkout is at has
\* been reported, by this run or by an earlier one, even if that one died.
CheckedOutIsReported ==
    pc = "saving" =>
        \A r \in Repo : IsTracked(r) /\ disk[r] = "git" => <<r, head[r]>> \in reported

\* A commit is reported a second time only if a run died or a write failed
\* since the state was last saved.
NoSpuriousReport ==
    [][\A r \in Repo :
          r \in changed' \ changed /\ <<r, head[r]>> \in reported => lost]_vars

\* Whatever fails on the way, the last commit published in a repository that
\* is checked out and tracked is reported in the end.
UpstreamIsReported ==
    \A r \in Repo :
        IsTracked(r) /\ disk[r] = "git" /\ remote[r] = MaxCommit
            ~> <<r, MaxCommit>> \in reported

\* The README says that prepare clones all source repositories: with a
\* network that works now and then, each of them is cloned in the end.
EveryRepoIsCloned == \A r \in Repo : <>(disk[r] = "git")
=============================================================================
