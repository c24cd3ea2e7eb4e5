--------------------------- MODULE Prepare_proofs ---------------------------
(***************************************************************************)
(* Proofs about change detection, for every list of repositories, any      *)
(* number of commits and of runs that die.  Type correctness needs nothing *)
(* else; the others assume that HEAD is read in time.                      *)
(***************************************************************************)
EXTENDS Prepare, SequenceTheorems, TLAPS

-----------------------------------------------------------------------------
(***************************************************************************)
(* The lists of repositories.                                              *)
(***************************************************************************)

\* The tracked repositories come first in the order in which prepare fetches
\* them (prepare.py:40-89, change_detection.py:103-118).
LEMMA OrderFacts ==
    /\ Len(Tracked) \in Nat /\ Len(Order) \in Nat /\ Len(Tracked) <= Len(Order)
    /\ \A i \in 1 .. Len(Order) : Order[i] \in Repo
    /\ \A r : IsTracked(r) <=> \E i \in 1 .. Len(Tracked) : Order[i] = r
    /\ \A i, j \in 1 .. Len(Order) : Order[i] = Order[j] => i = j
<1>1. /\ Tracked \in Seq(Repo) /\ Extra \in Seq(Repo)
      /\ DOMAIN Tracked = 1 .. Len(Tracked)
  BY OrderAssumption
<1>2. /\ Order \in Seq(Repo) /\ Len(Order) = Len(Tracked) + Len(Extra)
      /\ \A i \in 1 .. Len(Order) : i <= Len(Tracked) => Order[i] = Tracked[i]
      /\ DOMAIN Order = 1 .. Len(Order)
  BY <1>1, ConcatProperties DEF Order
<1>3. \A i \in 1 .. Len(Tracked) : Order[i] = Tracked[i]
  BY <1>1, <1>2
<1>4. \A i, j \in 1 .. Len(Order) : Order[i] = Order[j] => i = j
  BY <1>2, OrderAssumption
<1> QED BY <1>1, <1>2, <1>3, <1>4 DEF IsTracked

\* What git prints for a repository is a commit, of it exactly if it is
\* checked out (change_detection.py:103-118).
LEMMA HeadFacts ==
    ASSUME TypeOK, NEW r \in Repo
    PROVE  /\ RealHead(r) \in Hash \cup {NoHash, Foreign}
           /\ disk[r] = "git" => RealHead(r) = <<r, head[r]>> /\ RealHead(r) \in Hash
           /\ disk[r] = "torn" => RealHead(r) = NoHash
           /\ \A n : RealHead(r) = <<r, n>> /\ RealHead(r) \in Hash => disk[r] = "git" /\ n = head[r]
<1>1. /\ disk[r] \in DiskState /\ head[r] \in 0 .. MaxCommit
      /\ disk[Kernel] \in DiskState /\ head[Kernel] \in 0 .. MaxCommit /\ Kernel \in Repo
      /\ Kernel # Nested
  BY OrderAssumption DEF TypeOK
<1>2. <<r, head[r]>> \in Hash /\ <<Kernel, head[Kernel]>> \in Hash
  BY <1>1 DEF Hash
<1>3. NoHash \notin Hash /\ Foreign \notin Hash
  BY BoundAssumption
<1>4. CASE disk[r] = "git"
  BY <1>2, <1>4 DEF RealHead
<1>5. CASE disk[r] \in {"absent", "torn"}
  BY <1>3, <1>5 DEF RealHead
<1>6. CASE disk[r] \in {"empty", "occupied"}
  <2>1. CASE r = Nested /\ disk[Kernel] = "git"
    <3>1. RealHead(r) = <<Kernel, head[Kernel]>>
      BY <1>6, <2>1 DEF RealHead
    <3> QED BY <1>1, <1>2, <1>6, <2>1, <3>1
  <2>2. CASE ~(r = Nested /\ disk[Kernel] = "git")
    <3>1. RealHead(r) \in {NoHash, Foreign}
      BY <1>6, <2>2 DEF RealHead
    <3> QED BY <1>3, <1>6, <3>1
  <2> QED BY <2>1, <2>2
<1> QED BY <1>1, <1>4, <1>5, <1>6 DEF DiskState

-----------------------------------------------------------------------------
(***************************************************************************)
(* Types.                                                                  *)
(***************************************************************************)

\* What is recorded of a repository.
Recorded == [Repo -> Hash \cup {NoHash, Foreign}]

\* Nothing recorded is a record (change_detection.py:92-101).
LEMMA NothingRecorded ==
    /\ Nothing \in Recorded
    /\ \A r \in Repo : Nothing[r] = NoHash /\ NoHash \notin Hash
BY BoundAssumption DEF Nothing, Recorded

\* The checkouts keep their types, and one that is there stays there
\* (prepare.py:97-170).
LEMMA LeaveFacts ==
    ASSUME TypeOK, NEW r \in Repo, NEW what \in DiskState, disk[r] # "git", Leave(r, what)
    PROVE  /\ disk' \in [Repo -> DiskState]
           /\ \A d \in Repo : disk[d] = "git" => disk'[d] = "git"
           /\ disk'[r] = what
           /\ \A d \in Repo : d # r /\ disk'[d] = "git" => disk[d] = "git"
BY DEF TypeOK, Leave, DiskState

\* Every action keeps the types.
LEMMA TypeInductive == TypeOK /\ [Next]_vars => TypeOK'
<1> SUFFICES ASSUME TypeOK, [Next]_vars PROVE TypeOK'
  OBVIOUS
<1> USE DEF TypeOK, world, repos, detector, DiskState
<1>0. /\ Len(Tracked) \in Nat /\ Len(Order) \in Nat /\ Len(Tracked) <= Len(Order)
      /\ \A i \in 1 .. Len(Order) : Order[i] \in Repo
      /\ MaxCommit \in Nat /\ MaxCrashes \in Nat
  BY OrderFacts, BoundAssumption
<1>1. ASSUME NEW r \in Repo, Publish(r) PROVE TypeOK'
  BY <1>0, <1>1 DEF Publish
<1>2. ASSUME NEW r \in Repo, RefreshForBuild(r) PROVE TypeOK'
  BY <1>2 DEF RefreshForBuild
<1>3. CASE Begin
  BY <1>0, <1>3 DEF Begin
<1>4. ASSUME NEW r \in Repo, CloneSucceeds(r) PROVE TypeOK'
  <2>1. disk' \in [Repo -> DiskState]
    BY <1>4, LeaveFacts DEF CloneSucceeds
  <2>2. at' \in 1 .. Len(Order) + 1
    BY <1>0, <1>4 DEF CloneSucceeds, Fetching
  <2>3. head' \in [Repo -> 0 .. MaxCommit]
    BY <1>4 DEF CloneSucceeds
  <2> QED BY <1>4, <2>1, <2>2, <2>3 DEF CloneSucceeds
<1>5. ASSUME NEW r \in Repo, CloneFails(r) PROVE TypeOK'
  <2>1. disk' \in [Repo -> DiskState]
    <3>1. (IF disk[r] = "absent" THEN "empty" ELSE disk[r]) \in DiskState /\ disk[r] # "git"
      BY <1>5 DEF CloneFails, HasGitDir
    <3> HIDE DEF DiskState
    <3> QED BY <1>5, <3>1, LeaveFacts DEF CloneFails
  <2>2. at' \in 1 .. Len(Order) + 1
    BY <1>0, <1>5 DEF CloneFails, Fetching
  <2> QED BY <1>5, <2>1, <2>2 DEF CloneFails
<1>6. ASSUME NEW r \in Repo, PullSucceeds(r) \/ PullFails(r) PROVE TypeOK'
  <2>1. at' \in 1 .. Len(Order) + 1
    BY <1>0, <1>6 DEF PullSucceeds, PullFails, Fetching
  <2>2. head' \in [Repo -> 0 .. MaxCommit]
    BY <1>6 DEF PullSucceeds, PullFails
  <2> QED BY <1>6, <2>1, <2>2 DEF PullSucceeds, PullFails
<1>7. CASE Detect
  BY <1>0, <1>7 DEF Detect
<1>8. CASE Check
  <2>1. Here \in Repo /\ at' \in 1 .. Len(Order) + 1
    BY <1>0, <1>8 DEF Check, Checking, Here
  <2>2. PICK h \in HeadHashes(Here) :
           IF HasGitDir(Here) /\ HasChanged(Here, h)
           THEN changed' = changed \cup {Here} /\ reported' = reported \cup {h}
           ELSE UNCHANGED <<changed, reported>>
    BY <1>8 DEF Check
  <2>3. HasGitDir(Here) /\ HasChanged(Here, h) => h \in Hash
    BY <2>1, <2>2, HeadFacts DEF HeadHashes, HasGitDir, HasChanged
  <2> QED BY <1>8, <2>1, <2>2, <2>3 DEF Check
<1>9. CASE StartSaving
  BY <1>0, <1>9 DEF StartSaving
<1>10. CASE Collect
  <2>1. Here \in Repo /\ at' \in 1 .. Len(Order) + 1
    BY <1>0, <1>10 DEF Collect, Here
  <2>2. PICK h \in HeadHashes(Here) : collected' = [collected EXCEPT ![Here] = h]
    BY <1>10 DEF Collect
  <2>3. h \in Hash \cup {NoHash, Foreign}
    BY <2>1, <2>2, HeadFacts DEF HeadHashes
  <2> QED BY <1>10, <2>1, <2>2, <2>3 DEF Collect
<1>11. CASE Write \/ WriteFails
  <2>1. file' \in Recorded /\ prev' \in Recorded /\ collected' \in Recorded
    BY <1>11, NothingRecorded DEF Write, WriteFails, End, Recorded
  <2>2. /\ pc' = "idle" /\ at' = 1 /\ changed' = {} /\ lost' \in BOOLEAN
        /\ UNCHANGED <<world, repos, reported>>
    BY <1>11 DEF Write, WriteFails, End
  <2> QED BY <1>0, <2>1, <2>2 DEF Recorded
<1>12. CASE Crash
  <2>1. disk' \in [Repo -> DiskState]
    <3>1. CASE UNCHANGED disk
      BY <3>1
    <3>2. CASE Fetching(Here) /\ disk[Here] \in {"absent", "empty"} /\ Leave(Here, "torn")
      <4>1. Here \in Repo
        BY <1>0, <3>2 DEF Fetching, Here
      <4> QED BY <3>2, <4>1, LeaveFacts
    <3> QED BY <1>12, <3>1, <3>2 DEF Crash
  <2>2. at' \in 1 .. Len(Order) + 1 /\ crashes' \in 0 .. MaxCrashes /\ file' \in Recorded
    BY <1>0, <1>12, NothingRecorded DEF Crash, End, Recorded
  <2> QED BY <1>12, <2>1, <2>2, NothingRecorded DEF Crash, End, Recorded
<1>13. CASE UNCHANGED vars
  BY <1>13 DEF vars
<1> QED BY <1>1, <1>2, <1>3, <1>4, <1>5, <1>6, <1>7, <1>8, <1>9, <1>10, <1>11, <1>12, <1>13 DEF Next, Step

\* Every variable of the prepare stage keeps its type.
THEOREM TypeCorrect == Spec => []TypeOK
<1>1. Init => TypeOK
  BY OrderFacts, BoundAssumption, NothingRecorded DEF Init, TypeOK, DiskState, Recorded
<1> QED BY <1>1, TypeInductive, PTL DEF Spec

-----------------------------------------------------------------------------
(***************************************************************************)
(* The inductive invariant.                                                *)
(***************************************************************************)

Known(r) == <<r, head[r]>> \in reported

\* Commits only move on, and only of tracked checkouts that are there are
\* they reported.
HistoryInv ==
    /\ \A r \in Repo : head[r] <= remote[r]
    /\ \A r \in Repo, n \in 0 .. MaxCommit :
          <<r, n>> \in reported => IsTracked(r) /\ disk[r] = "git" /\ n <= head[r]

\* What the run knows: it compares with the file, what it has compared is
\* reported, and it collects what is checked out.
RunInv ==
    /\ pc \in {"checking", "saving"} => prev = file
    /\ pc \in {"idle", "fetching"} => changed = {}
    /\ pc = "checking" => \A i \in 1 .. at - 1 : disk[Order[i]] = "git" => Known(Order[i])
    /\ pc = "saving" =>
          /\ \A i \in 1 .. at - 1 :
                i <= Len(Tracked) /\ disk[Order[i]] = "git" => collected[Order[i]] = <<Order[i], head[Order[i]]>>
          /\ \A r \in Repo, n \in 0 .. MaxCommit :
                collected[r] = <<r, n>> => disk[r] = "git" /\ n = head[r] /\ IsTracked(r)
    /\ pc # "saving" => collected = Nothing

\* Unless something was lost, a commit that was reported is recorded, or will
\* be at the end of this run.
RecordInv ==
    ~lost => \A r \in Repo : Known(r) => file[r] = <<r, head[r]>> \/ r \in changed

IInv ==
    /\ TypeOK /\ HistoryInv /\ RunInv /\ RecordInv
    /\ RecordedWasReported /\ CheckedOutIsReported

-----------------------------------------------------------------------------
(***************************************************************************)
(* Each action keeps the invariant.                                        *)
(***************************************************************************)

\* A checkout that appears or moves forward, as far as upstream has come, has
\* no reported commit that it was not at before (prepare.py:97-170,
\* build.py:148-150).
LEMMA MoveKeepsInv ==
    ASSUME IInv, TypeOK', pc \in {"idle", "fetching"}, pc' \in {"idle", "fetching"},
           UNCHANGED <<remote, file, detector, lost>>,
           \A r \in Repo : disk[r] = "git" => disk'[r] = "git",
           \A r \in Repo : head'[r] = head[r] \/ head'[r] = remote[r]
    PROVE  IInv'
<1> USE DEF detector
<1>1. /\ \A r \in Repo : head[r] \in Nat /\ head'[r] \in Nat /\ remote[r] \in Nat
      /\ \A r \in Repo : head'[r] \in 0 .. MaxCommit
      /\ MaxCommit \in Nat
  BY BoundAssumption DEF IInv, TypeOK
<1>2. HistoryInv'
  BY <1>1 DEF IInv, HistoryInv
<1>3. RunInv'
  BY DEF IInv, RunInv
<1>4. \A r \in Repo : Known(r)' => Known(r) /\ head'[r] = head[r]
  <2>1. ASSUME NEW r \in Repo, Known(r)' PROVE head'[r] = head[r]
    BY <1>1, <2>1 DEF IInv, HistoryInv, Known
  <2> QED BY <2>1 DEF Known
<1>5. RecordInv'
  BY <1>4 DEF IInv, RecordInv
<1>6. RecordedWasReported' /\ CheckedOutIsReported'
  BY DEF IInv, RecordedWasReported, CheckedOutIsReported
<1> QED BY <1>2, <1>3, <1>5, <1>6 DEF IInv

\* Fetching, upstream moving on and the beginning of a run.
LEMMA FetchKeepsInv ==
    ASSUME IInv, TypeOK', NEW r \in Repo,
           \/ Publish(r) \/ RefreshForBuild(r) \/ Begin
           \/ CloneSucceeds(r) \/ CloneFails(r) \/ PullSucceeds(r) \/ PullFails(r)
    PROVE  IInv'
<1> USE DEF world, repos
<1>0. /\ TypeOK /\ disk \in [Repo -> DiskState]
      /\ head \in [Repo -> 0 .. MaxCommit] /\ remote \in [Repo -> 0 .. MaxCommit]
  BY DEF IInv, TypeOK
<1>1. CASE Publish(r)
  <2> USE <1>1 DEF Publish, detector
  <2>1. \A s \in Repo : head[s] <= remote'[s]
    BY <1>0, BoundAssumption DEF IInv, HistoryInv
  <2> QED BY <2>1 DEF IInv, HistoryInv, RunInv, RecordInv, Known, RecordedWasReported, CheckedOutIsReported
<1>2. CASE RefreshForBuild(r) \/ Begin \/ PullSucceeds(r) \/ PullFails(r)
  <2>1. /\ pc \in {"idle", "fetching"} /\ pc' \in {"idle", "fetching"}
        /\ UNCHANGED <<remote, file, detector, lost, disk>>
        /\ \A s \in Repo : head'[s] = head[s] \/ head'[s] = remote[s]
    BY <1>0, <1>2 DEF RefreshForBuild, Begin, PullSucceeds, PullFails, Fetching
  <2> QED BY <2>1, MoveKeepsInv
<1>3. CASE CloneSucceeds(r) \/ CloneFails(r)
  <2>1. /\ pc \in {"idle", "fetching"} /\ pc' \in {"idle", "fetching"}
        /\ UNCHANGED <<remote, file, detector, lost>>
        /\ \A s \in Repo : head'[s] = head[s] \/ head'[s] = remote[s]
    BY <1>0, <1>3 DEF CloneSucceeds, CloneFails, Fetching
  <2>2. \A s \in Repo : disk[s] = "git" => disk'[s] = "git"
    <3>1. PICK what \in DiskState : Leave(r, what) /\ disk[r] # "git"
      BY <1>0, <1>3 DEF CloneSucceeds, CloneFails, HasGitDir, DiskState
    <3> QED BY <1>0, <3>1, LeaveFacts
  <2> QED BY <2>1, <2>2, MoveKeepsInv
<1> QED BY <1>1, <1>2, <1>3

\* The state file is read, and after the comparison the state is collected
\* (prepare.py:184-200).
LEMMA TurnKeepsInv ==
    ASSUME IInv, TypeOK', Detect \/ StartSaving
    PROVE  IInv'
<1> USE DEF world, repos
<1>1. CASE Detect
  BY <1>1 DEF Detect, IInv, HistoryInv, RunInv, RecordInv, Known, RecordedWasReported, CheckedOutIsReported
<1>2. CASE StartSaving
  <2> USE <1>2 DEF StartSaving, detector
  <2>1. \A r \in Repo : IsTracked(r) /\ disk[r] = "git" => Known(r)
    BY OrderFacts DEF IInv, TypeOK, RunInv
  <2>2. ASSUME NEW r \in Repo, NEW n \in 0 .. MaxCommit PROVE Nothing[r] # <<r, n>>
    <3>1. <<r, n>> \in Hash
      BY DEF Hash
    <3> QED BY <3>1, NothingRecorded
  <2>3. collected = Nothing /\ prev = file
    BY DEF IInv, RunInv
  <2>4. RunInv'
    <3> HIDE DEF Nothing
    <3> QED BY <2>2, <2>3 DEF RunInv
  <2> QED BY <2>1, <2>4 DEF IInv, HistoryInv, RecordInv, Known, RecordedWasReported, CheckedOutIsReported
<1> QED BY <1>1, <1>2

\* A HEAD that is read is reported unless it is the recorded one, which has
\* been reported before (change_detection.py:46-59).
LEMMA CheckKeepsInv ==
    ASSUME IInv, TypeOK', ~HeadReadsFail, Check
    PROVE  IInv'
<1> USE DEF Check, Checking, world, repos
<1> DEFINE h == RealHead(Here)
<1>1. /\ Here = Order[at] /\ Here \in Repo /\ IsTracked(Here) /\ at \in Nat /\ pc = "checking" /\ prev = file
      /\ TypeOK /\ \A i \in 1 .. at : Order[i] \in Repo /\ (i <= Len(Tracked))
      /\ head[Here] \in 0 .. MaxCommit
  BY OrderFacts DEF IInv, TypeOK, RunInv, Here
<1>2. IF HasGitDir(Here) /\ HasChanged(Here, h)
      THEN changed' = changed \cup {Here} /\ reported' = reported \cup {h}
      ELSE UNCHANGED <<changed, reported>>
  BY DEF HeadHashes
<1>3. HasGitDir(Here) /\ HasChanged(Here, h) => disk[Here] = "git" /\ h = <<Here, head[Here]>>
  BY <1>1, HeadFacts DEF HasGitDir, HasChanged
<1>4. /\ reported \subseteq reported' /\ changed \subseteq changed'
      /\ \A r \in Repo, n \in 0 .. MaxCommit :
            <<r, n>> \in reported' =>
                \/ <<r, n>> \in reported
                \/ r = Here /\ n = head[Here] /\ disk[Here] = "git" /\ Here \in changed'
  BY <1>2, <1>3
<1>5. disk[Here] = "git" => <<Here, head[Here]>> \in reported'
  <2>1. CASE disk[Here] = "git" /\ ~HasChanged(Here, h)
    <3>1. h = <<Here, head[Here]>> /\ h # NoHash
      BY <1>1, <2>1, HeadFacts, BoundAssumption
    <3>2. file[Here] = <<Here, head[Here]>>
      BY <1>1, <2>1, <3>1 DEF HasChanged
    <3> QED BY <1>1, <1>4, <3>2 DEF IInv, RecordedWasReported
  <2>2. CASE disk[Here] = "git" /\ HasChanged(Here, h)
    BY <1>2, <1>3, <2>2 DEF HasGitDir
  <2> QED BY <2>1, <2>2
<1>6. HistoryInv'
  BY <1>1, <1>4 DEF IInv, TypeOK, HistoryInv
<1>7. RunInv'
  <2>1. ASSUME NEW i \in 1 .. at, disk[Order[i]] = "git" PROVE <<Order[i], head[Order[i]]>> \in reported'
    BY <1>1, <1>4, <1>5, <2>1 DEF IInv, RunInv, Known
  <2> QED BY <1>1, <2>1 DEF IInv, RunInv, Known
<1>8. RecordInv'
  <2>1. ASSUME NEW r \in Repo, Known(r)' PROVE Known(r) \/ r \in changed'
    <3>1. head[r] \in 0 .. MaxCommit
      BY DEF IInv, TypeOK
    <3> QED BY <1>4, <2>1, <3>1 DEF Known
  <2> QED BY <1>4, <2>1 DEF IInv, RecordInv
<1>9. RecordedWasReported' /\ CheckedOutIsReported'
  BY <1>1, <1>4 DEF IInv, RecordedWasReported, CheckedOutIsReported
<1> QED BY <1>6, <1>7, <1>8, <1>9 DEF IInv

\* save_state reads the same HEAD that was compared (change_detection.py:68-75).
LEMMA CollectKeepsInv ==
    ASSUME IInv, TypeOK', ~HeadReadsFail, Collect
    PROVE  IInv'
<1> USE DEF Collect, world, repos
<1>1. /\ Here = Order[at] /\ Here \in Repo /\ IsTracked(Here) /\ at \in Nat
      /\ TypeOK /\ \A i \in 1 .. at : Order[i] \in Repo
      /\ \A i \in 1 .. at - 1 : Order[i] # Here
  BY OrderFacts DEF IInv, TypeOK, Here
<1>2. collected' = [collected EXCEPT ![Here] = RealHead(Here)]
  BY DEF HeadHashes
<1>3. collected \in [Repo -> Hash \cup {NoHash, Foreign}]
  BY DEF IInv, TypeOK
<1>4. /\ disk[Here] = "git" => RealHead(Here) = <<Here, head[Here]>>
      /\ \A n \in 0 .. MaxCommit : RealHead(Here) = <<Here, n>> => disk[Here] = "git" /\ n = head[Here]
  BY <1>1, HeadFacts DEF Hash
<1>5. RunInv'
  <2>1. ASSUME NEW i \in 1 .. at, disk[Order[i]] = "git", i <= Len(Tracked)
        PROVE  collected'[Order[i]] = <<Order[i], head[Order[i]]>>
    <3>1. CASE i = at
      BY <1>1, <1>2, <1>3, <1>4, <2>1, <3>1
    <3>2. CASE i # at
      <4>1. Order[i] # Here /\ Order[i] \in Repo /\ i \in 1 .. at - 1
        BY <1>1, <3>2
      <4> QED BY <1>2, <1>3, <2>1, <4>1 DEF IInv, RunInv
    <3> QED BY <3>1, <3>2
  <2>2. ASSUME NEW r \in Repo, NEW n \in 0 .. MaxCommit, collected'[r] = <<r, n>>
        PROVE  disk[r] = "git" /\ n = head[r] /\ IsTracked(r)
    <3>1. CASE r = Here
      BY <1>1, <1>2, <1>3, <1>4, <2>2, <3>1
    <3>2. CASE r # Here
      BY <1>2, <1>3, <2>2, <3>2 DEF IInv, RunInv
    <3> QED BY <3>1, <3>2
  <2>3. pc = "saving" /\ pc' = "saving" /\ prev' = file' /\ at' - 1 = at
    BY <1>1 DEF IInv, RunInv
  <2> HIDE DEF Collect
  <2>4. UNCHANGED <<disk, head>>
    BY DEF Collect
  <2> QED BY <2>1, <2>2, <2>3, <2>4 DEF RunInv
<1> QED BY <1>5 DEF IInv, HistoryInv, RecordInv, Known, RecordedWasReported, CheckedOutIsReported

\* A state that is written holds exactly what has been reported; one that is
\* not written, or not to its end, holds no more (change_detection.py:73-78).
LEMMA EndKeepsInv ==
    ASSUME IInv, TypeOK', Write \/ WriteFails \/ Crash
    PROVE  IInv'
<1> USE DEF world, repos, End
<1>1. HistoryInv'
  <2>1. UNCHANGED <<remote, head, reported>>
    BY DEF Write, WriteFails, Crash
  <2>2. \A r \in Repo : disk[r] = "git" => disk'[r] = "git"
    <3>1. CASE Fetching(Here) /\ disk[Here] \in {"absent", "empty"} /\ Leave(Here, "torn")
      <4>1. Here \in Repo /\ TypeOK
        BY <3>1, OrderFacts DEF IInv, TypeOK, Fetching, Here
      <4> QED BY <3>1, <4>1, LeaveFacts DEF DiskState
    <3> QED BY <3>1 DEF Write, WriteFails, Crash
  <2> QED BY <2>1, <2>2 DEF IInv, HistoryInv
<1>2. RunInv' /\ CheckedOutIsReported'
  BY DEF Write, WriteFails, Crash, RunInv, CheckedOutIsReported
<1>3. RecordedWasReported'
  <2>1. CASE Write
    <3>1. ASSUME NEW r \in Repo, NEW n \in 0 .. MaxCommit, collected[r] = <<r, n>> PROVE <<r, n>> \in reported
      BY <2>1, <3>1 DEF Write, Saving, IInv, RunInv, CheckedOutIsReported
    <3> QED BY <2>1, <3>1 DEF Write, RecordedWasReported
  <2>2. CASE WriteFails \/ Crash
    <3>1. file' \in {file, Nothing} /\ reported' = reported
      BY <2>2 DEF WriteFails, Crash
    <3> QED BY <3>1, NothingRecorded DEF IInv, RecordedWasReported, Hash
  <2> QED BY <2>1, <2>2
<1>4. RecordInv'
  <2>1. CASE Write
    <3> USE <2>1 DEF Write, Saving
    <3>1. ASSUME NEW r \in Repo, Known(r) PROVE collected[r] = <<r, head[r]>>
      <4>1. head[r] \in 0 .. MaxCommit /\ at \in Nat
        BY DEF IInv, TypeOK
      <4>2. IsTracked(r) /\ disk[r] = "git"
        BY <3>1, <4>1 DEF Known, IInv, HistoryInv
      <4>3. PICK i \in 1 .. Len(Tracked) : Order[i] = r
        BY <4>2, OrderFacts
      <4> QED BY <4>1, <4>2, <4>3, OrderFacts DEF IInv, RunInv
    <3> QED BY <3>1 DEF RecordInv, Known
  <2> QED BY <2>1 DEF WriteFails, Crash, RecordInv
<1> QED BY <1>1, <1>2, <1>3, <1>4 DEF IInv

-----------------------------------------------------------------------------
(***************************************************************************)
(* Theorems.                                                               *)
(***************************************************************************)

\* The invariant is inductive.
LEMMA Inductive == ASSUME ~HeadReadsFail, IInv, [Next]_vars PROVE IInv'
<1>1. TypeOK'
  BY TypeInductive DEF IInv
<1>2. CASE UNCHANGED vars
  BY <1>2 DEF vars, world, repos, detector, IInv, TypeOK, HistoryInv, RunInv, RecordInv, Known, RecordedWasReported,
     CheckedOutIsReported
<1>3. CASE Next
  <2> Kernel \in Repo
    BY OrderAssumption
  <2> QED BY <1>1, <1>3, FetchKeepsInv, TurnKeepsInv, CheckKeepsInv, CollectKeepsInv, EndKeepsInv DEF Next, Step
<1> QED BY <1>2, <1>3

\* The invariant holds in every state of every run of the prepare stage, if
\* HEAD is read in time.
THEOREM InductiveInvariant == ASSUME ~HeadReadsFail PROVE Spec => []IInv
<1>1. Init => IInv
  <2> SUFFICES ASSUME Init PROVE IInv
    OBVIOUS
  <2>1. TypeOK
    BY OrderFacts, BoundAssumption, NothingRecorded DEF Init, TypeOK, DiskState, Recorded
  <2>2. RecordedWasReported
    <3>1. ASSUME NEW r \in Repo, NEW n \in 0 .. MaxCommit PROVE file[r] # <<r, n>>
      <4>1. <<r, n>> \in Hash
        BY DEF Hash
      <4> QED BY <4>1, NothingRecorded DEF Init
    <3> QED BY <3>1 DEF RecordedWasReported
  <2>3. HistoryInv
    <3>1. \A r \in Repo : head[r] <= remote[r]
      BY DEF Init
    <3> QED BY <3>1 DEF Init, HistoryInv
  <2> QED BY <2>1, <2>2, <2>3 DEF Init, IInv, RunInv, RecordInv, CheckedOutIsReported
<1>2. IInv /\ [Next]_vars => IInv'
  BY Inductive
<1> QED BY <1>1, <1>2, PTL DEF Spec

\* A commit that the state file takes as known was reported to the user, by
\* whichever run, and whichever runs died (change_detection.py:37-78).
THEOREM RecordsWereReported == ASSUME ~HeadReadsFail PROVE Spec => []RecordedWasReported
<1>1. IInv => RecordedWasReported
  BY DEF IInv
<1> QED BY <1>1, InductiveInvariant, PTL

\* When a comparison ends, every tracked checkout is at a commit that was
\* reported (prepare.py:177-200).
THEOREM CheckoutsAreReported == ASSUME ~HeadReadsFail PROVE Spec => []CheckedOutIsReported
<1>1. IInv => CheckedOutIsReported
  BY DEF IInv
<1> QED BY <1>1, InductiveInvariant, PTL

\* No commit is reported twice unless a run died or could not save in between
\* (change_detection.py:53).
THEOREM ReportsAreNotSpurious == ASSUME ~HeadReadsFail PROVE Spec => NoSpuriousReport
<1> DEFINE Fresh == \A r \in Repo : r \in changed' \ changed /\ <<r, head[r]>> \in reported => lost
<1>1. ASSUME ~HeadReadsFail, IInv, Next PROVE Fresh
  <2>1. CASE changed' \subseteq changed
    BY <2>1
  <2>2. CASE Check
    <3>1. Here \in Repo /\ TypeOK /\ prev = file
      BY <1>1, <2>2, OrderFacts DEF IInv, TypeOK, RunInv, Check, Checking, Here
    <3>2. ASSUME NEW r \in changed' \ changed
          PROVE  r = Here /\ HasGitDir(Here) /\ HasChanged(Here, RealHead(Here))
      BY <1>1, <2>2, <3>2 DEF Check, HeadHashes
    <3>3. ASSUME NEW r \in changed' \ changed, <<r, head[r]>> \in reported, ~lost PROVE FALSE
      <4>1. r = Here /\ RealHead(Here) = <<Here, head[Here]>> /\ file[Here] # <<Here, head[Here]>>
        BY <3>1, <3>2, <3>3, HeadFacts, BoundAssumption DEF HasGitDir, HasChanged
      <4> QED BY <1>1, <3>1, <3>3, <4>1 DEF IInv, RecordInv, Known
    <3> QED BY <3>3
  <2> QED BY <1>1, <2>1, <2>2
          DEF Next, Step, Publish, RefreshForBuild, Begin, CloneSucceeds, CloneFails, PullSucceeds, PullFails,
              Detect, StartSaving, Collect, Write, WriteFails, Crash, End, detector
<1>2. ASSUME ~HeadReadsFail PROVE Spec => [][Fresh]_vars
  <2>1. IInv /\ [Next]_vars => [Fresh]_vars
    BY <1>1, <1>2
  <2>2. Spec => []IInv
    BY <1>2, InductiveInvariant
  <2> QED BY <2>1, <2>2, PTL DEF Spec
<1> QED BY <1>2 DEF NoSpuriousReport
=============================================================================
