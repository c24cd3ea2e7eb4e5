------------------------ MODULE RootPassword_proofs ------------------------
(***************************************************************************)
(* Proofs that passwd and shadow survive, for any number of users and      *)
(* runs, and of runs that are cut short in the middle of a line.           *)
(***************************************************************************)
EXTENDS RootPassword, SequenceTheorems, WellFoundedInduction, TLAPS

-----------------------------------------------------------------------------
(***************************************************************************)
(* Lines of root (password.py:121-138, 161-177).                           *)
(***************************************************************************)

Lines(f) == Seq(User \X Value[f])

\* The users of some lines, and the value of root, if there is a line of it.
Users(ls) == [i \in DOMAIN ls |-> ls[i][1]]
RootOf(ls) == ls[RootLine(ls)][2]

\* A set of numbers has a least one.
LEMMA LeastNumber ==
    ASSUME NEW S \in SUBSET Nat, S # {}
    PROVE  Min(S) \in S /\ \A n \in S : Min(S) <= n
<1>1. PICK x \in S : \A y \in S : ~(<<y, x>> \in OpToRel(<, Nat))
  BY NatLessThanWellFounded, WFMin
<1>2. ASSUME NEW y \in S PROVE x <= y
  <2>1. ~(y < x)
    BY <1>1, Zenon DEF OpToRel
  <2> QED BY <2>1
<1> QED BY <1>2 DEF Min

\* RootLine is the first line that is root's, or 0.
LEMMA RootLineFacts ==
    ASSUME NEW f \in File, NEW ls \in Lines(f)
    PROVE  /\ RootLine(ls) \in 0 .. Len(ls)
           /\ RootLine(ls) # 0 => ls[RootLine(ls)][1] = Root
           /\ \A j \in 1 .. Len(ls) : ls[j][1] = Root => RootLine(ls) # 0 /\ RootLine(ls) <= j
<1> DEFINE I == {i \in 1 .. Len(ls) : ls[i][1] = Root}
<1>1. RootLine(ls) = IF I # {} THEN Min(I) ELSE 0
  BY DEF RootLine, SelectInSeq
<1>2. Len(ls) \in Nat /\ I \in SUBSET Nat
  BY DEF Lines
<1>3. I # {} => Min(I) \in I /\ \A n \in I : Min(I) <= n
  BY <1>2, LeastNumber
<1>4. RootLine(ls) \in 0 .. Len(ls) /\ (RootLine(ls) # 0 => ls[RootLine(ls)][1] = Root)
  BY <1>1, <1>2, <1>3
<1>5. ASSUME NEW j \in 1 .. Len(ls), ls[j][1] = Root
      PROVE  RootLine(ls) # 0 /\ RootLine(ls) <= j
  <2>1. j \in I
    BY <1>5
  <2>2. RootLine(ls) \in I /\ RootLine(ls) <= j
    BY <1>1, <1>3, <2>1
  <2> QED BY <1>2, <2>2
<1> QED BY <1>4, <1>5

\* A line of root without one before it is RootLine.
LEMMA RootLineIs ==
    ASSUME NEW f \in File, NEW ls \in Lines(f), NEW i \in 1 .. Len(ls),
           ls[i][1] = Root, \A j \in 1 .. i - 1 : ls[j][1] # Root
    PROVE  RootLine(ls) = i
<1>1. Len(ls) \in Nat
  BY DEF Lines
<1>2. RootLine(ls) # 0 /\ RootLine(ls) <= i
  BY RootLineFacts
<1>3. RootLine(ls) \in 0 .. Len(ls) /\ ls[RootLine(ls)][1] = Root
  BY <1>2, RootLineFacts
<1> QED BY <1>1, <1>2, <1>3

LEMMA UsersFacts ==
    ASSUME NEW f \in File, NEW ls \in Lines(f)
    PROVE  /\ Users(ls) \in Seq(User) /\ Len(Users(ls)) = Len(ls)
           /\ DOMAIN ls = 1 .. Len(ls) /\ Len(ls) \in Nat
           /\ \A i \in 1 .. Len(ls) : Users(ls)[i] = ls[i][1] /\ ls[i] \in User \X Value[f]
BY DEF Users, Lines

\* Every entry has a shell that is installed.
Whole(ls) == \A i \in DOMAIN ls : ls[i][2] \in {"sh", "bash"}

\* The line of root is replaced, or put in front.
Put(ls, v) == IF RootLine(ls) = 0 THEN <<<<Root, v>>>> \o ls ELSE [ls EXCEPT ![RootLine(ls)] = <<Root, v>>]

\* What replacing root's line or putting it in front does to the lines.
LEMMA PutFacts ==
    ASSUME NEW f \in File, NEW ls \in Lines(f), NEW v \in Value[f]
    PROVE  /\ Put(ls, v) \in Lines(f)
           /\ RootLine(Put(ls, v)) # 0 /\ RootOf(Put(ls, v)) = v
           /\ Users(Put(ls, v)) = IF RootLine(ls) = 0 THEN <<Root>> \o Users(ls) ELSE Users(ls)
           /\ v \in {"sh", "bash"} /\ Whole(ls) => Whole(Put(ls, v))
<1> DEFINE new == Put(ls, v)
           root == <<Root, v>>
<1>1. root \in User \X Value[f]
  BY DEF User
<1>2. /\ Users(ls) \in Seq(User) /\ Len(Users(ls)) = Len(ls)
      /\ DOMAIN ls = 1 .. Len(ls) /\ Len(ls) \in Nat
      /\ \A i \in 1 .. Len(ls) : Users(ls)[i] = ls[i][1]
  BY UsersFacts
<1>3. CASE RootLine(ls) = 0
  <2>1. <<root>> \in Seq(User \X Value[f]) /\ Len(<<root>>) = 1 /\ <<root>>[1] = root
    BY <1>1
  <2>2. new = <<root>> \o ls
    BY <1>3 DEF Put
  <2>3. /\ new \in Lines(f) /\ Len(new) = Len(ls) + 1
        /\ \A i \in 1 .. Len(ls) + 1 : new[i] = IF i <= 1 THEN root ELSE ls[i - 1]
    <3> HIDE DEF new, root
    <3> QED BY <1>2, <2>1, <2>2, ConcatProperties DEF Lines
  <2>4. new[1] = root /\ 1 \in 1 .. Len(new)
    BY <1>2, <2>3
  <2>5. RootLine(new) = 1
    <3>1. new[1][1] = Root
      BY <2>4
    <3>2. \A j \in 1 .. 1 - 1 : new[j][1] # Root
      OBVIOUS
    <3> HIDE DEF new
    <3> QED BY <2>3, <2>4, <3>1, <3>2, RootLineIs
  <2>6. RootOf(new) = v
    BY <2>4, <2>5 DEF RootOf
  <2>7. Users(new) = <<Root>> \o Users(ls)
    <3>1. Root \in User /\ <<Root>> \in Seq(User) /\ Len(<<Root>>) = 1 /\ <<Root>>[1] = Root
      BY DEF User
    <3>2. /\ <<Root>> \o Users(ls) \in Seq(User) /\ Len(<<Root>> \o Users(ls)) = Len(ls) + 1
          /\ \A i \in 1 .. Len(ls) + 1 :
                (<<Root>> \o Users(ls))[i] = IF i <= 1 THEN Root ELSE Users(ls)[i - 1]
      BY <1>2, <3>1, ConcatProperties
    <3>3. /\ Users(new) \in Seq(User) /\ Len(Users(new)) = Len(ls) + 1
          /\ \A i \in 1 .. Len(ls) + 1 : Users(new)[i] = new[i][1]
      <4> HIDE DEF new
      <4> QED BY <2>3, UsersFacts
    <3>4. ASSUME NEW i \in 1 .. Len(ls) + 1
          PROVE  Users(new)[i] = (<<Root>> \o Users(ls))[i]
      <4>1. CASE i = 1
        BY <1>2, <2>4, <3>2, <3>3, <4>1
      <4>2. CASE i # 1
        <5>1. i - 1 \in 1 .. Len(ls) /\ ~(i <= 1)
          BY <1>2, <4>2
        <5>2. new[i] = ls[i - 1]
          BY <2>3, <5>1
        <5> QED BY <1>2, <3>2, <3>3, <5>1, <5>2
      <4> QED BY <4>1, <4>2
    <3> HIDE DEF new
    <3> QED BY <1>2, <3>2, <3>3, <3>4, SeqEqual
  <2>8. v \in {"sh", "bash"} /\ Whole(ls) => Whole(new)
    <3> SUFFICES ASSUME v \in {"sh", "bash"}, Whole(ls), NEW i \in DOMAIN new
                 PROVE  new[i][2] \in {"sh", "bash"}
      BY DEF Whole
    <3>1. i \in 1 .. Len(ls) + 1
      BY <2>3 DEF Lines
    <3>2. CASE i = 1
      BY <2>4, <3>2
    <3>3. CASE i # 1
      <4>1. i - 1 \in DOMAIN ls /\ new[i] = ls[i - 1]
        BY <1>2, <2>3, <3>1, <3>3
      <4> QED BY <4>1 DEF Whole
    <3> QED BY <3>2, <3>3
  <2> QED BY <1>3, <2>3, <2>5, <2>6, <2>7, <2>8
<1>4. CASE RootLine(ls) # 0
  <2> DEFINE n == RootLine(ls)
  <2>1. n \in 1 .. Len(ls) /\ ls[n][1] = Root /\ \A j \in 1 .. Len(ls) : ls[j][1] = Root => n <= j
    BY <1>2, <1>4, RootLineFacts
  <2>2. new = [ls EXCEPT ![n] = root]
    BY <1>4 DEF Put
  <2>3. /\ new \in Lines(f) /\ Len(new) = Len(ls) /\ DOMAIN new = DOMAIN ls
        /\ new[n] = root /\ \A i \in 1 .. Len(ls) : i # n => new[i] = ls[i]
    <3> HIDE DEF root, new, n
    <3> QED BY <1>1, <1>2, <2>1, <2>2 DEF Lines
  <2>4. RootLine(new) = n
    <3>1. new[n][1] = Root /\ n \in 1 .. Len(new)
      BY <2>1, <2>3
    <3>2. \A j \in 1 .. n - 1 : new[j][1] # Root
      BY <1>2, <2>1, <2>3
    <3> HIDE DEF new, n
    <3> QED BY <2>3, <3>1, <3>2, RootLineIs
  <2>5. RootOf(new) = v
    BY <2>3, <2>4 DEF RootOf
  <2>6. Users(new) = Users(ls)
    <3>1. \A i \in DOMAIN ls : new[i][1] = ls[i][1]
      BY <1>2, <2>1, <2>3
    <3> QED BY <2>3, <3>1 DEF Users
  <2>7. v \in {"sh", "bash"} /\ Whole(ls) => Whole(new)
    BY <1>2, <2>3 DEF Whole
  <2> QED BY <1>4, <2>1, <2>3, <2>4, <2>5, <2>6, <2>7
<1> QED BY <1>3, <1>4

\* bash changes the shell of root's whole lines, and nothing else
\* (blueyos_bash.py:50-66).
LEMMA WithBashFacts ==
    ASSUME NEW ls \in Lines("passwd")
    PROVE  /\ WithBash(ls) \in Lines("passwd")
           /\ RootLine(WithBash(ls)) = RootLine(ls)
           /\ RootLine(ls) # 0 => RootOf(WithBash(ls)) \in {"bash", Cut}
           /\ Users(WithBash(ls)) = Users(ls)
           /\ Whole(ls) => Whole(WithBash(ls))
<1> DEFINE new == WithBash(ls)
<1>0. "passwd" \in File
  BY DEF File
<1>1. /\ DOMAIN ls = 1 .. Len(ls) /\ Len(ls) \in Nat
      /\ \A i \in 1 .. Len(ls) : ls[i] \in User \X Value["passwd"]
  BY <1>0, UsersFacts
<1>2. /\ DOMAIN new = 1 .. Len(ls)
      /\ \A i \in 1 .. Len(ls) :
            /\ new[i] = IF ls[i][1] = Root /\ ls[i][2] # Cut THEN <<Root, "bash">> ELSE ls[i]
            /\ new[i][1] = ls[i][1]
            /\ ls[i][1] = Root => new[i][2] \in {"bash", Cut}
  BY <1>1 DEF WithBash
<1>3. new \in Lines("passwd") /\ Len(new) = Len(ls)
  <2>1. \A i \in 1 .. Len(ls) : new[i] \in User \X Value["passwd"]
    BY <1>1, <1>2 DEF User, Value
  <2>2. new = [i \in 1 .. Len(ls) |-> new[i]]
    BY <1>1 DEF WithBash
  <2> HIDE DEF new
  <2> QED BY <1>1, <2>1, <2>2 DEF Lines
<1>4. RootLine(new) = RootLine(ls)
  <2>1. CASE RootLine(ls) = 0
    <3>1. RootLine(new) \in 0 .. Len(ls) /\ (RootLine(new) # 0 => new[RootLine(new)][1] = Root)
      BY <1>0, <1>3, RootLineFacts
    <3>2. \A i \in 1 .. Len(ls) : ls[i][1] # Root
      BY <1>0, <2>1, RootLineFacts
    <3> QED BY <1>1, <1>2, <2>1, <3>1, <3>2
  <2>2. CASE RootLine(ls) # 0
    <3>1. /\ RootLine(ls) \in 1 .. Len(ls) /\ ls[RootLine(ls)][1] = Root
          /\ \A j \in 1 .. Len(ls) : ls[j][1] = Root => RootLine(ls) <= j
      BY <1>0, <1>1, <2>2, RootLineFacts
    <3>2. /\ new[RootLine(ls)][1] = Root
          /\ \A j \in 1 .. RootLine(ls) - 1 : new[j][1] # Root
      BY <1>1, <1>2, <3>1
    <3> HIDE DEF new
    <3> QED BY <1>0, <1>3, <3>1, <3>2, RootLineIs
  <2> QED BY <2>1, <2>2
<1>5. RootLine(ls) # 0 => RootOf(new) \in {"bash", Cut}
  <2>1. RootLine(ls) # 0 => RootLine(ls) \in 1 .. Len(ls) /\ ls[RootLine(ls)][1] = Root
    BY <1>0, <1>1, RootLineFacts
  <2> QED BY <1>2, <1>4, <2>1 DEF RootOf
<1>6. Users(new) = Users(ls)
  BY <1>1, <1>2 DEF Users
<1>7. Whole(ls) => Whole(new)
  BY <1>1, <1>2 DEF Whole
<1> QED BY <1>3, <1>4, <1>5, <1>6, <1>7

\* Root's line has bash, or was cut.
BashRoot(ls) == RootLine(ls) # 0 => RootOf(ls) \in {"bash", "part", Cut}

\* A write that stops leaves lines, and no other shell of root
\* (password.py:201-202).
LEMMA BeginningsFacts ==
    ASSUME NEW f \in File, NEW ls \in Lines(f), NEW b \in Beginnings(f, ls)
    PROVE  b \in Lines(f) /\ (BashRoot(ls) => BashRoot(b))
<1>1. /\ DOMAIN ls = 1 .. Len(ls) /\ Len(ls) \in Nat
      /\ \A i \in 1 .. Len(ls) : ls[i] \in User \X Value[f]
  BY UsersFacts
<1>2. \A n \in 0 .. Len(ls) :
         /\ SubSeq(ls, 1, n) \in Lines(f) /\ Len(SubSeq(ls, 1, n)) = n
         /\ \A i \in 1 .. n : SubSeq(ls, 1, n)[i] = ls[i]
  BY <1>1, SubSeqProperties DEF Lines
<1>3. \A n \in 1 .. Len(ls) : \A c \in CutLine(f, ls[n]) :
         c \in User \X Value[f] /\ c[2] \in {"part", Cut}
  BY <1>1 DEF CutLine, User, Value, File
<1>4. \E n \in 0 .. Len(ls) :
         /\ b \in Lines(f)
         /\ \A i \in 1 .. Len(b) : i <= n => b[i] = ls[i]
         /\ \A i \in 1 .. Len(b) : i > n => b[i][2] \in {"part", Cut}
  <2>1. CASE \E n \in 0 .. Len(ls) : b = SubSeq(ls, 1, n)
    BY <1>1, <1>2, <2>1
  <2>2. CASE \E n \in 1 .. Len(ls) : \E c \in CutLine(f, ls[n]) : b = Append(SubSeq(ls, 1, n - 1), c)
    <3>0. PICK n \in 1 .. Len(ls) : \E c \in CutLine(f, ls[n]) : b = Append(SubSeq(ls, 1, n - 1), c)
      BY <2>2
    <3>1. PICK c \in CutLine(f, ls[n]) : b = Append(SubSeq(ls, 1, n - 1), c)
      BY <3>0
    <3> DEFINE s == SubSeq(ls, 1, n - 1)
    <3>2. n - 1 \in 0 .. Len(ls)
      BY <1>1
    <3>3. s \in Seq(User \X Value[f]) /\ Len(s) = n - 1 /\ \A i \in 1 .. n - 1 : s[i] = ls[i]
      BY <1>2, <3>2 DEF Lines
    <3>4. c \in User \X Value[f] /\ c[2] \in {"part", Cut}
      BY <1>3
    <3>5. /\ b \in Lines(f) /\ Len(b) = n
          /\ \A i \in 1 .. n - 1 : b[i] = s[i]
          /\ b[n] = c
      <4> HIDE DEF s
      <4> QED BY <1>1, <3>1, <3>3, <3>4, AppendProperties DEF Lines, s
    <3>6. \A i \in 1 .. Len(b) : i <= n - 1 => b[i] = ls[i]
      <4> HIDE DEF s
      <4> QED BY <1>1, <3>3, <3>5
    <3>7. \A i \in 1 .. Len(b) : i > n - 1 => b[i][2] \in {"part", Cut}
      <4>1. ASSUME NEW i \in 1 .. Len(b), i > n - 1 PROVE i = n
        BY <1>1, <3>5, <4>1
      <4> QED BY <3>4, <3>5, <4>1
    <3> QED BY <3>2, <3>5, <3>6, <3>7
  <2> QED BY <2>1, <2>2 DEF Beginnings
<1>5. PICK n \in 0 .. Len(ls) :
         /\ b \in Lines(f)
         /\ \A i \in 1 .. Len(b) : i <= n => b[i] = ls[i]
         /\ \A i \in 1 .. Len(b) : i > n => b[i][2] \in {"part", Cut}
  BY <1>4
<1>6. ASSUME BashRoot(ls), RootLine(b) # 0
      PROVE  RootOf(b) \in {"bash", "part", Cut}
  <2> DEFINE r == RootLine(b)
  <2>1. /\ r \in 1 .. Len(b) /\ b[r][1] = Root /\ Len(b) \in Nat
        /\ \A j \in 1 .. Len(b) : b[j][1] = Root => r <= j
    BY <1>5, <1>6, RootLineFacts, UsersFacts
  <2>2. CASE r <= n
    <3>1. r \in 1 .. Len(ls)
      BY <1>1, <2>1, <2>2
    <3>2. b[r] = ls[r] /\ \A j \in 1 .. r - 1 : b[j] = ls[j] /\ b[j][1] # Root
      BY <1>1, <1>5, <2>1, <2>2
    <3>3. RootLine(ls) = r
      <4>1. ls[r][1] = Root /\ \A j \in 1 .. r - 1 : ls[j][1] # Root
        BY <2>1, <3>2
      <4> HIDE DEF r
      <4> QED BY <3>1, <4>1, RootLineIs
    <3> QED BY <1>6, <2>1, <3>2, <3>3 DEF BashRoot, RootOf
  <2>3. CASE ~(r <= n)
    <3>1. r > n
      BY <1>1, <2>1, <2>3
    <3> QED BY <1>5, <2>1, <3>1 DEF RootOf
  <2> QED BY <2>2, <2>3
<1> QED BY <1>5, <1>6 DEF BashRoot

\* What blueyos-base ships.
LEMMA ShippedFacts ==
    /\ \A f \in File : ShippedLines(f) \in Lines(f)
    /\ Users(ShippedLines("passwd")) = <<Root>> \o Others
    /\ Users(ShippedLines("shadow")) = Others
    /\ Whole(ShippedLines("passwd"))
<1>1. /\ Others \in Seq(User) /\ DOMAIN Others = 1 .. Len(Others) /\ Len(Others) \in Nat
      /\ \A i \in 1 .. Len(Others) : Others[i] \in User
  <2>1. /\ Others \in Seq(Range(Others)) /\ DOMAIN Others = 1 .. Len(Others) /\ Len(Others) \in Nat
        /\ \A i \in 1 .. Len(Others) : Others[i] \in Range(Others)
    BY UserAssumption
  <2>2. Range(Others) \subseteq User
    BY DEF User
  <2> QED BY <2>1, <2>2
<1> DEFINE others(v) == [i \in DOMAIN Others |-> <<Others[i], v>>]
<1>2. ASSUME NEW f \in File, NEW v \in Value[f]
      PROVE  others(v) \in Lines(f) /\ Users(others(v)) = Others
  BY <1>1 DEF Lines, Users
<1>3. "sh" \in Value["passwd"] /\ 0 \in Value["shadow"] /\ "passwd" \in File /\ "shadow" \in File
  BY UserAssumption DEF Value, File
<1>4. ShippedLines("shadow") = others(0) /\ ShippedLines("passwd") = <<<<Root, "sh">>>> \o others("sh")
  BY DEF ShippedLines
<1>5. others("sh") \in Lines("passwd") /\ Users(others("sh")) = Others /\ Whole(others("sh"))
  BY <1>2, <1>3 DEF Whole
<1>6. RootLine(others("sh")) = 0
  <2>1. DOMAIN others("sh") = 1 .. Len(others("sh")) /\ Len(others("sh")) = Len(Others)
    BY <1>1
  <2>2. \A i \in 1 .. Len(Others) : others("sh")[i][1] # Root
    BY <1>1, UserAssumption DEF Range
  <2> HIDE DEF others
  <2> QED BY <1>1, <1>3, <1>5, <2>1, <2>2, RootLineFacts
<1>7. ShippedLines("passwd") = Put(others("sh"), "sh")
  BY <1>4, <1>6 DEF Put
<1> HIDE DEF others
<1>8. /\ ShippedLines("passwd") \in Lines("passwd")
      /\ Users(ShippedLines("passwd")) = <<Root>> \o Others
      /\ Whole(ShippedLines("passwd"))
  BY <1>3, <1>5, <1>6, <1>7, PutFacts
<1> QED BY <1>2, <1>3, <1>4, <1>8 DEF File

-----------------------------------------------------------------------------
(***************************************************************************)
(* The invariant.  Between opening a file and writing it the text that the *)
(* file stands for is in the buffer.                                       *)
(***************************************************************************)

Writing == {"write", "bash-write"}
Rewriting == {"write", "private", "chmod"}

Text(f) == IF file = f /\ pc \in Writing THEN buffer ELSE etc[f].lines

OthersOf(f) == IF f \in shipped THEN Others ELSE <<>>

\* Which files are there, and which step works on which.
FilesInv ==
    /\ etc = [f \in File |-> etc[f]]
    /\ pc \in Rewriting => etc[file] # Absent
    /\ pc = "bash-write" => file = "passwd" /\ etc["passwd"] # Absent
    /\ \A f \in shipped : etc[f] # Absent

\* The users of a file that no run left unfinished.
UsersInv ==
    \A f \in File \ torn :
        etc[f] # Absent => Users(Text(f)) \in {OthersOf(f), <<Root>> \o OthersOf(f)}

\* The shells and the mode of a passwd that no run left unfinished.
PasswdInv ==
    "passwd" \notin torn /\ etc["passwd"] # Absent =>
        /\ Whole(Text("passwd"))
        /\ etc["passwd"].mode = "644" \/ (file = "passwd" /\ pc \in Rewriting)

\* What a run of `baker passwd` has done so far.
Wanted(f) == IF f = "shadow" THEN runs ELSE PreferredShell

SetInv ==
    /\ pc \in Rewriting => RootLine(Text(file)) # 0 /\ RootOf(Text(file)) = Wanted(file)
    /\ pc = "passwd" \/ (pc \in Rewriting /\ file = "passwd") =>
          /\ etc["shadow"] # Absent /\ RootLine(Text("shadow")) # 0
          /\ RootOf(Text("shadow")) = runs /\ etc["shadow"].mode = "600"

\* What bash has done so far, and is kept.
BashInv ==
    /\ bashed => bash /\ {"sh", "bash"} \subseteq shells
    /\ (bashed \/ pc \in {"bash-write", "bash-shells"}) /\ etc["passwd"] # Absent =>
          BashRoot(Text("passwd"))

IInv == TypeOK /\ FilesInv /\ UsersInv /\ PasswdInv /\ SetInv /\ BashInv

-----------------------------------------------------------------------------
(***************************************************************************)
(* What the steps that touch a file do to the texts.                       *)
(***************************************************************************)

LEMMA TextIsLines ==
    ASSUME TypeOK, NEW f \in File
    PROVE  /\ etc[f] # Absent => etc[f].lines \in Lines(f) /\ Text(f) \in Lines(f)
           /\ file = f => buffer \in Lines(f)
<1>1. etc[f] # Absent => etc[f].lines \in Lines(f)
  BY DEF TypeOK, Content, Lines
<1>2. file = f => buffer \in Lines(f)
  BY DEF TypeOK, Lines
<1> QED BY <1>1, <1>2 DEF Text

\* A file that is opened for writing stands for the lines that will be
\* written (password.py:196-200).
LEMMA TruncateFacts ==
    ASSUME TypeOK, FilesInv, NEW f \in File, NEW ls \in Lines(f), NEW next \in Writing,
           pc \notin Writing, Truncate(f, ls, next)
    PROVE  /\ TypeOK' /\ etc' = [g \in File |-> etc'[g]]
           /\ etc'[f] # Absent /\ Text(f)' = ls
           /\ etc[f] # Absent => etc'[f].mode = etc[f].mode
           /\ \A g \in File \ {f} : etc'[g] = etc[g] /\ Text(g)' = Text(g)
<1> DEFINE new == [lines |-> <<>>, mode |-> IF etc[f] = Absent THEN "600" ELSE etc[f].mode]
<1>1. new \in Content(f) /\ (etc[f] # Absent => new.mode = etc[f].mode)
  <2>1. <<>> \in Seq(User \X Value[f])
    OBVIOUS
  <2>2. etc[f] # Absent => etc[f].mode \in {"600", "644"}
    BY DEF TypeOK, Content
  <2> QED BY <2>1, <2>2 DEF Content
<1>2. new # Absent
  BY <1>1, AbsentAssumption
<1>3. /\ etc' = [etc EXCEPT ![f] = new] /\ file' = f /\ buffer' = ls /\ pc' = next
      /\ UNCHANGED <<shells, bash, runs, history>>
  BY DEF Truncate
<1> HIDE DEF new
<1>4. /\ etc' = [g \in File |-> etc'[g]] /\ etc'[f] = new
      /\ \A g \in File \ {f} : etc'[g] = etc[g]
  BY <1>3 DEF FilesInv
<1>5. TypeOK'
  BY <1>1, <1>3, <1>4 DEF TypeOK, Lines, Writing, history
<1>6. Text(f)' = ls /\ \A g \in File \ {f} : Text(g)' = Text(g)
  BY <1>3, <1>4 DEF Text
<1> QED BY <1>1, <1>2, <1>4, <1>5, <1>6

\* Writing the lines changes no text.
LEMMA WriteFacts ==
    ASSUME TypeOK, FilesInv, pc \in Writing,
           etc' = [etc EXCEPT ![file].lines = buffer],
           pc' \in {"private", "bash-shells"},
           UNCHANGED <<shells, bash, file, buffer, runs, history>>
    PROVE  /\ TypeOK' /\ etc' = [g \in File |-> etc'[g]]
           /\ \A g \in File : /\ Text(g)' = Text(g)
                              /\ etc'[g] = Absent <=> etc[g] = Absent
                              /\ etc[g] # Absent => etc'[g].mode = etc[g].mode
<1>1. file \in File /\ etc[file] # Absent /\ etc[file] \in Content(file)
  BY DEF TypeOK, FilesInv, Writing, Rewriting
<1>2. /\ etc' = [g \in File |-> etc'[g]]
      /\ etc'[file] = [etc[file] EXCEPT !.lines = buffer]
      /\ \A g \in File \ {file} : etc'[g] = etc[g]
  BY <1>1 DEF FilesInv
<1>3. /\ etc'[file] \in Content(file) /\ etc'[file].lines = buffer
      /\ etc'[file].mode = etc[file].mode
  BY <1>1, <1>2 DEF TypeOK, Content
<1>4. etc'[file] # Absent
  BY <1>1, <1>3, AbsentAssumption
<1>5. TypeOK'
  BY <1>2, <1>3 DEF TypeOK, history
<1>6. \A g \in File : Text(g)' = Text(g)
  BY <1>2, <1>3 DEF Text, Writing
<1> QED BY <1>1, <1>2, <1>3, <1>4, <1>5, <1>6

\* Nor does setting the mode.
LEMMA ModeFacts ==
    ASSUME TypeOK, FilesInv, pc \in {"private", "chmod"}, NEW m \in {"600", "644"},
           etc' = [etc EXCEPT ![file].mode = m],
           pc' \in {"chmod", "passwd", "idle"},
           UNCHANGED <<shells, bash, file, buffer, runs, history>>
    PROVE  /\ TypeOK' /\ etc' = [g \in File |-> etc'[g]]
           /\ etc'[file].mode = m
           /\ \A g \in File : /\ Text(g)' = Text(g)
                              /\ etc'[g] = Absent <=> etc[g] = Absent
                              /\ g # file => etc'[g] = etc[g]
<1>1. file \in File /\ etc[file] # Absent /\ etc[file] \in Content(file)
  BY DEF TypeOK, FilesInv, Rewriting
<1>2. /\ etc' = [g \in File |-> etc'[g]]
      /\ etc'[file] = [etc[file] EXCEPT !.mode = m]
      /\ \A g \in File \ {file} : etc'[g] = etc[g]
  BY <1>1 DEF FilesInv
<1>3. /\ etc'[file] \in Content(file) /\ etc'[file].lines = etc[file].lines
      /\ etc'[file].mode = m
  BY <1>1, <1>2 DEF Content
<1>4. etc'[file] # Absent
  BY <1>1, <1>3, AbsentAssumption
<1>5. TypeOK'
  BY <1>2, <1>3 DEF TypeOK, history
<1>6. \A g \in File : Text(g)' = Text(g)
  BY <1>2, <1>3 DEF Text, Writing
<1> QED BY <1>1, <1>2, <1>3, <1>4, <1>5, <1>6

-----------------------------------------------------------------------------
(***************************************************************************)
(* Every step preserves the invariant.                                     *)
(***************************************************************************)

LEMMA InitInv == Init => IInv
<1> SUFFICES ASSUME Init PROVE IInv
  OBVIOUS
<1>1. TypeOK
  <2>1. <<>> \in Seq(User \X Value["shadow"])
    OBVIOUS
  <2>2. buffer \in Seq(User \X Value[file]) /\ file \in File
    BY <2>1 DEF Init, File
  <2>3. 0 \in 0 .. MaxRuns /\ 0 \in 0 .. MaxStops
    BY UserAssumption
  <2> QED BY <2>2, <2>3 DEF Init, TypeOK, File
<1>2. \A f \in File : etc[f] = Absent
  BY DEF Init
<1>3. FilesInv /\ UsersInv /\ PasswdInv /\ SetInv /\ BashInv
  BY <1>2 DEF Init, FilesInv, UsersInv, PasswdInv, SetInv, BashInv, Rewriting, Writing, File
<1> QED BY <1>1, <1>3 DEF IInv

\* The lines a rewriting starts from.
Old(f) == IF etc[f] = Absent THEN <<>> ELSE etc[f].lines

\* Replacing root's line or putting it in front keeps the users, in the
\* sense of UsersInv (password.py:129-138, 161-177).
LEMMA PutUsers ==
    ASSUME NEW f \in File, NEW ls \in Lines(f), NEW v \in Value[f], NEW o \in Seq(User),
           Users(ls) \in {o, <<Root>> \o o}
    PROVE  Users(Put(ls, v)) \in {o, <<Root>> \o o}
<1>1. Users(Put(ls, v)) = IF RootLine(ls) = 0 THEN <<Root>> \o Users(ls) ELSE Users(ls)
  BY PutFacts
<1>2. CASE Users(ls) = o
  BY <1>1, <1>2
<1>3. CASE Users(ls) = <<Root>> \o o
  <2>1. Root \in User /\ <<Root>> \in Seq(User) /\ Len(<<Root>>) = 1 /\ <<Root>>[1] = Root
    BY DEF User
  <2>2. Len(<<Root>> \o o) = Len(o) + 1 /\ (<<Root>> \o o)[1] = Root /\ Len(o) \in Nat
    BY <2>1, ConcatProperties
  <2>3. 1 \in 1 .. Len(ls) /\ ls[1][1] = Root
    BY <1>3, <2>2, UsersFacts
  <2>4. RootLine(ls) # 0
    BY <2>3, RootLineFacts
  <2> QED BY <1>1, <1>3, <2>4
<1> QED BY <1>2, <1>3

LEMMA OthersFacts == Others \in Seq(User) /\ \A f \in File : OthersOf(f) \in Seq(User)
<1>1. Others \in Seq(Range(Others)) /\ Range(Others) \subseteq User
  BY UserAssumption DEF User
<1>2. Others \in Seq(User)
  BY <1>1
<1> QED BY <1>2 DEF OthersOf

LEMMA OldFacts ==
    ASSUME IInv, NEW f \in File, pc \notin Writing
    PROVE  /\ Old(f) \in Lines(f)
           /\ f \notin torn => Users(Old(f)) \in {OthersOf(f), <<Root>> \o OthersOf(f)}
           /\ "passwd" \notin torn => Whole(Old("passwd"))
<1>1. CASE etc[f] = Absent
  <2>1. Old(f) = <<>> /\ <<>> \in Lines(f)
    BY <1>1 DEF Old, Lines
  <2>2. Users(<<>>) = <<>>
    BY DEF Users
  <2>3. OthersOf(f) = <<>>
    BY <1>1 DEF IInv, FilesInv, OthersOf
  <2> QED BY <1>1, <2>1, <2>2, <2>3 DEF Old, Whole, IInv, PasswdInv, Text
<1>2. CASE etc[f] # Absent
  <2>1. Old(f) = etc[f].lines /\ Text(f) = etc[f].lines
    BY <1>2 DEF Old, Text
  <2>2. Old(f) \in Lines(f)
    BY <1>2, <2>1, TextIsLines DEF IInv
  <2>3. f \notin torn => Users(Old(f)) \in {OthersOf(f), <<Root>> \o OthersOf(f)}
    BY <1>2, <2>1 DEF IInv, UsersInv
  <2>4. "passwd" \notin torn => Whole(Old("passwd"))
    BY DEF Old, Whole, IInv, PasswdInv, Text
  <2> QED BY <2>2, <2>3, <2>4
<1> QED BY <1>1, <1>2

LEMMA WantedFacts ==
    ASSUME TypeOK
    PROVE  /\ PreferredShell \in {"sh", "bash"} /\ PreferredShell \in Value["passwd"]
           /\ runs \in Value["shadow"]
           /\ \A f \in File : Wanted(f) \in Value[f]
BY DEF TypeOK, PreferredShell, Value, Wanted, File

LEMMA UpdateShadowInv ==
    ASSUME IInv, UpdateShadow
    PROVE  IInv'
<1>1. /\ pc = "shadow" /\ pc' = "write" /\ file' = "shadow" /\ "write" \in Writing /\ pc \notin Writing
      /\ UNCHANGED <<shells, bash, runs, history>>
  BY DEF UpdateShadow, Truncate, Writing
<1>2. "shadow" \in File /\ "passwd" \in File \ {"shadow"} /\ File = {"passwd", "shadow"}
  BY DEF File
<1> DEFINE ls == Put(Old("shadow"), runs)
<1>3. Truncate("shadow", ls, "write")
  BY DEF UpdateShadow, NewShadow, Put, Old
<1>4. TypeOK /\ FilesInv /\ shipped \subseteq File
  BY DEF IInv, TypeOK
<1>5. Old("shadow") \in Lines("shadow") /\ runs \in Value["shadow"]
  BY <1>1, <1>2, <1>4, OldFacts, WantedFacts
<1>6. ls \in Lines("shadow") /\ RootLine(ls) # 0 /\ RootOf(ls) = runs
  BY <1>2, <1>5, PutFacts
<1>7. "shadow" \notin torn => Users(ls) \in {OthersOf("shadow"), <<Root>> \o OthersOf("shadow")}
  BY <1>1, <1>2, <1>5, OldFacts, OthersFacts, PutUsers
<1> HIDE DEF ls
<1>8. /\ TypeOK' /\ etc' = [g \in File |-> etc'[g]]
      /\ etc'["shadow"] # Absent /\ Text("shadow")' = ls
      /\ etc'["passwd"] = etc["passwd"] /\ Text("passwd")' = Text("passwd")
  BY <1>1, <1>2, <1>3, <1>4, <1>6, TruncateFacts
<1>9. FilesInv'
  BY <1>1, <1>2, <1>4, <1>8 DEF FilesInv, Rewriting, history
<1>10. UsersInv'
  <2>1. \A f \in File : OthersOf(f)' = OthersOf(f)
    BY <1>1 DEF OthersOf, history
  <2> QED BY <1>1, <1>2, <1>7, <1>8, <2>1 DEF IInv, UsersInv, history
<1>11. PasswdInv'
  BY <1>1, <1>8 DEF IInv, PasswdInv, Rewriting, history
<1>12. SetInv'
  BY <1>1, <1>6, <1>8 DEF SetInv, Wanted, Rewriting
<1>13. BashInv'
  BY <1>1, <1>8 DEF IInv, BashInv, history
<1> QED BY <1>8, <1>9, <1>10, <1>11, <1>12, <1>13 DEF IInv

LEMMA EnsurePasswdInv ==
    ASSUME IInv, EnsurePasswd
    PROVE  IInv'
<1>1. /\ pc = "passwd" /\ pc' = "write" /\ file' = "passwd" /\ "write" \in Writing /\ pc \notin Writing
      /\ UNCHANGED <<shells, bash, runs, history>>
  BY DEF EnsurePasswd, Truncate, Writing
<1>2. "passwd" \in File /\ "shadow" \in File \ {"passwd"} /\ File = {"passwd", "shadow"}
  BY DEF File
<1> DEFINE ls == Put(Old("passwd"), PreferredShell)
<1>3. Truncate("passwd", ls, "write")
  BY DEF EnsurePasswd, NewPasswd, Put, Old
<1>4. TypeOK /\ FilesInv /\ shipped \subseteq File
  BY DEF IInv, TypeOK
<1>5. Old("passwd") \in Lines("passwd") /\ PreferredShell \in Value["passwd"]
  BY <1>1, <1>2, <1>4, OldFacts, WantedFacts
<1>6. ls \in Lines("passwd") /\ RootLine(ls) # 0 /\ RootOf(ls) = PreferredShell
  BY <1>2, <1>5, PutFacts
<1>7. "passwd" \notin torn =>
         Users(ls) \in {OthersOf("passwd"), <<Root>> \o OthersOf("passwd")} /\ Whole(ls)
  BY <1>1, <1>2, <1>4, <1>5, OldFacts, OthersFacts, PutUsers, PutFacts, WantedFacts
<1> HIDE DEF ls
<1>8. /\ TypeOK' /\ etc' = [g \in File |-> etc'[g]]
      /\ etc'["passwd"] # Absent /\ Text("passwd")' = ls
      /\ etc'["shadow"] = etc["shadow"] /\ Text("shadow")' = Text("shadow")
  BY <1>1, <1>2, <1>3, <1>4, <1>6, TruncateFacts
<1>9. FilesInv'
  BY <1>1, <1>2, <1>4, <1>8 DEF FilesInv, Rewriting, history
<1>10. UsersInv'
  <2>1. \A f \in File : OthersOf(f)' = OthersOf(f)
    BY <1>1 DEF OthersOf, history
  <2> QED BY <1>1, <1>2, <1>7, <1>8, <2>1 DEF IInv, UsersInv, history
<1>11. PasswdInv'
  BY <1>1, <1>7, <1>8 DEF PasswdInv, Rewriting, history
<1>12. SetInv'
  BY <1>1, <1>6, <1>8 DEF IInv, SetInv, Wanted, Rewriting, PreferredShell
<1>13. BashInv'
  BY <1>1, <1>6, <1>8 DEF IInv, BashInv, BashRoot, PreferredShell, history
<1> QED BY <1>8, <1>9, <1>10, <1>11, <1>12, <1>13 DEF IInv

LEMMA BashPasswdStepInv ==
    ASSUME IInv, BashPasswd
    PROVE  IInv'
<1> DEFINE ls == WithBash(etc["passwd"].lines)
<1>1. /\ pc = "bash-passwd" /\ pc' = "bash-write" /\ file' = "passwd" /\ etc["passwd"] # Absent
      /\ "bash-write" \in Writing /\ pc \notin Writing
      /\ UNCHANGED <<shells, bash, runs, history>> /\ Truncate("passwd", ls, "bash-write")
  BY DEF BashPasswd, Truncate, Writing
<1>2. "passwd" \in File /\ "shadow" \in File \ {"passwd"} /\ File = {"passwd", "shadow"}
  BY DEF File
<1>4. TypeOK /\ FilesInv /\ shipped \subseteq File
  BY DEF IInv, TypeOK
<1>5. etc["passwd"].lines \in Lines("passwd") /\ Text("passwd") = etc["passwd"].lines
  BY <1>1, <1>2, <1>4, TextIsLines DEF Text
<1>6. /\ ls \in Lines("passwd")
      /\ Users(ls) = Users(Text("passwd"))
      /\ Whole(Text("passwd")) => Whole(ls)
      /\ BashRoot(ls)
  BY <1>5, WithBashFacts DEF BashRoot
<1> HIDE DEF ls
<1>8. /\ TypeOK' /\ etc' = [g \in File |-> etc'[g]]
      /\ etc'["passwd"] # Absent /\ Text("passwd")' = ls
      /\ etc'["passwd"].mode = etc["passwd"].mode
      /\ etc'["shadow"] = etc["shadow"] /\ Text("shadow")' = Text("shadow")
  BY <1>1, <1>2, <1>4, <1>6, TruncateFacts
<1>9. FilesInv'
  BY <1>1, <1>2, <1>4, <1>8 DEF FilesInv, Rewriting, history
<1>10. UsersInv'
  <2>1. \A f \in File : OthersOf(f)' = OthersOf(f)
    BY <1>1 DEF OthersOf, history
  <2> QED BY <1>1, <1>2, <1>6, <1>8, <2>1 DEF IInv, UsersInv, history
<1>11. PasswdInv'
  BY <1>1, <1>6, <1>8 DEF IInv, PasswdInv, Rewriting, history
<1>12. SetInv'
  BY <1>1 DEF SetInv, Rewriting
<1>13. BashInv'
  BY <1>1, <1>6, <1>8 DEF IInv, BashInv, history
<1> QED BY <1>8, <1>9, <1>10, <1>11, <1>12, <1>13 DEF IInv

\* A step that changes no text keeps the users.
LEMMA SameTexts ==
    ASSUME UsersInv, torn' = torn, shipped' = shipped,
           \A g \in File : Text(g)' = Text(g) /\ (etc'[g] = Absent <=> etc[g] = Absent)
    PROVE  UsersInv'
<1>1. \A f \in File : OthersOf(f)' = OthersOf(f)
  BY DEF OthersOf
<1> QED BY <1>1 DEF UsersInv

\* The steps between rewritings, which leave the files alone.
LEMMA ControlInv ==
    ASSUME IInv, StartPasswd \/ PasswdIsThere \/ MergeBash \/ MergeLibrary \/ BashPasswdIsRight \/ BashShells
    PROVE  IInv'
<1>1. /\ etc' = etc /\ file' = file /\ buffer' = buffer /\ torn' = torn /\ shipped' = shipped
      /\ stops' = stops
      /\ pc \notin Writing /\ pc' \notin Writing /\ pc \notin Rewriting /\ pc' \notin Rewriting
  BY DEF StartPasswd, PasswdIsThere, MergeBash, MergeLibrary, BashPasswdIsRight, BashShells, sysroot, history,
         Writing, Rewriting
<1>2. \A g \in File : Text(g)' = Text(g)
  BY <1>1 DEF Text
<1>3. "passwd" \in File /\ "shadow" \in File
  BY DEF File
<1>4. TypeOK'
  <2>1. runs' \in 0 .. MaxRuns
    <3>1. runs \in 0 .. MaxRuns /\ MaxRuns \in Nat
      BY UserAssumption DEF IInv, TypeOK
    <3> QED BY <3>1 DEF StartPasswd, PasswdIsThere, MergeBash, MergeLibrary, BashPasswdIsRight, BashShells
  <2>2. bash' \in BOOLEAN /\ bashed' \in BOOLEAN /\ shells' \subseteq {"sh", "bash"}
    BY DEF IInv, TypeOK, StartPasswd, PasswdIsThere, MergeBash, MergeLibrary, BashPasswdIsRight, BashShells,
           sysroot, history
  <2>3. pc' \in {"idle", "shadow", "bash-passwd", "bash-shells"}
    BY DEF StartPasswd, PasswdIsThere, MergeBash, MergeLibrary, BashPasswdIsRight, BashShells
  <2> QED BY <1>1, <2>1, <2>2, <2>3 DEF IInv, TypeOK
<1>5. FilesInv'
  BY <1>1 DEF IInv, FilesInv, StartPasswd, PasswdIsThere, MergeBash, MergeLibrary, BashPasswdIsRight, BashShells,
              sysroot, Rewriting
<1>6. UsersInv'
  BY <1>1, <1>2, SameTexts DEF IInv
<1>7. PasswdInv'
  BY <1>1, <1>2, <1>3 DEF IInv, PasswdInv
<1>8. SetInv'
  BY <1>1 DEF SetInv, StartPasswd, PasswdIsThere, MergeBash, MergeLibrary, BashPasswdIsRight, BashShells
<1>9. BashInv'
  <2>1. CASE BashPasswdIsRight
    <3>1. /\ pc = "bash-passwd" /\ pc' = "bash-shells" /\ bash' = bash /\ shells' = shells
          /\ bashed' = bashed
          /\ etc["passwd"] # Absent => WithBash(etc["passwd"].lines) = etc["passwd"].lines
      BY <2>1 DEF BashPasswdIsRight, sysroot, history
    <3>2. etc["passwd"] # Absent => BashRoot(Text("passwd"))
      <4> SUFFICES ASSUME etc["passwd"] # Absent PROVE BashRoot(Text("passwd"))
        OBVIOUS
      <4>1. etc["passwd"].lines \in Lines("passwd") /\ Text("passwd") = etc["passwd"].lines
        BY <1>1, <1>3, TextIsLines DEF Text, IInv
      <4> QED BY <3>1, <4>1, WithBashFacts DEF BashRoot
    <3> QED BY <1>1, <1>2, <1>3, <3>1, <3>2 DEF IInv, BashInv
  <2>2. CASE BashShells
    <3>1. /\ pc = "bash-shells" /\ bash' = bash /\ shells' = shells \cup {"sh", "bash"}
          /\ bashed' = bash
      BY <2>2 DEF BashShells
    <3> QED BY <1>1, <1>2, <1>3, <3>1 DEF IInv, BashInv
  <2>3. CASE StartPasswd \/ PasswdIsThere \/ MergeBash \/ MergeLibrary
    <3>1. /\ shells' = shells /\ bashed' = bashed /\ (bash => bash')
          /\ pc' \notin {"bash-write", "bash-shells"}
      BY <2>3 DEF StartPasswd, PasswdIsThere, MergeBash, MergeLibrary, sysroot, history
    <3> QED BY <1>1, <1>2, <1>3, <3>1 DEF IInv, BashInv
  <2> QED BY <2>1, <2>2, <2>3
<1> QED BY <1>4, <1>5, <1>6, <1>7, <1>8, <1>9 DEF IInv

LEMMA WriteInv ==
    ASSUME IInv, Write \/ BashWrite
    PROVE  IInv'
<1>1. /\ pc \in Writing /\ etc' = [etc EXCEPT ![file].lines = buffer]
      /\ \/ pc = "write" /\ pc' = "private"
         \/ pc = "bash-write" /\ pc' = "bash-shells"
      /\ UNCHANGED <<shells, bash, file, buffer, runs, history>>
  BY DEF Write, BashWrite, Writing, IInv, FilesInv
<1>2. TypeOK /\ FilesInv /\ shipped \subseteq File /\ file \in File
  BY DEF IInv, TypeOK
<1>3. /\ TypeOK' /\ etc' = [g \in File |-> etc'[g]]
      /\ \A g \in File : /\ Text(g)' = Text(g)
                         /\ etc'[g] = Absent <=> etc[g] = Absent
                         /\ etc[g] # Absent => etc'[g].mode = etc[g].mode
  BY <1>1, <1>2, WriteFacts
<1>4. "passwd" \in File /\ "shadow" \in File
  BY DEF File
<1>5. FilesInv'
  BY <1>1, <1>2, <1>3, <1>4 DEF FilesInv, Rewriting, Writing, history
<1>6. UsersInv'
  BY <1>1, <1>3, SameTexts DEF IInv, history
<1>7. PasswdInv'
  BY <1>1, <1>3, <1>4 DEF IInv, PasswdInv, Rewriting, history
<1>8. SetInv'
  BY <1>1, <1>2, <1>3, <1>4 DEF IInv, SetInv, Rewriting, Wanted, PreferredShell
<1>9. BashInv'
  BY <1>1, <1>3, <1>4 DEF IInv, BashInv, history
<1> QED BY <1>3, <1>5, <1>6, <1>7, <1>8, <1>9 DEF IInv

LEMMA ModeInv ==
    ASSUME IInv, MakePrivate \/ SetMode
    PROVE  IInv'
<1>1. PICK m \in {"600", "644"} :
         /\ etc' = [etc EXCEPT ![file].mode = m]
         /\ \/ pc = "private" /\ pc' = "chmod"
            \/ /\ pc = "chmod" /\ pc' = (IF file = "shadow" THEN "passwd" ELSE "idle")
               /\ m = IF file = "passwd" THEN "644" ELSE "600"
  BY DEF MakePrivate, SetMode
<1>2. UNCHANGED <<shells, bash, file, buffer, runs, history>>
  BY DEF MakePrivate, SetMode
<1>3. TypeOK /\ FilesInv /\ shipped \subseteq File /\ file \in File
  BY DEF IInv, TypeOK
<1>4. /\ TypeOK' /\ etc' = [g \in File |-> etc'[g]]
      /\ etc'[file].mode = m
      /\ \A g \in File : /\ Text(g)' = Text(g)
                         /\ etc'[g] = Absent <=> etc[g] = Absent
                         /\ g # file => etc'[g] = etc[g]
  BY <1>1, <1>2, <1>3, ModeFacts
<1>5. File = {"passwd", "shadow"} /\ "passwd" \in File /\ "shadow" \in File
  BY DEF File
<1>6. FilesInv'
  BY <1>1, <1>2, <1>3, <1>4, <1>5 DEF FilesInv, Rewriting, history
<1>7. UsersInv'
  BY <1>2, <1>4, SameTexts DEF IInv, history
<1>8. PasswdInv'
  BY <1>1, <1>2, <1>3, <1>4, <1>5 DEF IInv, PasswdInv, Rewriting, history
<1>9. SetInv'
  <2>1. CASE file = "shadow"
    BY <1>1, <1>2, <1>3, <1>4, <1>5, <2>1 DEF IInv, SetInv, FilesInv, Rewriting, Wanted, PreferredShell
  <2>2. CASE file = "passwd"
    BY <1>1, <1>2, <1>3, <1>4, <1>5, <2>2 DEF IInv, SetInv, FilesInv, Rewriting, Wanted, PreferredShell
  <2> QED BY <1>3, <1>5, <2>1, <2>2
<1>10. BashInv'
  BY <1>1, <1>2, <1>4, <1>5 DEF IInv, BashInv, history
<1> QED BY <1>4, <1>6, <1>7, <1>8, <1>9, <1>10 DEF IInv

LEMMA InstallBaseInv ==
    ASSUME IInv, InstallBase
    PROVE  IInv'
<1>1. PICK fs \in {{"passwd"}, File} :
         /\ etc' = [f \in File |-> IF f \in fs THEN [lines |-> ShippedLines(f), mode |-> "644"]
                                   ELSE etc[f]]
         /\ torn' = torn \ fs
         /\ shipped' = shipped \cup fs
  BY DEF InstallBase
<1>2. /\ pc = "idle" /\ bashed' = FALSE
      /\ UNCHANGED <<shells, bash, local, runs, stops>>
  BY DEF InstallBase
<1>3. File = {"passwd", "shadow"} /\ "passwd" \in File /\ "shadow" \in File
      /\ fs \subseteq File /\ "passwd" \in fs
  BY DEF File
<1>4. TypeOK /\ shipped \subseteq File
  BY DEF IInv, TypeOK
<1>5. \A f \in fs : /\ etc'[f] \in Content(f) /\ etc'[f] # Absent
                    /\ etc'[f].lines = ShippedLines(f) /\ etc'[f].mode = "644"
  <2> SUFFICES ASSUME NEW f \in fs
               PROVE  /\ etc'[f] \in Content(f) /\ etc'[f] # Absent
                      /\ etc'[f].lines = ShippedLines(f) /\ etc'[f].mode = "644"
    OBVIOUS
  <2>1. f \in File /\ etc'[f] = [lines |-> ShippedLines(f), mode |-> "644"]
    BY <1>1, <1>3
  <2>2. ShippedLines(f) \in Seq(User \X Value[f])
    BY <2>1, ShippedFacts DEF Lines
  <2>3. etc'[f] \in Content(f)
    BY <2>1, <2>2 DEF Content
  <2> QED BY <2>1, <2>3, AbsentAssumption
<1>6. \A f \in File \ fs : etc'[f] = etc[f]
  BY <1>1
<1>7. TypeOK'
  BY <1>1, <1>2, <1>3, <1>4, <1>5, <1>6 DEF TypeOK, local
<1>8. FilesInv'
  <2>1. etc' = [f \in File |-> etc'[f]]
    BY <1>1
  <2>2. \A f \in shipped' : etc'[f] # Absent
    BY <1>1, <1>3, <1>4, <1>5, <1>6 DEF IInv, FilesInv
  <2> QED BY <1>2, <2>1, <2>2 DEF FilesInv, Rewriting, local
<1>9. \A f \in File : Text(f)' = etc'[f].lines /\ Text(f) = etc[f].lines
  BY <1>2 DEF Text, Writing, local
<1>10. UsersInv'
  <2> SUFFICES ASSUME NEW f \in File, f \notin torn', etc'[f] # Absent
               PROVE  (Users(Text(f)) \in {OthersOf(f), <<Root>> \o OthersOf(f)})'
    BY DEF UsersInv
  <2>1. CASE f \in fs
    <3>1. Text(f)' = ShippedLines(f) /\ OthersOf(f)' = Others
      BY <1>1, <1>5, <1>9, <2>1 DEF OthersOf
    <3>2. Users(ShippedLines(f)) \in {Others, <<Root>> \o Others}
      BY <1>3, ShippedFacts
    <3> QED BY <3>1, <3>2
  <2>2. CASE f \notin fs
    BY <1>1, <1>6, <1>9, <2>2 DEF IInv, UsersInv, OthersOf
  <2> QED BY <2>1, <2>2
<1>11. PasswdInv'
  BY <1>3, <1>5, <1>9, ShippedFacts DEF PasswdInv
<1>12. SetInv' /\ BashInv'
  BY <1>2 DEF SetInv, BashInv, Rewriting, local
<1> QED BY <1>7, <1>8, <1>10, <1>11, <1>12 DEF IInv

LEMMA CleanSysrootInv ==
    ASSUME IInv, CleanSysroot
    PROVE  IInv'
<1>1. /\ pc = "idle" /\ pc' = pc /\ file' = file /\ buffer' = buffer /\ runs' = runs /\ stops' = stops
      /\ etc' = [f \in File |-> Absent] /\ shells' = {} /\ bash' = FALSE
      /\ torn' = {} /\ shipped' = {} /\ bashed' = FALSE
  BY DEF CleanSysroot, local
<1>2. TypeOK'
  BY <1>1 DEF IInv, TypeOK
<1>3. \A f \in File : etc'[f] = Absent
  BY <1>1
<1>4. FilesInv' /\ UsersInv' /\ PasswdInv' /\ SetInv' /\ BashInv'
  BY <1>1, <1>3 DEF FilesInv, UsersInv, PasswdInv, SetInv, BashInv, Rewriting, File
<1> QED BY <1>2, <1>4 DEF IInv

LEMMA StopInv ==
    ASSUME IInv, Stop
    PROVE  IInv'
<1>1. /\ pc # "idle" /\ pc' = "idle" /\ stops < MaxStops /\ stops' = stops + 1
      /\ file' = file /\ buffer' = buffer /\ runs' = runs /\ shipped' = shipped
      /\ bashed' => bashed /\ pc \notin {"bash-passwd", "bash-shells"}
      /\ bashed' \in BOOLEAN
      /\ bash' \in BOOLEAN /\ (pc # "bash-passwd" => bash' = bash)
      /\ shells' \subseteq {"sh", "bash"} /\ (pc # "bash-shells" => shells' = shells)
  <2>1. bash \in BOOLEAN /\ shells \subseteq {"sh", "bash"}
    BY DEF IInv, TypeOK
  <2> QED BY <2>1 DEF Stop
<1>2. /\ torn' = IF pc \in Writing \cup Rewriting THEN torn \cup {file} ELSE torn
      /\ pc \notin Writing => etc' = etc
      /\ pc \in Writing => \E ls \in Beginnings(file, buffer) : etc' = [etc EXCEPT ![file].lines = ls]
  BY DEF Stop, Writing, Rewriting
<1>3. TypeOK /\ FilesInv /\ shipped \subseteq File /\ file \in File /\ "passwd" \in File
  BY DEF IInv, TypeOK, File
<1>4. /\ etc' = [g \in File |-> etc'[g]]
      /\ \A g \in File : /\ etc'[g] \in {Absent} \cup Content(g)
                         /\ etc'[g] = Absent <=> etc[g] = Absent
                         /\ g \notin torn' => Text(g)' = Text(g) /\ etc'[g] = etc[g]
                         /\ etc[g] # Absent /\ BashRoot(Text(g)) => BashRoot(Text(g)')
  <2>0. \A g \in File : Text(g)' = etc'[g].lines
    BY <1>1 DEF Text, Writing
  <2>1. CASE pc \notin Writing
    <3>1. \A g \in File : Text(g) = etc[g].lines
      BY <2>1 DEF Text
    <3> QED BY <1>2, <1>3, <2>0, <2>1, <3>1 DEF TypeOK, FilesInv
  <2>2. CASE pc \in Writing
    <3>1. PICK ls \in Beginnings(file, buffer) : etc' = [etc EXCEPT ![file].lines = ls]
      BY <1>2, <2>2
    <3>2. buffer \in Lines(file) /\ etc[file] # Absent /\ etc[file] \in Content(file)
      BY <1>3, <2>2, TextIsLines DEF TypeOK, FilesInv, Writing, Rewriting
    <3>3. ls \in Lines(file) /\ (BashRoot(buffer) => BashRoot(ls))
      BY <1>3, <3>1, <3>2, BeginningsFacts
    <3>4. /\ etc' = [g \in File |-> etc'[g]]
          /\ etc'[file] = [etc[file] EXCEPT !.lines = ls]
          /\ \A g \in File \ {file} : etc'[g] = etc[g]
      BY <1>3, <3>1 DEF FilesInv
    <3>5. etc'[file] \in Content(file) /\ etc'[file].lines = ls
      BY <3>2, <3>3, <3>4 DEF Content, Lines
    <3>6. etc'[file] # Absent
      BY <1>3, <3>5, AbsentAssumption
    <3>7. /\ \A g \in File \ {file} : Text(g) = etc[g].lines
          /\ \A g \in File : g = file => Text(g) = buffer
      BY <2>2 DEF Text
    <3>8. file \in torn'
      BY <1>2, <2>2
    <3>9. \A g \in File : g = file /\ BashRoot(Text(g)) => BashRoot(Text(g)')
      BY <2>0, <3>3, <3>5, <3>7
    <3>10. ASSUME NEW g \in File \ {file}
           PROVE  etc'[g] = etc[g] /\ etc[g] \in {Absent} \cup Content(g) /\ Text(g)' = Text(g)
      BY <1>3, <2>0, <3>4, <3>7 DEF TypeOK
    <3>11. ASSUME NEW g \in File
           PROVE  /\ etc'[g] \in {Absent} \cup Content(g)
                  /\ etc'[g] = Absent <=> etc[g] = Absent
                  /\ g \notin torn' => Text(g)' = Text(g) /\ etc'[g] = etc[g]
                  /\ etc[g] # Absent /\ BashRoot(Text(g)) => BashRoot(Text(g)')
      <4>1. CASE g = file
        BY <3>2, <3>5, <3>6, <3>8, <3>9, <4>1
      <4>2. CASE g # file
        BY <3>10, <4>2
      <4> QED BY <4>1, <4>2
    <3> QED BY <3>4, <3>11
  <2> QED BY <2>1, <2>2
<1>5. TypeOK'
  <2>1. stops' \in 0 .. MaxStops
    BY <1>1, <1>3, UserAssumption DEF TypeOK
  <2>2. torn' \subseteq File
    BY <1>2, <1>3 DEF TypeOK
  <2> QED BY <1>1, <1>3, <1>4, <2>1, <2>2 DEF TypeOK
<1>6. FilesInv'
  BY <1>1, <1>3, <1>4 DEF FilesInv, Rewriting
<1>7. torn \subseteq torn' /\ (pc \in Rewriting => file \in torn')
  BY <1>2
<1>8. UsersInv'
  <2>1. \A f \in File : OthersOf(f)' = OthersOf(f)
    BY <1>1 DEF OthersOf
  <2> QED BY <1>4, <1>7, <2>1 DEF IInv, UsersInv
<1>9. PasswdInv'
  BY <1>3, <1>4, <1>7 DEF IInv, PasswdInv
<1>10. SetInv'
  BY <1>1 DEF SetInv, Rewriting
<1>11. BashInv'
  BY <1>1, <1>3, <1>4 DEF IInv, BashInv
<1> QED BY <1>5, <1>6, <1>8, <1>9, <1>10, <1>11 DEF IInv

LEMMA NextInv ==
    ASSUME IInv, [Next]_vars
    PROVE  IInv'
<1>1. CASE PasswdStep
  BY <1>1, UpdateShadowInv, EnsurePasswdInv, ControlInv, WriteInv, ModeInv DEF PasswdStep
<1>2. CASE BashStep
  BY <1>2, BashPasswdStepInv, ControlInv, WriteInv DEF BashStep
<1>3. CASE UNCHANGED vars
  <2>1. /\ UNCHANGED <<etc, shells, bash, pc, file, buffer, runs, stops, torn, shipped, bashed>>
        /\ \A f \in File : Text(f)' = Text(f) /\ OthersOf(f)' = OthersOf(f) /\ Wanted(f)' = Wanted(f)
        /\ Text(file)' = Text(file) /\ Wanted(file)' = Wanted(file)
    BY <1>3 DEF vars, sysroot, local, history, Text, OthersOf, Wanted, PreferredShell
  <2>2. "passwd" \in File /\ "shadow" \in File
    BY DEF File
  <2>3. TypeOK' /\ FilesInv' /\ BashInv'
    BY <2>1, <2>2 DEF IInv, TypeOK, FilesInv, BashInv
  <2>4. UsersInv' /\ PasswdInv' /\ SetInv'
    BY <2>1, <2>2 DEF IInv, UsersInv, PasswdInv, SetInv
  <2> QED BY <2>3, <2>4 DEF IInv
<1>4. CASE StartPasswd \/ MergeBash \/ MergeLibrary
  BY <1>4, ControlInv
<1>5. CASE InstallBase
  BY <1>5, InstallBaseInv
<1>6. CASE CleanSysroot
  BY <1>6, CleanSysrootInv
<1>7. CASE Stop
  BY <1>7, StopInv
<1> QED BY <1>1, <1>2, <1>3, <1>4, <1>5, <1>6, <1>7 DEF Next

-----------------------------------------------------------------------------
(***************************************************************************)
(* The theorems.                                                           *)
(***************************************************************************)

\* The invariant above holds of every behaviour: it is what all the results
\* below follow from.
THEOREM Invariant == Spec => []IInv
<1>1. Init => IInv
  BY InitInv
<1>2. IInv /\ [Next]_vars => IInv'
  BY NextInv
<1> QED BY <1>1, <1>2, PTL DEF Spec

\* The files always hold lines of users, also after any number of runs that
\* were cut short (password.py:191-206).
THEOREM TypeCorrect == Spec => []TypeOK
<1>1. IInv => TypeOK
  BY DEF IInv
<1> QED BY <1>1, Invariant, PTL

\* However many users there are: neither `baker passwd` nor bash loses,
\* repeats or reorders one, in a file no run left unfinished
\* (password.py:121-145, 153-183; blueyos_bash.py:50-66).
THEOREM OthersStay == Spec => []OthersSurvive
<1>1. ASSUME IInv PROVE OthersSurvive
  <2> SUFFICES ASSUME NEW f \in File \ torn, etc[f] # Absent,
                      ~(file = f /\ pc \in {"write", "bash-write"})
               PROVE  [i \in DOMAIN etc[f].lines |-> etc[f].lines[i][1]]
                        \in {OthersOf(f), <<Root>> \o OthersOf(f)}
    BY DEF OthersSurvive, OthersOf
  <2>1. Text(f) = etc[f].lines
    BY DEF Text, Writing
  <2>2. Users(Text(f)) \in {OthersOf(f), <<Root>> \o OthersOf(f)}
    BY <1>1 DEF IInv, UsersInv
  <2> QED BY <2>1, <2>2 DEF Users
<1> QED BY <1>1, Invariant, PTL

\* Once installed, bash stays root's shell through every run of `baker
\* passwd`, of the installation of bash and of what interrupts them
\* (password.py:153-183 against blueyos_bash.py:50-66).
THEOREM BashStays == Spec => []BashStaysRootShell
<1>1. ASSUME IInv PROVE BashStaysRootShell
  <2> SUFFICES ASSUME pc = "idle", bashed
               PROVE  /\ bash /\ {"sh", "bash"} \subseteq shells
                      /\ HasRoot("passwd") =>
                           RootValue("passwd") \in {"bash", Cut} \cup
                             (IF "passwd" \in torn THEN {"part"} ELSE {})
    BY DEF BashStaysRootShell
  <2>1. bash /\ {"sh", "bash"} \subseteq shells
    BY <1>1 DEF IInv, BashInv
  <2>2. ASSUME HasRoot("passwd")
        PROVE  RootValue("passwd") \in {"bash", Cut} \cup
                 (IF "passwd" \in torn THEN {"part"} ELSE {})
    <3> DEFINE ls == etc["passwd"].lines
    <3>1. etc["passwd"] # Absent /\ RootLine(ls) # 0 /\ "passwd" \in File
      BY <2>2 DEF HasRoot, File
    <3>2. Text("passwd") = ls /\ ls \in Lines("passwd")
      BY <1>1, <3>1, TextIsLines DEF Text, Writing, IInv
    <3>3. RootOf(ls) \in {"bash", "part", Cut}
      BY <1>1, <3>1, <3>2 DEF IInv, BashInv, BashRoot
    <3>4. "passwd" \notin torn => Whole(ls)
      BY <1>1, <3>1, <3>2 DEF IInv, PasswdInv
    <3>5. RootLine(ls) \in DOMAIN ls
      BY <3>1, <3>2, RootLineFacts, UsersFacts
    <3>6. "passwd" \notin torn => RootOf(ls) \in {"sh", "bash"}
      BY <3>4, <3>5 DEF Whole, RootOf
    <3>7. RootValue("passwd") = RootOf(ls)
      BY DEF RootValue, RootOf
    <3> QED BY <3>3, <3>6, <3>7, UserAssumption
  <2> QED BY <2>1, <2>2
<1> QED BY <1>1, Invariant, PTL

\* A run of `baker passwd` that ends has set this run's hash in a private
\* shadow file and left root a line in a readable passwd, whatever earlier
\* runs had left unfinished (password.py:50-60).
THEOREM PasswdSetsRootLine == Spec => PasswdSetsRoot
<1> DEFINE Result ==
      /\ HasRoot("shadow")' /\ RootValue("shadow")' = runs
      /\ etc'["shadow"].mode = "600"
      /\ HasRoot("passwd")'
      /\ "passwd" \notin torn =>
            RootValue("passwd")' = PreferredShell /\ etc'["passwd"].mode = "644"
      /\ RootValue("passwd")' \in {PreferredShell, Cut}
<1>1. ASSUME IInv, PasswdStep, pc' = "idle" PROVE Result
  <2>1. "passwd" \in File /\ "shadow" \in File /\ File = {"passwd", "shadow"}
    BY DEF File
  <2>2. CASE PasswdIsThere
    <3>1. pc = "passwd" /\ PasswdIsRight /\ etc' = etc
      BY <2>2 DEF PasswdIsThere, sysroot
    <3>2. /\ etc["shadow"] # Absent /\ RootLine(etc["shadow"].lines) # 0
          /\ RootOf(etc["shadow"].lines) = runs /\ etc["shadow"].mode = "600"
      BY <1>1, <3>1 DEF IInv, SetInv, Text, Writing
    <3>3. /\ etc["passwd"] # Absent /\ RootLine(etc["passwd"].lines) # 0
          /\ RootOf(etc["passwd"].lines) \in {PreferredShell, Cut}
      BY <3>1 DEF PasswdIsRight, RootOf
    <3>4. ASSUME "passwd" \notin torn
          PROVE  RootOf(etc["passwd"].lines) = PreferredShell /\ etc["passwd"].mode = "644"
      <4> DEFINE ls == etc["passwd"].lines
      <4>1. Text("passwd") = ls /\ ls \in Lines("passwd")
        BY <1>1, <2>1, <3>1, <3>3, TextIsLines DEF Text, Writing, IInv
      <4>2. Whole(ls) /\ etc["passwd"].mode = "644"
        BY <1>1, <3>1, <3>3, <3>4, <4>1 DEF IInv, PasswdInv, Rewriting
      <4>3. RootLine(ls) \in DOMAIN ls
        BY <2>1, <3>3, <4>1, RootLineFacts, UsersFacts
      <4>4. RootOf(ls) \in {"sh", "bash"}
        BY <4>2, <4>3 DEF Whole, RootOf
      <4> QED BY <3>3, <4>2, <4>4, UserAssumption
    <3> QED BY <3>1, <3>2, <3>3, <3>4 DEF HasRoot, RootValue, RootOf
  <2>3. CASE SetMode
    <3>1. /\ pc = "chmod" /\ file = "passwd"
          /\ etc' = [etc EXCEPT ![file].mode = "644"]
          /\ UNCHANGED <<shells, bash, file, buffer, runs, history>>
      BY <1>1, <2>1, <2>3 DEF SetMode, IInv, TypeOK
    <3>2. /\ etc'["shadow"] = etc["shadow"] /\ etc'["passwd"].mode = "644"
          /\ etc'["passwd"] # Absent
          /\ Text("passwd")' = Text("passwd")
      BY <1>1, <2>1, <3>1, ModeFacts DEF IInv, FilesInv, Rewriting
    <3>3. etc'["passwd"].lines = Text("passwd")
      BY <1>1, <3>1, <3>2 DEF Text, Writing
    <3>4. /\ etc["shadow"] # Absent /\ RootLine(etc["shadow"].lines) # 0
          /\ RootOf(etc["shadow"].lines) = runs /\ etc["shadow"].mode = "600"
      BY <1>1, <3>1 DEF IInv, SetInv, Text, Rewriting, Writing
    <3>5. RootLine(Text("passwd")) # 0 /\ RootOf(Text("passwd")) = PreferredShell
      BY <1>1, <3>1 DEF IInv, SetInv, Wanted, Rewriting
    <3> QED BY <3>2, <3>3, <3>4, <3>5 DEF HasRoot, RootValue, RootOf
  <2>4. PasswdIsThere \/ SetMode
    BY <1>1 DEF PasswdStep, UpdateShadow, EnsurePasswd, Truncate, Write, MakePrivate
  <2> QED BY <2>2, <2>3, <2>4
<1>2. IInv /\ [Next]_vars => [PasswdStep /\ pc' = "idle" => Result]_vars
  BY <1>1
<1> QED BY <1>2, Invariant, PTL DEF PasswdSetsRoot, Spec
=============================================================================
