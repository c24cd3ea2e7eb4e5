---------------------------- MODULE Image_proofs ----------------------------
(***************************************************************************)
(* Proofs about what is in an image.  The list of services, which claw and *)
(* the other recipes write into its sysroot (ClawUnits): it is complete,   *)
(* for every set of recipes and units, every order of rebuilds and any     *)
(* number of interruptions.  And the reader of images (BlueyFS): what it   *)
(* extracts is what is there, for every size of blocks, records and        *)
(* pointers, every sound image and every list of paths.                    *)
(***************************************************************************)
EXTENDS ClawUnits, BlueyFS, SequenceTheorems, WellFoundedInduction, TLAPS

-----------------------------------------------------------------------------
(***************************************************************************)
(* Lines that are appended and lines that are cut off.                     *)
(***************************************************************************)

\* What Append adds to the elements of a sequence, and that it keeps a
\* sequence without repetitions free of them (lines.append in claw.py:198).
LEMMA AppendFacts ==
    ASSUME NEW S, NEW s \in Seq(S), NEW e \in S
    PROVE  /\ Append(s, e) \in Seq(S)
           /\ ToSet(Append(s, e)) = ToSet(s) \cup {e}
           /\ IsInjective(s) /\ e \notin ToSet(s) => IsInjective(Append(s, e))
<1> DEFINE t == Append(s, e)
<1>1. /\ t \in Seq(S) /\ Len(t) = Len(s) + 1
      /\ \A i \in 1 .. Len(s) : t[i] = s[i]
      /\ t[Len(s) + 1] = e
  BY AppendProperties
<1>2. /\ DOMAIN s = 1 .. Len(s) /\ DOMAIN t = 1 .. Len(s) + 1 /\ Len(s) \in Nat
  BY <1>1, LenProperties
<1>3. ToSet(t) = ToSet(s) \cup {e}
  <2>1. ToSet(t) \subseteq ToSet(s) \cup {e}
    BY <1>1, <1>2 DEF ToSet
  <2>2. ToSet(s) \subseteq ToSet(t)
    BY <1>1, <1>2 DEF ToSet
  <2>3. e \in ToSet(t)
    <3>1. Len(s) + 1 \in DOMAIN t
      BY <1>2
    <3> QED BY <1>1, <3>1 DEF ToSet
  <2> QED BY <2>1, <2>2, <2>3
<1>4. IsInjective(s) /\ e \notin ToSet(s) => IsInjective(t)
  BY <1>1, <1>2 DEF ToSet, IsInjective
<1> QED BY <1>1, <1>3, <1>4

\* The beginning of a sequence without repetitions has none.
LEMMA CutFacts ==
    ASSUME NEW S, NEW s \in Seq(S), NEW n \in 0 .. Len(s) - 1
    PROVE  /\ SubSeq(s, 1, n) \in Seq(S)
           /\ IsInjective(s) => IsInjective(SubSeq(s, 1, n))
<1>1. /\ SubSeq(s, 1, n) \in Seq(S)
      /\ Len(SubSeq(s, 1, n)) = n
      /\ \A i \in 1 .. n : SubSeq(s, 1, n)[i] = s[i]
  BY SubSeqProperties, LenProperties
<1>2. DOMAIN SubSeq(s, 1, n) = 1 .. n /\ DOMAIN s = 1 .. Len(s) /\ Len(s) \in Nat
  BY <1>1, LenProperties
<1> QED BY <1>1, <1>2 DEF IsInjective

-----------------------------------------------------------------------------
(***************************************************************************)
(* The inductive invariant.                                                *)
(***************************************************************************)

\* What is known at each point of an install.
PhaseInv ==
    /\ pc = "merging" => todo \subseteq Payload(who)
    /\ pc = "merging" /\ who = Claw =>
          /\ Manifest \notin todo => lines # Absent
          /\ Units[Claw] \subseteq present \cup todo
    /\ pc = "appending" =>
          /\ who \in Registers \cup {Claw}
          /\ lines # Absent
          /\ ToSet(lines) \subseteq ToSet(buffer)
          /\ todo \subseteq Unit
          /\ Desired(who) \subseteq ToSet(buffer) \cup todo
          /\ who = Claw => Units[Claw] \subseteq present

\* Neither the file nor the buffer lists a unit twice.
InjectiveInv ==
    /\ NoDuplicates
    /\ pc = "appending" => IsInjective(buffer)

\* While nothing is lost, claw's own units are registered even if they are
\* not in the sysroot, and the units of every other finished recipe are.
RegisteredInv ==
    lines # Absent /\ ~ lost =>
        /\ Units[Claw] \subseteq Registered
        /\ \A r \in Registers \ (Scattered \cup partial) :
              (pc = "idle" \/ r # who) => Units[r] \cap present \subseteq Registered

IInv == TypeOK /\ PhaseInv /\ InjectiveInv /\ RegisteredInv

\* The invariant says what the model checker was asked.
LEMMA InvariantImplies == IInv => InstalledAreRegistered
BY DEF IInv, RegisteredInv, InstalledAreRegistered

-----------------------------------------------------------------------------

LEMMA TypeInit == Init => TypeOK
<1>1. <<>> \in Seq(Unit)
  BY EmptySeq
<1> SUFFICES ASSUME Init PROVE TypeOK
  OBVIOUS
<1>2. present \in SUBSET Unit /\ todo \in SUBSET (Unit \cup {Manifest}) /\ partial \in SUBSET Recipe
  BY DEF Init
<1>3. buffer \in Seq(Unit) /\ lines \in Seq(Unit) \cup {Absent}
  BY <1>1 DEF Init
<1>4. stops \in 0 .. MaxStops /\ who \in Recipe
  BY RecipeAssumption DEF Init
<1>5. lost \in BOOLEAN
  BY Zenon DEF Init
<1>6. pc \in {"idle", "merging", "appending"}
  BY DEF Init
<1> QED BY <1>2, <1>3, <1>4, <1>5, <1>6 DEF TypeOK

LEMMA TypeNext == TypeOK /\ [Next]_vars => TypeOK'
<1> SUFFICES ASSUME TypeOK, [Next]_vars PROVE TypeOK'
  OBVIOUS
<1> USE RecipeAssumption, StockAssumption DEF TypeOK
<1>1. ASSUME NEW r \in Recipe, Start(r) PROVE TypeOK'
  BY <1>1 DEF Start, Payload, sysroot, history
<1>2. ASSUME NEW f \in Unit \cup {Manifest}, Merge(f) PROVE TypeOK'
  BY <1>2 DEF Merge
<1>3. CASE SkipRegistration
  BY <1>3 DEF SkipRegistration, EndOf, sysroot, local
<1>4. CASE Read
  BY <1>4 DEF Read, Desired, sysroot, history
<1>5. ASSUME NEW u \in Unit, AppendMissing(u) PROVE TypeOK'
  <2>1. buffer' \in Seq(Unit)
    BY <1>5, AppendFacts DEF AppendMissing
  <2> QED BY <1>5, <2>1 DEF AppendMissing, sysroot, history
<1>6. CASE Register
  BY <1>6 DEF Register, EndOf, local
<1>7. CASE Stop
  <2>1. present' \in SUBSET Unit /\ lost' \in BOOLEAN
    BY <1>7 DEF Stop, Torn, sysroot
  <2>2. lines' \in Seq(Unit) \cup {Absent}
    BY <1>7, CutFacts DEF Stop, Torn, sysroot
  <2> QED BY <1>7, <2>1, <2>2 DEF Stop, local
<1>8. CASE UNCHANGED vars
  BY <1>8 DEF vars, sysroot, local, history
<1> QED BY <1>1, <1>2, <1>3, <1>4, <1>5, <1>6, <1>7, <1>8 DEF Next, Step

-----------------------------------------------------------------------------

LEMMA PhaseNext == TypeOK /\ PhaseInv /\ [Next]_vars => PhaseInv'
<1> SUFFICES ASSUME TypeOK, PhaseInv, [Next]_vars PROVE PhaseInv'
  OBVIOUS
<1> USE RecipeAssumption, StockAssumption DEF TypeOK, PhaseInv
<1>1. ASSUME NEW r \in Recipe, Start(r) PROVE PhaseInv'
  BY <1>1 DEF Start, Payload, sysroot, history
<1>2. ASSUME NEW f \in Unit \cup {Manifest}, Merge(f) PROVE PhaseInv'
  BY <1>2 DEF Merge
<1>3. CASE SkipRegistration
  BY <1>3 DEF SkipRegistration, EndOf, sysroot, local
<1>4. CASE Read
  BY <1>4 DEF Read, Desired, sysroot, history
<1>5. ASSUME NEW u \in Unit, AppendMissing(u) PROVE PhaseInv'
  <2>1. ToSet(buffer') = ToSet(buffer) \cup {u}
    BY <1>5, AppendFacts DEF AppendMissing
  <2> QED BY <1>5, <2>1 DEF AppendMissing, Desired, sysroot, history
<1>6. CASE Register
  BY <1>6 DEF Register, EndOf, local
<1>7. CASE Stop
  BY <1>7 DEF Stop
<1>8. CASE UNCHANGED vars
  BY <1>8 DEF vars, sysroot, local, history, Desired
<1> QED BY <1>1, <1>2, <1>3, <1>4, <1>5, <1>6, <1>7, <1>8 DEF Next, Step

LEMMA InjectiveNext == TypeOK /\ InjectiveInv /\ [Next]_vars => InjectiveInv'
<1> SUFFICES ASSUME TypeOK, InjectiveInv, [Next]_vars PROVE InjectiveInv'
  OBVIOUS
<1> USE StockAssumption DEF TypeOK, InjectiveInv, NoDuplicates
<1>1. ASSUME NEW r \in Recipe, Start(r) PROVE InjectiveInv'
  BY <1>1 DEF Start, sysroot
<1>2. ASSUME NEW f \in Unit \cup {Manifest}, Merge(f) PROVE InjectiveInv'
  BY <1>2 DEF Merge
<1>3. CASE SkipRegistration
  BY <1>3 DEF SkipRegistration, EndOf, sysroot
<1>4. CASE Read
  BY <1>4 DEF Read, sysroot
<1>5. ASSUME NEW u \in Unit, AppendMissing(u) PROVE InjectiveInv'
  <2>1. IsInjective(buffer')
    BY <1>5, AppendFacts DEF AppendMissing
  <2> QED BY <1>5, <2>1 DEF AppendMissing, sysroot
<1>6. CASE Register
  BY <1>6 DEF Register, EndOf
<1>7. CASE Stop
  <2>1. CASE pc = "appending" /\ \E n \in 0 .. Len(buffer) - 1 : lines' = SubSeq(buffer, 1, n)
    BY <1>7, <2>1, CutFacts DEF Stop
  <2>2. CASE lines' \in {lines, Absent}
    BY <1>7, <2>2 DEF Stop
  <2> QED BY <1>7, <2>1, <2>2 DEF Stop, Torn, sysroot
<1>8. CASE UNCHANGED vars
  BY <1>8 DEF vars, sysroot, local
<1> QED BY <1>1, <1>2, <1>3, <1>4, <1>5, <1>6, <1>7, <1>8 DEF Next, Step

-----------------------------------------------------------------------------

LEMMA RegisteredNext ==
    TypeOK /\ PhaseInv /\ RegisteredInv /\ [Next]_vars => RegisteredInv'
<1> SUFFICES ASSUME TypeOK, PhaseInv, RegisteredInv, [Next]_vars PROVE RegisteredInv'
  OBVIOUS
<1> USE RecipeAssumption DEF TypeOK, RegisteredInv, Registered
<1>1. ASSUME NEW r \in Recipe, Start(r) PROVE RegisteredInv'
  BY <1>1 DEF Start, sysroot, history
\* The file merged is a unit of the recipe being installed; if it is one of
\* another recipe too, it is one of claw's, and those are registered.
<1>2. ASSUME NEW f \in Unit \cup {Manifest}, Merge(f) PROVE RegisteredInv'
  <2>1. CASE f = Manifest
    BY <1>2, <2>1 DEF Merge
  <2>2. CASE f # Manifest
    <3>1. f \in Units[who] /\ present' = present \cup {f} /\ pc # "idle"
      BY <1>2, <2>2 DEF Merge, PhaseInv, Payload
    <3>2. UNCHANGED <<lines, lost, partial, who, pc>>
      BY <1>2, <2>2 DEF Merge
    <3>3. ASSUME lines # Absent, ~ lost,
                 NEW r \in Registers \ (Scattered \cup partial), r # who
          PROVE  Units[r] \cap present' \subseteq Registered
      <4>1. Units[r] \cap present \subseteq Registered
        BY <3>3
      <4>2. f \in Units[r] => f \in Units[Claw]
        BY <3>1, <3>3, SharingAssumption
      <4>3. Units[Claw] \subseteq Registered
        BY <3>3
      <4> QED BY <3>1, <4>1, <4>2, <4>3
    <3> QED BY <3>1, <3>2, <3>3
  <2> QED BY <2>1, <2>2
<1>3. CASE SkipRegistration
  BY <1>3 DEF SkipRegistration, EndOf, sysroot, local, PhaseInv
<1>4. CASE Read
  BY <1>4 DEF Read, sysroot, history
<1>5. ASSUME NEW u \in Unit, AppendMissing(u) PROVE RegisteredInv'
  BY <1>5 DEF AppendMissing, sysroot, history
<1>6. CASE Register
  <2>1. /\ lines' = buffer /\ lines # Absent /\ present' = present /\ who' = who
        /\ ToSet(lines) \subseteq ToSet(buffer)
        /\ Desired(who) \subseteq ToSet(buffer)
        /\ lost' = (lost /\ who # Claw) /\ partial' = partial \ {who}
    BY <1>6 DEF Register, EndOf, local, PhaseInv
  <2>2. CASE who = Claw
    BY <1>6, <2>1, <2>2 DEF Register, Desired, PhaseInv
  <2>3. CASE who # Claw
    <3>1. lost' = lost
      BY <2>1, <2>3
    <3>2. Units[who] \subseteq ToSet(buffer)
      BY <2>1, <2>3 DEF Desired
    <3> QED BY <2>1, <3>1, <3>2
  <2> QED BY <2>2, <2>3
<1>7. CASE Stop
  <2>1. CASE UNCHANGED lines /\ UNCHANGED lost /\ present' \subseteq present
    BY <1>7, <2>1 DEF Stop, local
  <2>2. CASE lost' = TRUE
    BY <2>2
  <2> QED BY <1>7, <2>1, <2>2 DEF Stop, Torn, sysroot
<1>8. CASE UNCHANGED vars
  BY <1>8 DEF vars, sysroot, local, history
<1> QED BY <1>1, <1>2, <1>3, <1>4, <1>5, <1>6, <1>7, <1>8 DEF Next, Step

-----------------------------------------------------------------------------
(***************************************************************************)
(* The theorems.                                                           *)
(***************************************************************************)

LEMMA InvariantInit == Init => IInv
BY TypeInit DEF Init, IInv, PhaseInv, InjectiveInv, NoDuplicates, RegisteredInv

\* What is known about sysroot, manifest and buffer is inductive, for every
\* set of recipes and units and any number of interrupted installs.
THEOREM InductiveInvariant == Spec => []IInv
<1>1. IInv /\ [Next]_vars => IInv'
  BY TypeNext, PhaseNext, InjectiveNext, RegisteredNext DEF IInv
<1> QED BY InvariantInit, <1>1, PTL DEF Spec

\* The variables have their types whatever is rebuilt and interrupted.
THEOREM UnitsTyped == Spec => []TypeOK
BY InductiveInvariant, PTL DEF IInv

\* claw may be rebuilt over the manifest at any time: what was installed to
\* the end stays registered (_merge_units_manifest, _update_claw_manifest).
THEOREM InstalledStayRegistered == Spec => []InstalledAreRegistered
BY InductiveInvariant, InvariantImplies, PTL

\* No rebuild and no interruption makes the manifest list a unit twice.
THEOREM ManifestHasNoDuplicates == Spec => []NoDuplicates
BY InductiveInvariant, PTL DEF IInv, InjectiveInv

\* An install of claw that ends leaves no unit of the sysroot unregistered.
THEOREM ClawAlwaysRepairs == Spec => ClawRepairs
<1>1. ASSUME IInv, [Next]_vars,
             pc # "idle", pc' = "idle", who = Claw, Claw \notin partial'
      PROVE  lines' # Absent /\ present' \subseteq ToSet(lines')
  <2> USE <1>1, RecipeAssumption DEF IInv, PhaseInv, TypeOK
  <2>1. CASE SkipRegistration
    BY <2>1 DEF SkipRegistration
  <2>2. CASE Register
    BY <2>2, StockAssumption DEF Register, Desired
  <2>3. CASE Stop
    BY <2>3 DEF Stop
  <2>4. ASSUME NEW f \in Unit \cup {Manifest}, Merge(f) PROVE FALSE
    BY <2>4 DEF Merge
  <2>5. ASSUME NEW u \in Unit, AppendMissing(u) PROVE FALSE
    BY <2>5 DEF AppendMissing
  <2>6. ASSUME NEW r \in Recipe, Start(r) PROVE FALSE
    BY <2>6 DEF Start
  <2>7. ~ Read /\ ~ UNCHANGED vars
    BY DEF Read, vars
  <2> QED BY <2>1, <2>2, <2>3, <2>4, <2>5, <2>6, <2>7 DEF Next, Step
<1>2. IInv /\ [Next]_vars =>
        [pc # "idle" /\ pc' = "idle" /\ who = Claw /\ Claw \notin partial'
           => lines' # Absent /\ present' \subseteq ToSet(lines')]_vars
  BY <1>1
<1> QED BY InductiveInvariant, <1>2, PTL DEF Spec, ClawRepairs

-----------------------------------------------------------------------------
(***************************************************************************)
(* Numbers.                                                                *)
(***************************************************************************)

\* Multiplication keeps order.
LEMMA TimesLess ==
    ASSUME NEW b \in Nat \ {0}, NEW i \in Nat, NEW n \in Nat
    PROVE  /\ i * b \in Nat
           /\ i < n => (i + 1) * b <= n * b
           /\ i * b < n * b <=> i < n
           /\ (i + 1) * b = i * b + b
<1>1. i * b \in Nat /\ n * b \in Nat /\ (i + 1) * b = i * b + b
  OBVIOUS
<1>2. \A x, y \in Nat : x < y => (x + 1) * b <= y * b
  OBVIOUS
<1>3. i < n => (i + 1) * b <= n * b
  BY <1>2
<1>4. n <= i => n * b <= i * b
  BY <1>2
<1> QED BY <1>1, <1>3, <1>4

\* Quotient and remainder of a position.
LEMMA QuotientIs ==
    ASSUME NEW b \in Nat \ {0}, NEW i \in Nat, NEW o \in 0 .. b - 1
    PROVE  (i * b + o) \div b = i /\ (i * b + o) % b = o
<1> DEFINE x == i * b + o
           q == x \div b
           r == x % b
<1>1. x \in Nat
  OBVIOUS
<1>2. q \in Nat /\ r \in 0 .. b - 1 /\ x = q * b + r
  <2> HIDE DEF x
  <2> QED BY <1>1
<1>3. i * b + o = q * b + r
  BY <1>2
<1> HIDE DEF x, q, r
<1>4. ~(i < q)
  BY <1>2, <1>3, TimesLess
<1>5. ~(q < i)
  BY <1>2, <1>3, TimesLess
<1>6. i = q
  BY <1>2, <1>4, <1>5
<1>7. o = r
  BY <1>1, <1>2, <1>3, <1>6
<1> QED BY <1>6, <1>7 DEF x, q, r

\* A division that rounds up counts the blocks that begin before an end.
LEMMA RoundedUp ==
    ASSUME NEW b \in Nat \ {0}, NEW size \in Nat
    PROVE  /\ (size + b - 1) \div b \in Nat
           /\ \A i \in Nat : i < (size + b - 1) \div b <=> i * b < size
<1> DEFINE x == size + b - 1
           q == x \div b
           r == x % b
<1>1. x \in Nat
  OBVIOUS
<1>2. q \in Nat /\ r \in 0 .. b - 1 /\ x = q * b + r
  <2> HIDE DEF x
  <2> QED BY <1>1
<1>3. x = size + b - 1
  OBVIOUS
<1> HIDE DEF x, q, r
<1>4. ASSUME NEW i \in Nat PROVE i < q <=> i * b < size
  <2>1. i * b \in Nat /\ q * b \in Nat /\ (i < q => i * b + b <= q * b)
    BY <1>2, TimesLess
  <2>2. ~(i < q) => q * b <= i * b
    BY <1>2, TimesLess
  <2> QED BY <1>2, <1>3, <2>1, <2>2
<1> QED BY <1>2, <1>4 DEF x, q

-----------------------------------------------------------------------------
(***************************************************************************)
(* Sequences.                                                              *)
(***************************************************************************)

\* A sequence is its front and its last element.
LEMMA FrontLast ==
    ASSUME NEW S, NEW s \in Seq(S), s # <<>>
    PROVE  /\ Front(s) \in Seq(S) /\ Last(s) \in S
           /\ Len(s) \in Nat \ {0} /\ Len(Front(s)) = Len(s) - 1
           /\ \A i \in 1 .. Len(s) - 1 : Front(s)[i] = s[i]
           /\ s = Append(Front(s), Last(s))
<1>1. Len(s) \in Nat \ {0}
  OBVIOUS
<1>2. Front(s) \in Seq(S) /\ Len(Front(s)) = Len(s) - 1 /\ \A i \in 1 .. Len(s) - 1 : Front(s)[i] = s[i]
  <2> DEFINE n == Len(s) - 1
  <2>1. n \in Nat /\ \A i \in 1 .. n : s[i] \in S
    BY <1>1
  <2> HIDE DEF n
  <2>2. /\ SubSeq(s, 1, n) \in Seq(S) /\ Len(SubSeq(s, 1, n)) = IF 1 <= n THEN n - 1 + 1 ELSE 0
        /\ \A i \in 1 .. n - 1 + 1 : SubSeq(s, 1, n)[i] = s[1 + i - 1]
    BY <2>1, SubSeqProperties
  <2>3. Len(SubSeq(s, 1, n)) = n /\ \A i \in 1 .. n : SubSeq(s, 1, n)[i] = s[i]
    <3>1. \A i \in 1 .. n : 1 + i - 1 = i /\ n - 1 + 1 = n
      BY <2>1
    <3> QED BY <2>1, <2>2, <3>1
  <2> QED BY <2>2, <2>3 DEF Front, n
<1>3. Last(s) \in S
  BY <1>1 DEF Last
<1>4. s = Append(Front(s), Last(s))
  <2>1. Len(Append(Front(s), Last(s))) = Len(s) /\ Append(Front(s), Last(s)) \in Seq(S)
    BY <1>1, <1>2, <1>3
  <2>2. ASSUME NEW i \in 1 .. Len(s) PROVE Append(Front(s), Last(s))[i] = s[i]
    BY <1>1, <1>2, <1>3 DEF Last
  <2> QED BY <2>1, <2>2, SeqEqual
<1> QED BY <1>1, <1>2, <1>3, <1>4

\* What is appended is last.
LEMMA FrontAppend ==
    ASSUME NEW S, NEW s \in Seq(S), NEW e
    PROVE  /\ Last(Append(s, e)) = e
           /\ Len(Append(s, e)) = Len(s) + 1 /\ Len(s) \in Nat
           /\ \A i \in 1 .. Len(s) : Append(s, e)[i] = s[i]
           /\ Append(s, e) # <<>>
           /\ e \in S => Front(Append(s, e)) = s
<1>1. Len(Append(s, e)) = Len(s) + 1 /\ Len(s) \in Nat /\ Append(s, e)[Len(s) + 1] = e
  OBVIOUS
<1>2. \A i \in 1 .. Len(s) : Append(s, e)[i] = s[i]
  OBVIOUS
<1>3. ASSUME e \in S PROVE Front(Append(s, e)) = s
  <2>1. Append(s, e) \in Seq(S) /\ Append(s, e) # <<>>
    BY <1>1, <1>3
  <2> DEFINE t == Append(s, e)
  <2>2. t \in Seq(S) /\ t # <<>> /\ Len(t) - 1 = Len(s) /\ \A i \in 1 .. Len(s) : t[i] = s[i]
    BY <1>1, <1>2, <2>1
  <2> HIDE DEF t
  <2>3. Front(t) \in Seq(S) /\ Len(Front(t)) = Len(s) /\ \A i \in 1 .. Len(s) : Front(t)[i] = t[i]
    BY <2>2, FrontLast
  <2>4. Front(t) = s
    BY <2>2, <2>3, SeqEqual
  <2> QED BY <2>4 DEF t
<1>4. Append(s, e) # <<>>
  BY <1>1
<1> QED BY <1>1, <1>2, <1>3, <1>4 DEF Last

\* A prefix is one element by element.
LEMMA PrefixIs ==
    ASSUME NEW S, NEW s \in Seq(S), NEW t \in Seq(S)
    PROVE  IsPrefix(s, t) <=> Len(s) <= Len(t) /\ \A i \in 1 .. Len(s) : s[i] = t[i]
<1>1. Len(s) \in Nat /\ Len(t) \in Nat
  OBVIOUS
<1>2. SubSeq(s, 1, Len(s)) = s
  BY SubSeqFull
<1>3. ASSUME Len(s) <= Len(t)
      PROVE  SubSeq(t, 1, Len(s)) \in Seq(S) /\ Len(SubSeq(t, 1, Len(s))) = Len(s)
             /\ \A i \in 1 .. Len(s) : SubSeq(t, 1, Len(s))[i] = t[i]
  BY <1>1, <1>3, SubSeqProperties
<1>4. ASSUME Len(s) <= Len(t), \A i \in 1 .. Len(s) : s[i] = t[i]
      PROVE  s = SubSeq(t, 1, Len(s))
  BY <1>3, <1>4, SeqEqual
<1> QED BY <1>2, <1>3, <1>4 DEF IsPrefix

\* Every sequence is a prefix of itself and of its extensions.
LEMMA PrefixFacts ==
    ASSUME NEW S, NEW s \in Seq(S), NEW t \in Seq(S), NEW e \in S
    PROVE  /\ IsPrefix(s, s) /\ IsPrefix(s, Append(s, e))
           /\ IsPrefix(s, t) => IsPrefix(s, Append(t, e))
           /\ IsPrefix(Append(s, e), t) => IsPrefix(s, t)
           /\ Len(t) = Len(s) /\ IsPrefix(s, t) => s = t
           /\ Len(s) < Len(t) /\ IsPrefix(s, t) =>
                 t[Len(s) + 1] \in S /\ IsPrefix(Append(s, t[Len(s) + 1]), t)
<1> DEFINE u == Append(s, e)
           v == Append(t, e)
<1>0. Len(s) \in Nat /\ Len(t) \in Nat
  OBVIOUS
<1>a. /\ u \in Seq(S) /\ Len(u) = Len(s) + 1 /\ \A i \in 1 .. Len(s) : u[i] = s[i]
      /\ v \in Seq(S) /\ Len(v) = Len(t) + 1 /\ \A i \in 1 .. Len(t) : v[i] = t[i]
  OBVIOUS
<1> HIDE DEF u, v
<1>b. \A x, y \in Seq(S) : IsPrefix(x, y) <=> Len(x) <= Len(y) /\ \A i \in 1 .. Len(x) : x[i] = y[i]
  BY PrefixIs
<1>1. IsPrefix(s, s) /\ IsPrefix(s, u)
  BY <1>0, <1>a, <1>b
<1>2. ASSUME IsPrefix(s, t) PROVE IsPrefix(s, v)
  BY <1>0, <1>2, <1>a, <1>b
<1>3. ASSUME IsPrefix(u, t) PROVE IsPrefix(s, t)
  BY <1>0, <1>3, <1>a, <1>b
<1>4. ASSUME Len(t) = Len(s), IsPrefix(s, t) PROVE s = t
  BY <1>4, PrefixIs, SeqEqual
<1>5. ASSUME Len(s) < Len(t), IsPrefix(s, t)
      PROVE  t[Len(s) + 1] \in S /\ IsPrefix(Append(s, t[Len(s) + 1]), t)
  <2> DEFINE x == t[Len(s) + 1]
  <2>1. x \in S
    BY <1>0, <1>5
  <2>2. \A i \in 1 .. Len(s) : s[i] = t[i]
    BY <1>5, PrefixIs
  <2>3. Append(s, x) \in Seq(S) /\ Len(Append(s, x)) = Len(s) + 1 /\ Append(s, x)[Len(s) + 1] = x
        /\ \A i \in 1 .. Len(s) : Append(s, x)[i] = s[i]
    BY <1>0, <2>1
  <2>4. \A i \in 1 .. Len(s) + 1 : Append(s, x)[i] = t[i]
    BY <1>0, <2>2, <2>3
  <2>5. IsPrefix(Append(s, x), t)
    <3> DEFINE w == Append(s, x)
    <3>1. w \in Seq(S) /\ Len(w) = Len(s) + 1 /\ \A i \in 1 .. Len(s) + 1 : w[i] = t[i]
      BY <2>3, <2>4
    <3> HIDE DEF w
    <3>2. IsPrefix(w, t)
      BY <1>0, <1>5, <1>b, <3>1
    <3> QED BY <3>2 DEF w
  <2> QED BY <2>1, <2>5
<1> QED BY <1>1, <1>2, <1>3, <1>4, <1>5 DEF u, v

-----------------------------------------------------------------------------
(***************************************************************************)
(* The reader finds inodes and blocks where they were put, at every        *)
(* boundary between groups, tables and levels of pointers.                 *)
(***************************************************************************)

\* read_inode finds the inode with a number.
LEMMA InodeFound ==
    ASSUME Sound(image), NEW n \in DOMAIN image.inodes
    PROVE  Inode(n) = image.inodes[n] /\ image.inodes[n] # Error
<1>0. /\ InodesPerGroup \in Nat \ {0} /\ InodesPerBlock \in Nat \ {0} /\ BlocksPerGroup \in Nat \ {0}
      /\ image.inodeCount \in Nat /\ image.blockCount \in Nat
      /\ n \in 1 .. image.inodeCount /\ DOMAIN image.tables \subseteq Nat
  BY SizeAssumption DEF Sound, InodesInPlace
<1>1. PICK g \in DOMAIN image.tables, b \in 0 .. InodesPerGroup - 1, slot \in 0 .. InodesPerBlock - 1 :
           /\ n = g * InodesPerGroup + b * InodesPerBlock + slot + 1
           /\ b * InodesPerBlock + slot < InodesPerGroup
           /\ g * BlocksPerGroup < image.blockCount
           /\ image.disk[image.tables[g] + b][slot] = image.inodes[n]
  BY DEF Sound, InodesInPlace
<1> DEFINE l == b * InodesPerBlock + slot
<1>2. g \in Nat /\ b \in Nat /\ slot \in Nat /\ b * InodesPerBlock \in Nat /\ g * InodesPerGroup \in Nat
  BY <1>0, <1>1
<1>3. l \in 0 .. InodesPerGroup - 1 /\ n - 1 = g * InodesPerGroup + l
  BY <1>0, <1>1, <1>2
<1>4. l \div InodesPerBlock = b /\ l % InodesPerBlock = slot
  BY <1>0, <1>2, QuotientIs
<1> HIDE DEF l
<1>5. (n - 1) \div InodesPerGroup = g /\ (n - 1) % InodesPerGroup = l
  <2>1. (g * InodesPerGroup + l) \div InodesPerGroup = g /\ (g * InodesPerGroup + l) % InodesPerGroup = l
    BY <1>0, <1>2, <1>3, QuotientIs
  <2> QED BY <1>3, <2>1
<1>6. NumGroups \in Nat /\ g < NumGroups
  BY <1>0, <1>1, <1>2, RoundedUp DEF NumGroups
<1>7. ~(n = 0 \/ n > image.inodeCount \/ g >= NumGroups)
  BY <1>0, <1>2, <1>6
<1>8. Inode(n) = image.disk[image.tables[g] + b][slot]
  BY <1>4, <1>5, <1>7 DEF Inode
<1>9. image.inodes[n] # Error
  BY DEF Sound, BlocksInPlace
<1> QED BY <1>1, <1>8, <1>9

\* The numbers involved.
LEMMA SizeFacts ==
    /\ BlockSize \in Nat \ {0} /\ Header \in 1 .. BlockSize
    /\ NDirect \in Nat /\ PointersPerBlock \in Nat \ {0}
    /\ PointersPerBlock * PointersPerBlock \in Nat /\ Addressable \in Nat
BY SizeAssumption DEF Addressable

LEMMA GivenBlocks ==
    ASSUME NEW im, Sound(im), NEW n \in DOMAIN im.inodes
    PROVE  /\ im.inodes[n].size \in Nat /\ im.inodes[n] # Error
           /\ DOMAIN im.blocks[n] = {i \in 0 .. Addressable - 1 : i * BlockSize < im.inodes[n].size}
           /\ DOMAIN im.blocks[n] \subseteq Nat
<1>1. BlocksInPlace(im, n)
  BY DEF Sound
<1>2. im.inodes[n].size \in Nat /\ im.inodes[n] # Error
      /\ DOMAIN im.blocks[n] = {i \in 0 .. Addressable - 1 : i * BlockSize < im.inodes[n].size}
  BY <1>1 DEF BlocksInPlace
<1> QED BY <1>2, SizeFacts

\* inode_block finds the i-th block of a file, up to the last one that can be
\* addressed.
LEMMA BlockFound ==
    ASSUME Sound(image), NEW n \in DOMAIN image.inodes, NEW i \in Nat
    PROVE  /\ i \in DOMAIN image.blocks[n] => InodeBlock(image.inodes[n], i) = image.blocks[n][i]
           /\ i >= Addressable => InodeBlock(image.inodes[n], i) = 0
<1> DEFINE inode == image.inodes[n]
           blocks == image.blocks[n]
           P == PointersPerBlock
           D == NDirect
           first == inode.block[D]
           second == inode.block[D + 1]
<1>1. BlocksInPlace(image, n)
  BY DEF Sound
<1>2. /\ \A k \in 0 .. D - 1 : k \in DOMAIN blocks => inode.block[k] = blocks[k]
      /\ \A k \in 0 .. P - 1 : D + k \in DOMAIN blocks => Pointer(image.disk, first, k) = blocks[D + k]
      /\ \A a, b \in 0 .. P - 1 :
            D + P + a * P + b \in DOMAIN blocks =>
               Pointer(image.disk, Pointer(image.disk, second, a), b) = blocks[D + P + a * P + b]
  BY <1>1 DEF BlocksInPlace
<1>3. DOMAIN blocks \subseteq 0 .. Addressable - 1
  BY GivenBlocks
<1>4. InodeBlock(inode, i) =
         IF i < D THEN inode.block[i]
         ELSE IF i - D < P THEN Pointer(image.disk, first, i - D)
         ELSE IF i - D - P < P * P
              THEN Pointer(image.disk, Pointer(image.disk, second, (i - D - P) \div P), (i - D - P) % P)
         ELSE 0
  BY DEF InodeBlock
<1>5. D \in Nat /\ P \in Nat \ {0} /\ P * P \in Nat /\ Addressable = D + P + P * P
  BY SizeFacts DEF Addressable
<1> HIDE DEF inode, blocks, P, D, first, second
<1>6. CASE i < D
  <2>1. ~(i >= Addressable) /\ i \in 0 .. D - 1
    BY <1>5, <1>6
  <2>2. InodeBlock(inode, i) = inode.block[i]
    BY <1>4, <1>6
  <2> QED BY <1>2, <2>1, <2>2 DEF inode, blocks
<1>7. CASE ~(i < D) /\ i - D < P
  <2>1. i - D \in 0 .. P - 1 /\ D + (i - D) = i /\ ~(i >= Addressable)
    BY <1>5, <1>7
  <2>2. InodeBlock(inode, i) = Pointer(image.disk, first, i - D)
    BY <1>4, <1>7
  <2> QED BY <1>2, <2>1, <2>2 DEF inode, blocks
<1>8. CASE ~(i < D) /\ ~(i - D < P) /\ i - D - P < P * P
  <2> DEFINE x == i - D - P
             a == x \div P
             b == x % P
  <2>1. x \in Nat /\ x < P * P /\ i = D + P + x
    BY <1>5, <1>8
  <2> HIDE DEF x
  <2>2. a \in Nat /\ b \in 0 .. P - 1 /\ x = a * P + b
    BY <1>5, <2>1
  <2> HIDE DEF a, b
  <2>3. a * P \in Nat /\ a * P < P * P
    BY <1>5, <2>1, <2>2
  <2>4. a \in 0 .. P - 1
    BY <1>5, <2>2, <2>3, TimesLess
  <2>5. i = D + P + a * P + b
    BY <1>5, <2>1, <2>2, <2>3
  <2>6. InodeBlock(inode, i) = Pointer(image.disk, Pointer(image.disk, second, a), b)
    BY <1>4, <1>8 DEF x, a, b
  <2> QED BY <1>2, <1>5, <1>8, <2>2, <2>4, <2>5, <2>6 DEF inode, blocks
<1>9. CASE ~(i < D) /\ ~(i - D < P) /\ ~(i - D - P < P * P)
  BY <1>3, <1>4, <1>5, <1>9 DEF inode, blocks
<1> QED BY <1>6, <1>7, <1>8, <1>9

\* read_file returns what a file holds.
LEMMA ContentFound ==
    ASSUME Sound(image), NEW p \in DOMAIN image.tree, image.tree[p] \in DOMAIN image.inodes,
           image.inodes[image.tree[p]].type # "dir"
    PROVE  Content(image.inodes[image.tree[p]]) = Holds(image, p)
<1> DEFINE n == image.tree[p]
           inode == image.inodes[n]
           blocks == image.blocks[n]
           number == (inode.size + BlockSize - 1) \div BlockSize
           found == [i \in 1 .. number |-> InodeBlock(inode, i - 1)]
<1>1. /\ inode.size \in Nat /\ number \in Nat
      /\ DOMAIN blocks = {i \in 0 .. Addressable - 1 : i < number}
  <2>1. /\ inode.size \in Nat
        /\ DOMAIN blocks = {i \in 0 .. Addressable - 1 : i * BlockSize < inode.size}
    BY GivenBlocks
  <2>2. number \in Nat /\ \A i \in Nat : i < number <=> i * BlockSize < inode.size
    BY <2>1, SizeFacts, RoundedUp
  <2>3. \A i \in 0 .. Addressable - 1 : i * BlockSize < inode.size <=> i < number
    BY <2>2, SizeFacts
  <2> QED BY <2>1, <2>2, <2>3
<1>2. Addressable \in Nat
  BY SizeFacts
<1>3. Content(inode) = IF 0 \in Range(found) THEN Error
                       ELSE <<inode.size, [i \in 1 .. number |-> image.disk[found[i]]]>>
  BY DEF Content
<1>4. Holds(image, p) = IF number > Addressable \/ 0 \in Range(blocks) THEN Error
                        ELSE <<inode.size, [i \in 1 .. number |-> image.disk[blocks[i - 1]]]>>
  BY DEF Holds
<1>5. \A i \in Nat : /\ i \in DOMAIN blocks => InodeBlock(inode, i) = blocks[i]
                     /\ i >= Addressable => InodeBlock(inode, i) = 0
  BY BlockFound
<1> HIDE DEF n, inode, blocks, number
<1>6. \A i \in 1 .. number : found[i] = InodeBlock(inode, i - 1)
  OBVIOUS
<1>7. CASE number > Addressable
  <2>1. Addressable + 1 \in 1 .. number /\ InodeBlock(inode, Addressable) = 0
    BY <1>1, <1>2, <1>5, <1>7
  <2>2. found[Addressable + 1] = 0
    BY <1>2, <1>6, <2>1
  <2>3. 0 \in Range(found)
    BY <2>1, <2>2 DEF Range
  <2> QED BY <1>3, <1>4, <1>7, <2>3 DEF inode, n
<1>8. CASE ~(number > Addressable)
  <2>1. DOMAIN blocks = 0 .. number - 1
    BY <1>1, <1>2, <1>8
  <2>2. \A i \in 1 .. number : found[i] = blocks[i - 1]
    BY <1>1, <1>5, <1>6, <2>1
  <2>3. 0 \in Range(found) <=> 0 \in Range(blocks)
    <3>1. ASSUME 0 \in Range(found) PROVE 0 \in Range(blocks)
      <4>1. PICK i \in 1 .. number : found[i] = 0
        BY <3>1 DEF Range
      <4>2. i - 1 \in DOMAIN blocks /\ blocks[i - 1] = 0
        BY <1>1, <2>1, <2>2, <4>1
      <4> QED BY <4>2 DEF Range
    <3>2. ASSUME 0 \in Range(blocks) PROVE 0 \in Range(found)
      <4>1. PICK i \in DOMAIN blocks : blocks[i] = 0
        BY <3>2 DEF Range
      <4>2. i + 1 \in 1 .. number /\ found[i + 1] = 0
        BY <1>1, <2>1, <2>2, <4>1
      <4> QED BY <4>2 DEF Range
    <3> QED BY <3>1, <3>2
  <2> HIDE DEF found
  <2>4. [i \in 1 .. number |-> image.disk[found[i]]] = [i \in 1 .. number |-> image.disk[blocks[i - 1]]]
    BY <2>2
  <2>5. Content(inode) = IF 0 \in Range(blocks) THEN Error
                         ELSE <<inode.size, [i \in 1 .. number |-> image.disk[blocks[i - 1]]]>>
    BY <1>3, <2>3, <2>4, Zenon
  <2>6. Content(inode) = Holds(image, p)
    BY <1>4, <1>8, <2>5, Zenon
  <2> QED BY <2>6 DEF inode, n
<1> QED BY <1>7, <1>8

-----------------------------------------------------------------------------
(***************************************************************************)
(* The tree of a sound image.                                              *)
(***************************************************************************)

\* A prefix of a prefix is one; a sequence is a prefix of what follows it.
LEMMA PrefixTransitive ==
    ASSUME NEW S, NEW s \in Seq(S), NEW t \in Seq(S), NEW u \in Seq(S)
    PROVE  /\ IsPrefix(s, t) /\ IsPrefix(t, u) => IsPrefix(s, u)
           /\ IsPrefix(s, t) /\ s # t => Len(s) < Len(t)
           /\ IsPrefix(s, s \o u)
<1>1. Len(s) \in Nat /\ Len(t) \in Nat /\ Len(u) \in Nat
  OBVIOUS
<1>2. \A x, y \in Seq(S) : IsPrefix(x, y) <=> Len(x) <= Len(y) /\ \A i \in 1 .. Len(x) : x[i] = y[i]
  BY PrefixIs
<1>3. IsPrefix(s, t) /\ IsPrefix(t, u) => IsPrefix(s, u)
  BY <1>1, <1>2
<1>4. IsPrefix(s, t) /\ Len(s) = Len(t) => s = t
  BY <1>2, SeqEqual
<1>5. IsPrefix(s, t) /\ s # t => Len(s) < Len(t)
  BY <1>1, <1>2, <1>4
<1>6. IsPrefix(s, s \o u)
  <2> DEFINE w == s \o u
  <2>1. w \in Seq(S) /\ Len(w) = Len(s) + Len(u) /\ \A i \in 1 .. Len(s) : w[i] = s[i]
    OBVIOUS
  <2> HIDE DEF w
  <2>2. IsPrefix(s, w)
    BY <1>1, <1>2, <2>1
  <2> QED BY <2>2 DEF w
<1> QED BY <1>3, <1>5, <1>6

\* A prefix of a path that is not the path is one of its directory.
LEMMA PrefixOfFront ==
    ASSUME NEW S, NEW s \in Seq(S), NEW t \in Seq(S), IsPrefix(s, t), s # t
    PROVE  t # <<>> /\ Front(t) \in Seq(S) /\ IsPrefix(s, Front(t)) /\ Len(Front(t)) = Len(t) - 1
<1>1. Len(s) \in Nat /\ Len(t) \in Nat /\ Len(s) < Len(t) /\ \A i \in 1 .. Len(s) : s[i] = t[i]
  BY PrefixTransitive, PrefixIs
<1>2. t # <<>>
  BY <1>1
<1>3. Front(t) \in Seq(S) /\ Len(Front(t)) = Len(t) - 1 /\ \A i \in 1 .. Len(t) - 1 : Front(t)[i] = t[i]
  BY <1>2, FrontLast
<1>4. \A i \in 1 .. Len(s) : s[i] = Front(t)[i]
  BY <1>1, <1>3
<1>5. IsPrefix(s, Front(t))
  BY <1>1, <1>3, <1>4, PrefixIs
<1> QED BY <1>2, <1>3, <1>5

\* The paths and the inodes they lead to.
LEMMA TreeFacts ==
    ASSUME NEW im, Sound(im)
    PROVE  /\ <<>> \in DOMAIN im.tree /\ im.tree[<<>>] = RootIno
           /\ DOMAIN im.tree \subseteq Seq(STRING)
           /\ \A p \in DOMAIN im.tree : im.tree[p] \in DOMAIN im.inodes
           /\ \A p \in DOMAIN im.tree : p # <<>> =>
                 Front(p) \in DOMAIN im.tree /\ im.inodes[im.tree[Front(p)]].type = "dir"
BY DEF Sound, TreeInPlace

\* What leads to a path of the tree is in the tree, and directories all the way.
LEMMA PathsAreClosed ==
    ASSUME NEW im, Sound(im), NEW p \in DOMAIN im.tree, NEW q \in Seq(STRING), IsPrefix(q, p)
    PROVE  q \in DOMAIN im.tree /\ (q # p => im.inodes[im.tree[q]].type = "dir")
<1> DEFINE Good(x) == IsPrefix(q, x) => q \in DOMAIN im.tree /\ (q # x => im.inodes[im.tree[q]].type = "dir")
           Bad == {n \in Nat : \E x \in DOMAIN im.tree : Len(x) = n /\ ~Good(x)}
<1>1. SUFFICES ASSUME ~Good(p) PROVE FALSE
  OBVIOUS
<1>2. Len(p) \in Bad
  BY <1>1, TreeFacts
<1>3. PICK n \in Bad : \A m \in Bad : ~(m < n)
  <2>1. PICK n \in Bad : \A m \in Bad : ~(<<m, n>> \in OpToRel(<, Nat))
    <3> HIDE DEF Bad
    <3>1. Bad \subseteq Nat
      BY DEF Bad
    <3> QED BY <1>2, <3>1, NatLessThanWellFounded, WFMin
  <2>2. \A m \in Bad : m < n => <<m, n>> \in OpToRel(<, Nat)
    BY Zenon DEF OpToRel
  <2> QED BY <2>1, <2>2
<1>4. PICK x \in DOMAIN im.tree : Len(x) = n /\ ~Good(x)
  OBVIOUS
<1>5. x \in Seq(STRING) /\ IsPrefix(q, x) /\ q # x
  BY <1>4, TreeFacts
<1>6. /\ x # <<>> /\ Front(x) \in Seq(STRING) /\ IsPrefix(q, Front(x)) /\ Len(Front(x)) = Len(x) - 1
  BY <1>5, PrefixOfFront
<1>7. Front(x) \in DOMAIN im.tree /\ im.inodes[im.tree[Front(x)]].type = "dir"
  BY <1>6, TreeFacts
<1>8. ~Good(Front(x))
  BY <1>4, <1>5, <1>6, <1>7
<1>9. Len(Front(x)) \in Bad /\ Len(Front(x)) < n
  BY <1>4, <1>6, <1>7, <1>8
<1> QED BY <1>3, <1>9

\* A path that is not in the tree has nothing below it.
LEMMA NothingBelow ==
    ASSUME NEW im, Sound(im), NEW p \in Seq(STRING), p \notin DOMAIN im.tree
    PROVE  Below(im, p) = {}
BY PathsAreClosed DEF Below

\* What is below a part of what is below a path.
LEMMA BelowShrinks ==
    ASSUME NEW im, Sound(im), NEW p \in Seq(STRING), NEW q \in Seq(STRING), IsPrefix(p, q)
    PROVE  /\ Below(im, q) \subseteq Below(im, p)
           /\ q \in DOMAIN im.tree => <<q, Holds(im, q)>> \in Below(im, p)
<1>1. \A x \in DOMAIN im.tree : x \in Seq(STRING) /\ (IsPrefix(q, x) => IsPrefix(p, x))
  BY TreeFacts, PrefixTransitive
<1> QED BY <1>1 DEF Below

\* Only a directory has more below it than itself.
LEMMA FileIsAlone ==
    ASSUME NEW im, Sound(im), NEW p \in DOMAIN im.tree, im.inodes[im.tree[p]].type # "dir"
    PROVE  Below(im, p) = {<<p, Holds(im, p)>>}
<1>1. p \in Seq(STRING)
  BY TreeFacts
<1>2. \A x \in DOMAIN im.tree : IsPrefix(p, x) <=> x = p
  <2>1. IsPrefix(p, p)
    BY <1>1, PrefixIs
  <2> QED BY <1>1, <2>1, PathsAreClosed
<1> QED BY <1>2 DEF Below

\* A directory and its entries, with what is below them, are all there is below.
LEMMA DirectoryIsEntries ==
    ASSUME NEW im, Sound(im), NEW p \in DOMAIN im.tree, NEW out, <<p, "dir">> \in out,
           im.inodes[im.tree[p]].type = "dir",
           \A q \in DOMAIN im.tree : q # <<>> /\ Front(q) = p => Below(im, q) \subseteq out
    PROVE  Below(im, p) \subseteq out
<1>1. p \in Seq(STRING) /\ Holds(im, p) = "dir"
  BY TreeFacts DEF Holds
<1>2. ASSUME NEW x \in DOMAIN im.tree, IsPrefix(p, x) PROVE <<x, Holds(im, x)>> \in out
  <2>1. CASE x = p
    BY <1>1, <2>1
  <2>2. CASE x # p
    <3>1. x \in Seq(STRING) /\ Len(p) < Len(x)
      BY <1>1, <1>2, <2>2, TreeFacts, PrefixTransitive
    <3>2. PICK e \in STRING : IsPrefix(Append(p, e), x)
      <4>1. x[Len(p) + 1] \in STRING
        BY <1>1, <3>1
      <4>2. x[Len(p) + 1] \in STRING /\ IsPrefix(Append(p, x[Len(p) + 1]), x)
        BY <1>1, <1>2, <3>1, <4>1, PrefixFacts
      <4> QED BY <4>2
    <3> DEFINE q == Append(p, e)
    <3>3. q \in Seq(STRING) /\ q # <<>> /\ Front(q) = p
      BY <1>1, FrontAppend
    <3> HIDE DEF q
    <3>4. IsPrefix(q, x)
      BY <3>2 DEF q
    <3>5. q \in DOMAIN im.tree
      BY <3>3, <3>4, PathsAreClosed
    <3>6. <<x, Holds(im, x)>> \in Below(im, q)
      BY <3>4 DEF Below
    <3> QED BY <3>3, <3>5, <3>6
  <2> QED BY <2>1, <2>2
<1> QED BY <1>2 DEF Below

-----------------------------------------------------------------------------
(***************************************************************************)
(* The iteration over a directory (iter_dir).                              *)
(***************************************************************************)

\* The directory of an iteration, its blocks, and the headers in one.
Number(im, f) == im.tree[f.path]
Blocks(im, f) == im.blocks[Number(im, f)]
Headers(im, f, i) == im.disk[Blocks(im, f)[i]]

\* An iteration is at the beginning of a block, or in one: at a record, or
\* past the last one of the block or of the directory.
CursorInv(im, f) ==
    /\ f.offset = -1 => f.cursor >= f.inode.size \/ \E i \in DOMAIN Blocks(im, f) : f.cursor = i * BlockSize
    /\ f.offset # -1 =>
          \E i \in DOMAIN Blocks(im, f) :
              /\ f.cursor = i * BlockSize + f.offset
              /\ f.offset \in DOMAIN Headers(im, f, i) \/ f.offset = BlockSize \/ f.cursor >= f.inode.size
              /\ f.advanced => \A o \in DOMAIN Headers(im, f, i) : Headers(im, f, i)[o].len >= Header
              /\ ~f.advanced => f.offset = 0

\* The iterations over the directories of an image.
Iterations(im) ==
    {f \in [inode : {im.inodes[n] : n \in DOMAIN im.inodes}, path : DOMAIN im.tree,
            cursor : Nat, offset : -1 .. BlockSize, advanced : BOOLEAN] :
        f.inode = im.inodes[Number(im, f)] /\ f.inode.type = "dir" /\ CursorInv(im, f)}

\* An iteration has come by an entry, which is at path p of the tree.
Passed(im, f, p) ==
    \E i \in DOMAIN Blocks(im, f) : \E o \in DOMAIN Headers(im, f, i) :
        /\ IsEntry(im, Number(im, f), i, o)
        /\ i * BlockSize + o < f.cursor
        /\ p = Append(f.path, Headers(im, f, i)[o].name)

\* The blocks of the directory are there, and each is filled with records.
LEMMA DirectoryFacts ==
    ASSUME NEW im, Sound(im), NEW f \in Iterations(im)
    PROVE  /\ Number(im, f) \in DOMAIN im.inodes /\ f.inode = im.inodes[Number(im, f)]
           /\ f.inode.size \in Nat /\ f.inode.size <= Addressable * BlockSize
           /\ DOMAIN Blocks(im, f) = {i \in 0 .. Addressable - 1 : i * BlockSize < f.inode.size}
           /\ DOMAIN Blocks(im, f) \subseteq Nat
           /\ \A i \in DOMAIN Blocks(im, f) :
                 Blocks(im, f)[i] # 0 /\ Filled(Headers(im, f, i), f.inode.size - i * BlockSize)
<1>1. Number(im, f) \in DOMAIN im.inodes /\ f.inode = im.inodes[Number(im, f)] /\ f.inode.type = "dir"
  BY TreeFacts DEF Iterations, Number
<1>2. DirectoryInPlace(im, Number(im, f))
  BY <1>1 DEF Sound
<1>3. /\ f.inode.size \in Nat /\ DOMAIN Blocks(im, f) \subseteq Nat
      /\ DOMAIN Blocks(im, f) = {i \in 0 .. Addressable - 1 : i * BlockSize < f.inode.size}
  BY <1>1, GivenBlocks DEF Blocks
<1> QED BY <1>1, <1>2, <1>3 DEF DirectoryInPlace, Blocks, Headers

\* Where an entry is: the records of its block fill it one after the other.
LEMMA EntryPlace ==
    ASSUME NEW im, Sound(im), NEW f \in Iterations(im), NEW i \in DOMAIN Blocks(im, f),
           NEW o \in DOMAIN Headers(im, f, i), Headers(im, f, i)[o].len >= Header
    PROVE  \A x \in DOMAIN Headers(im, f, i) :
              LET len == Headers(im, f, i)[x].len
                  end == x + len
              IN  /\ x \in Nat /\ len \in Nat /\ len >= Header /\ end <= BlockSize /\ x < BlockSize
                  /\ end \in DOMAIN Headers(im, f, i) \/ end = BlockSize \/ end >= f.inode.size - i * BlockSize
                  /\ \A next \in DOMAIN Headers(im, f, i) : x < next => end <= next
<1> DEFINE block == Headers(im, f, i)
           room == f.inode.size - i * BlockSize
<1>1. Filled(block, room)
  BY DirectoryFacts
<1>2. Header \in Nat \ {0} /\ BlockSize \in Nat
  BY SizeFacts
<1> HIDE DEF block, room
<1>3. o \in DOMAIN block /\ block[o].len >= Header
  BY DEF block
<1>4. ~(\A x \in DOMAIN block : block[x].len \in Nat /\ block[x].len < Header)
  BY <1>2, <1>3
<1>5. \A x \in DOMAIN block :
         LET end == x + block[x].len
         IN  /\ x \in Nat /\ block[x].len \in Nat /\ block[x].len >= Header
             /\ end <= BlockSize
             /\ end \in DOMAIN block \/ end = BlockSize \/ end >= room
             /\ \A next \in DOMAIN block : x < next => end <= next
  BY <1>1, <1>4 DEF Filled
<1>6. \A x \in DOMAIN block : x < BlockSize
  BY <1>2, <1>5
<1> QED BY <1>5, <1>6 DEF block, room

\* The block that the cursor is in.
LEMMA BlockAt ==
    ASSUME Sound(image), NEW f \in Iterations(image), NEW i \in DOMAIN Blocks(image, f),
           NEW o \in 0 .. BlockSize - 1, f.cursor = i * BlockSize + o
    PROVE  /\ BlockOf(f) = Blocks(image, f)[i] /\ BlockOf(f) # 0
           /\ image.disk[BlockOf(f)] = Headers(image, f, i)
           /\ f.cursor % BlockSize = o
<1>1. f.cursor \div BlockSize = i /\ f.cursor % BlockSize = o
  <2>1. BlockSize \in Nat \ {0} /\ i \in Nat
    BY SizeFacts, DirectoryFacts
  <2>2. (i * BlockSize + o) \div BlockSize = i /\ (i * BlockSize + o) % BlockSize = o
    BY <2>1, QuotientIs
  <2> QED BY <2>2
<1>2. InodeBlock(image.inodes[Number(image, f)], i) = image.blocks[Number(image, f)][i]
  BY DirectoryFacts, BlockFound DEF Blocks
<1>3. BlockOf(f) = Blocks(image, f)[i]
  BY <1>1, <1>2, DirectoryFacts DEF BlockOf, Blocks
<1> QED BY <1>1, <1>3, DirectoryFacts DEF Headers

\* Within a block, the cursor is at a record, and its header is read.
LEMMA AtARecord ==
    ASSUME Sound(image), NEW f \in Iterations(image), InBlock(f)
    PROVE  \E i \in DOMAIN Blocks(image, f) :
              /\ f.offset \in 0 .. BlockSize - 1 /\ f.cursor = i * BlockSize + f.offset
              /\ image.disk[BlockOf(f)] = Headers(image, f, i)
              /\ f.offset \in DOMAIN Headers(image, f, i)
              /\ HeadersAt(image.disk[BlockOf(f)], f.offset) = {Headers(image, f, i)[f.offset]}
              /\ f.advanced => \A o \in DOMAIN Headers(image, f, i) : Headers(image, f, i)[o].len >= Header
              /\ ~f.advanced => f.offset = 0
<1>1. f.offset \in -1 .. BlockSize /\ f.cursor \in Nat /\ f.inode.size \in Nat
  BY DirectoryFacts DEF Iterations
<1>2. f.offset \in 0 .. BlockSize - 1 /\ ~(f.cursor >= f.inode.size) /\ f.offset # BlockSize
  BY <1>1, SizeFacts DEF InBlock
<1>3. PICK i \in DOMAIN Blocks(image, f) :
           /\ f.cursor = i * BlockSize + f.offset
           /\ f.offset \in DOMAIN Headers(image, f, i)
           /\ f.advanced => \A o \in DOMAIN Headers(image, f, i) : Headers(image, f, i)[o].len >= Header
           /\ ~f.advanced => f.offset = 0
  BY <1>2 DEF Iterations, CursorInv, InBlock
<1>4. image.disk[BlockOf(f)] = Headers(image, f, i)
  BY <1>2, <1>3, BlockAt
<1>5. HeadersAt(image.disk[BlockOf(f)], f.offset) = {Headers(image, f, i)[f.offset]}
  BY <1>3, <1>4 DEF HeadersAt
<1> QED BY <1>2, <1>3, <1>4, <1>5

\* A new iteration has passed nothing.
LEMMA FrameFacts ==
    ASSUME NEW im, Sound(im), NEW p \in DOMAIN im.tree, im.inodes[im.tree[p]].type = "dir"
    PROVE  /\ Frame(im.inodes[im.tree[p]], p) \in Iterations(im)
           /\ Frame(im.inodes[im.tree[p]], p).path = p
           /\ \A q : ~Passed(im, Frame(im.inodes[im.tree[p]], p), q)
<1> DEFINE n == im.tree[p]
           f == Frame(im.inodes[n], p)
<1>1. n \in DOMAIN im.inodes
  BY TreeFacts
<1>2. f.inode = im.inodes[n] /\ f.path = p /\ f.cursor = 0 /\ f.offset = -1 /\ f.advanced = FALSE
  BY DEF Frame
<1>3. Number(im, f) = n
  BY <1>2 DEF Number
<1>4. /\ im.inodes[n].size \in Nat /\ DOMAIN im.blocks[n] \subseteq Nat
      /\ DOMAIN im.blocks[n] = {i \in 0 .. Addressable - 1 : i * BlockSize < im.inodes[n].size}
  BY <1>1, GivenBlocks
<1>5. 0 >= im.inodes[n].size \/ 0 \in DOMAIN im.blocks[n]
  <2>1. Addressable >= 1 /\ 0 * BlockSize = 0
    BY SizeFacts DEF Addressable
  <2> QED BY <1>4, <2>1, SizeFacts
<1>6. CursorInv(im, f)
  <2>1. 0 * BlockSize = 0
    BY SizeFacts
  <2> QED BY <1>2, <1>3, <1>5, <2>1 DEF CursorInv, Blocks
<1>7. f \in [inode : {im.inodes[m] : m \in DOMAIN im.inodes}, path : DOMAIN im.tree,
             cursor : Nat, offset : -1 .. BlockSize, advanced : BOOLEAN]
  BY <1>1, SizeFacts DEF Frame
<1>8. f \in Iterations(im)
  BY <1>2, <1>3, <1>6, <1>7 DEF Iterations
<1>9. ASSUME NEW q, Passed(im, f, q) PROVE FALSE
  <2>1. PICK i \in DOMAIN Blocks(im, f) : \E o \in DOMAIN Headers(im, f, i) :
             IsEntry(im, Number(im, f), i, o) /\ i * BlockSize + o < f.cursor
    BY <1>9 DEF Passed
  <2>2. PICK o \in DOMAIN Headers(im, f, i) : IsEntry(im, Number(im, f), i, o) /\ i * BlockSize + o < f.cursor
    BY <2>1
  <2>3. Headers(im, f, i)[o].len >= Header
    BY <2>2 DEF IsEntry, RecordAt, Headers, Blocks
  <2>4. o \in Nat /\ i \in Nat
    BY <1>8, <2>3, EntryPlace, DirectoryFacts
  <2>5. i * BlockSize \in Nat
    BY <2>4, SizeFacts
  <2> QED BY <1>2, <2>2, <2>4, <2>5
<1> QED BY <1>2, <1>8, <1>9

\* An entry, in numbers.
LEMMA EntryFacts ==
    ASSUME NEW im, Sound(im), NEW f \in Iterations(im), NEW i \in DOMAIN Blocks(im, f),
           NEW o \in DOMAIN Headers(im, f, i), IsEntry(im, Number(im, f), i, o)
    PROVE  /\ i \in Nat /\ i * BlockSize \in Nat /\ o \in Nat
           /\ Headers(im, f, i)[o].len \in Nat /\ Headers(im, f, i)[o].len >= Header
           /\ o + Headers(im, f, i)[o].len <= BlockSize /\ o < BlockSize
           /\ i * BlockSize + o < f.inode.size
<1>1. /\ Headers(im, f, i)[o].len >= Header
      /\ i * BlockSize + o < im.inodes[Number(im, f)].size
  BY DEF IsEntry, RecordAt, Headers, Blocks
<1>2. i \in Nat /\ BlockSize \in Nat
  BY DirectoryFacts, SizeFacts
<1>3. i * BlockSize \in Nat
  BY <1>2
<1> QED BY <1>1, <1>2, <1>3, EntryPlace, DirectoryFacts

\* A block is entered at its first record.
LEMMA EnterFacts ==
    ASSUME Sound(image), NEW f \in Iterations(image), f.offset = -1, f.cursor < f.inode.size
    PROVE  LET g == [f EXCEPT !.offset = f.cursor % BlockSize, !.advanced = FALSE]
           IN  /\ g \in Iterations(image) /\ g.path = f.path
               /\ \A p : Passed(image, g, p) => Passed(image, f, p)
               /\ BlockOf(f) # 0
<1> DEFINE g == [f EXCEPT !.offset = f.cursor % BlockSize, !.advanced = FALSE]
<1>1. f.cursor \in Nat /\ f.inode.size \in Nat
  BY DirectoryFacts DEF Iterations
<1>2. PICK i \in DOMAIN Blocks(image, f) : f.cursor = i * BlockSize
  BY <1>1 DEF Iterations, CursorInv
<1>3. f.cursor % BlockSize = 0 /\ BlockOf(f) # 0
  <2>1. 0 \in 0 .. BlockSize - 1 /\ f.cursor = i * BlockSize + 0
    BY <1>1, <1>2, SizeFacts
  <2> QED BY <2>1, BlockAt
<1>4. /\ g.offset = 0 /\ g.advanced = FALSE /\ g.inode = f.inode /\ g.path = f.path /\ g.cursor = f.cursor
      /\ g \in [inode : {image.inodes[n] : n \in DOMAIN image.inodes}, path : DOMAIN image.tree,
                cursor : Nat, offset : -1 .. BlockSize, advanced : BOOLEAN]
  <2>1. 0 \in -1 .. BlockSize
    BY SizeFacts
  <2> QED BY <1>3, <2>1 DEF Iterations
<1> HIDE DEF g
<1>5. Number(image, g) = Number(image, f) /\ Blocks(image, g) = Blocks(image, f)
      /\ \A j : Headers(image, g, j) = Headers(image, f, j)
  BY <1>4 DEF Number, Blocks, Headers
<1>6. 0 \in DOMAIN Headers(image, f, i)
  BY DirectoryFacts DEF Filled
<1>7. CursorInv(image, g)
  <2>1. g.cursor = i * BlockSize + g.offset
    BY <1>1, <1>2, <1>4
  <2> QED BY <1>4, <1>5, <1>6, <2>1 DEF CursorInv
<1>8. g \in Iterations(image)
  BY <1>4, <1>5, <1>7 DEF Iterations
<1>9. \A p : Passed(image, g, p) => Passed(image, f, p)
  BY <1>4, <1>5 DEF Passed
<1> QED BY <1>3, <1>4, <1>8, <1>9 DEF g

\* The beginning of the next block, or the end of the directory.
LEMMA NextBlock ==
    ASSUME NEW im, Sound(im), NEW f \in Iterations(im), NEW i \in DOMAIN Blocks(im, f)
    PROVE  (i + 1) * BlockSize >= f.inode.size \/ i + 1 \in DOMAIN Blocks(im, f)
<1>1. i \in Nat /\ f.inode.size \in Nat /\ f.inode.size <= Addressable * BlockSize
  BY DirectoryFacts
<1>2. BlockSize \in Nat \ {0} /\ Addressable \in Nat
  BY SizeFacts
<1>3. (i + 1) * BlockSize \in Nat /\ Addressable * BlockSize \in Nat
      /\ ((i + 1) * BlockSize < Addressable * BlockSize <=> i + 1 < Addressable)
  <2>1. i + 1 \in Nat
    BY <1>1
  <2> QED BY <1>2, <2>1, TimesLess
<1>4. CASE (i + 1) * BlockSize < f.inode.size
  <2>1. i + 1 \in 0 .. Addressable - 1
    BY <1>1, <1>2, <1>3, <1>4
  <2> QED BY <1>4, <2>1, DirectoryFacts
<1> QED BY <1>1, <1>3, <1>4

\* What lies before the end of block i lies in block i or ends before it.
LEMMA EntryBefore ==
    ASSUME NEW im, Sound(im), NEW f \in Iterations(im), NEW i \in DOMAIN Blocks(im, f),
           NEW j \in DOMAIN Blocks(im, f), NEW o \in DOMAIN Headers(im, f, j),
           IsEntry(im, Number(im, f), j, o), j * BlockSize + o < (i + 1) * BlockSize
    PROVE  j = i \/ j * BlockSize + o < i * BlockSize
<1>1. /\ i \in Nat /\ j \in Nat /\ j * BlockSize \in Nat /\ o \in Nat /\ o < BlockSize
  BY EntryFacts, DirectoryFacts
<1>2. BlockSize \in Nat \ {0}
  BY SizeFacts
<1>3. /\ i * BlockSize \in Nat /\ (i + 1) * BlockSize = i * BlockSize + BlockSize
      /\ (j + 1) * BlockSize = j * BlockSize + BlockSize
      /\ (j < i => (j + 1) * BlockSize <= i * BlockSize)
      /\ (i < j => (i + 1) * BlockSize <= j * BlockSize)
  BY <1>1, <1>2, TimesLess
<1> QED BY <1>1, <1>2, <1>3

\* A block is left with its last entry passed, and no other.
LEMMA LeaveFacts ==
    ASSUME Sound(image), NEW f \in Iterations(image), f.offset # -1,
           InBlock(f) => \E h \in HeadersAt(image.disk[BlockOf(f)], f.offset) : h.len < Header
    PROVE  /\ AfterBlock(f) \in Iterations(image) /\ AfterBlock(f).path = f.path
           /\ \A p : Passed(image, AfterBlock(f), p) => Passed(image, f, p)
<1> DEFINE g == AfterBlock(f)
           B == BlockSize
           size == f.inode.size
<1>1. /\ f.cursor \in Nat /\ f.offset \in 0 .. B /\ f.advanced \in BOOLEAN
      /\ size \in Nat /\ B \in Nat \ {0} /\ Header \in 1 .. B
  <2>1. f.cursor \in Nat /\ f.offset \in -1 .. B /\ f.advanced \in BOOLEAN
    BY DEF Iterations
  <2>2. size \in Nat /\ B \in Nat \ {0} /\ Header \in 1 .. B
    BY DirectoryFacts, SizeFacts
  <2> QED BY <2>1, <2>2
<1>2. PICK i \in DOMAIN Blocks(image, f) :
           /\ f.cursor = i * B + f.offset
           /\ f.offset \in DOMAIN Headers(image, f, i) \/ f.offset = B \/ f.cursor >= size
           /\ f.advanced => \A o \in DOMAIN Headers(image, f, i) : Headers(image, f, i)[o].len >= Header
           /\ ~f.advanced => f.offset = 0
  BY DEF Iterations, CursorInv
<1>3. /\ i \in Nat /\ i * B \in Nat /\ (i + 1) * B = i * B + B
      /\ (i + 1) * B >= size \/ i + 1 \in DOMAIN Blocks(image, f)
  BY <1>1, DirectoryFacts, NextBlock, TimesLess
<1>4. g.offset = -1 /\ g.inode = f.inode /\ g.path = f.path /\ g.advanced = f.advanced
      /\ g.cursor = IF f.advanced THEN f.cursor ELSE f.cursor + B
  BY DEF AfterBlock, Iterations
<1>5. g \in [inode : {image.inodes[n] : n \in DOMAIN image.inodes}, path : DOMAIN image.tree,
             cursor : Nat, offset : -1 .. B, advanced : BOOLEAN]
  <2>1. f.cursor + B \in Nat /\ -1 \in -1 .. B
    BY <1>1
  <2> QED BY <1>1, <2>1 DEF AfterBlock, Iterations
<1> HIDE DEF g
<1>6. Number(image, g) = Number(image, f) /\ Blocks(image, g) = Blocks(image, f)
      /\ \A j : Headers(image, g, j) = Headers(image, f, j)
  BY <1>4 DEF Number, Blocks, Headers
\* Either the block has no record, or its last one is passed, or the directory ends.
<1>7. \/ ~f.advanced /\ f.offset = 0 /\ \A o \in DOMAIN Headers(image, f, i) : ~IsEntry(image, Number(image, f), i, o)
      \/ f.advanced /\ (f.offset = B \/ f.cursor >= size)
      \/ ~f.advanced /\ f.cursor >= size
  <2>1. CASE InBlock(f)
    <3>1. PICK h \in HeadersAt(image.disk[BlockOf(f)], f.offset) : h.len < Header
      BY <2>1
    <3>2. PICK j \in DOMAIN Blocks(image, f) :
             /\ f.offset \in 0 .. B - 1 /\ f.cursor = j * B + f.offset
             /\ f.offset \in DOMAIN Headers(image, f, j)
             /\ HeadersAt(image.disk[BlockOf(f)], f.offset) = {Headers(image, f, j)[f.offset]}
             /\ f.advanced => \A o \in DOMAIN Headers(image, f, j) : Headers(image, f, j)[o].len >= Header
             /\ ~f.advanced => f.offset = 0
      BY <2>1, AtARecord
    <3>3. j = i
      <4>0. j \in Nat
        BY DirectoryFacts
      <4>1. j \in Nat /\ j * B \in Nat /\ i * B = j * B
        <5>1. j * B \in Nat
          BY <1>1, <4>0
        <5>2. i * B + f.offset = j * B + f.offset
          BY <1>2, <3>2
        <5>3. \A x, y, z \in Int : x + z = y + z => x = y
          OBVIOUS
        <5> QED BY <1>1, <1>3, <4>0, <5>1, <5>2, <5>3
      <4> QED BY <1>1, <1>3, <4>1, TimesLess
    <3>4. Headers(image, f, i)[f.offset].len < Header
      BY <3>1, <3>2, <3>3
    <3>5. \A o \in DOMAIN Headers(image, f, i) : ~(Headers(image, f, i)[o].len >= Header)
      <4>1. ASSUME NEW o \in DOMAIN Headers(image, f, i), Headers(image, f, i)[o].len >= Header
            PROVE  Headers(image, f, i)[f.offset].len \in Nat /\ Headers(image, f, i)[f.offset].len >= Header
        BY <3>2, <3>3, <4>1, EntryPlace
      <4> QED BY <1>1, <3>4, <4>1
    <3>6. ~f.advanced
      BY <3>2, <3>3, <3>5
    <3> QED BY <3>2, <3>5, <3>6 DEF IsEntry, RecordAt, Headers, Blocks
  <2>2. CASE ~InBlock(f)
    <3>1. ~(f.offset + Header <= B) \/ f.cursor >= size
      BY <1>1, <2>2 DEF InBlock
    <3>2. CASE ~f.advanced
      BY <1>1, <1>2, <3>1, <3>2
    <3>3. CASE f.advanced /\ ~(f.cursor >= size) /\ f.offset # B
      <4>1. f.offset \in DOMAIN Headers(image, f, i) /\ Headers(image, f, i)[f.offset].len >= Header
        BY <1>2, <3>3
      <4>2. Headers(image, f, i)[f.offset].len \in Nat /\ f.offset + Headers(image, f, i)[f.offset].len <= B
        BY <4>1, EntryPlace
      <4> QED BY <1>1, <3>1, <3>3, <4>1, <4>2
    <3> QED BY <3>2, <3>3
  <2> QED BY <2>1, <2>2
<1>8. CursorInv(image, g)
  <2>1. g.cursor >= size \/ g.cursor = (i + 1) * B
    BY <1>1, <1>2, <1>3, <1>4, <1>7
  <2>2. g.cursor >= size \/ \E j \in DOMAIN Blocks(image, f) : g.cursor = j * B
    BY <1>1, <1>3, <1>4, <2>1
  <2> QED BY <1>4, <1>6, <2>2 DEF CursorInv
<1>9. g \in Iterations(image)
  BY <1>4, <1>5, <1>6, <1>8 DEF Iterations
<1>10. ASSUME NEW p, Passed(image, g, p) PROVE Passed(image, f, p)
  <2>1. PICK j \in DOMAIN Blocks(image, f) : \E o \in DOMAIN Headers(image, f, j) :
             /\ IsEntry(image, Number(image, f), j, o)
             /\ j * B + o < g.cursor
             /\ p = Append(f.path, Headers(image, f, j)[o].name)
    BY <1>4, <1>6, <1>10 DEF Passed
  <2>2. PICK o \in DOMAIN Headers(image, f, j) :
             /\ IsEntry(image, Number(image, f), j, o)
             /\ j * B + o < g.cursor
             /\ p = Append(f.path, Headers(image, f, j)[o].name)
    BY <2>1
  <2>3. j \in Nat /\ j * B \in Nat /\ o \in Nat /\ j * B + o < size
    BY <2>2, EntryFacts
  <2>4. j * B + o < f.cursor
    <3>1. CASE f.advanced
      BY <1>4, <2>2, <3>1
    <3>2. CASE f.cursor >= size
      BY <1>1, <2>3, <3>2
    <3>3. CASE ~f.advanced /\ f.offset = 0 /\ \A x \in DOMAIN Headers(image, f, i) : ~IsEntry(image, Number(image, f), i, x)
      <4>1. j * B + o < (i + 1) * B
        BY <1>1, <1>2, <1>3, <1>4, <2>2, <3>3
      <4>2. j # i
        BY <2>2, <3>3
      <4>3. j * B + o < i * B
        BY <2>2, <4>1, <4>2, EntryBefore
      <4> QED BY <1>2, <1>3, <3>3, <4>3
    <3> QED BY <1>7, <3>1, <3>2, <3>3
  <2> QED BY <2>2, <2>4 DEF Passed
<1> QED BY <1>4, <1>9, <1>10 DEF g

\* The step past a record passes it, and nothing else.
LEMMA PastFacts ==
    ASSUME Sound(image), NEW f \in Iterations(image), InBlock(f),
           NEW h \in HeadersAt(image.disk[BlockOf(f)], f.offset), h.len >= Header
    PROVE  LET g == [f EXCEPT !.offset = @ + h.len, !.cursor = @ + h.len, !.advanced = TRUE]
           IN  /\ g \in Iterations(image) /\ g.path = f.path
               /\ \A p : Passed(image, g, p) => Passed(image, f, p) \/ (Yields(h) /\ p = Append(f.path, h.name))
               /\ Yields(h) => \E i \in DOMAIN Blocks(image, f) : \E o \in DOMAIN Headers(image, f, i) :
                                  IsEntry(image, Number(image, f), i, o) /\ h = Headers(image, f, i)[o]
<1> DEFINE g == [f EXCEPT !.offset = @ + h.len, !.cursor = @ + h.len, !.advanced = TRUE]
           B == BlockSize
           size == f.inode.size
<1>1. /\ f.cursor \in Nat /\ f.cursor < size
      /\ size \in Nat /\ B \in Nat \ {0} /\ Header \in 1 .. B
  BY DirectoryFacts, SizeFacts DEF Iterations, InBlock
<1>2. PICK i \in DOMAIN Blocks(image, f) :
           /\ f.offset \in 0 .. B - 1 /\ f.cursor = i * B + f.offset
           /\ f.offset \in DOMAIN Headers(image, f, i)
           /\ h = Headers(image, f, i)[f.offset]
  BY AtARecord
<1>3. i \in Nat /\ i * B \in Nat /\ (i + 1) * B = i * B + B
  BY <1>1, DirectoryFacts, TimesLess
<1>4. \A x \in DOMAIN Headers(image, f, i) :
         LET len == Headers(image, f, i)[x].len
             end == x + len
         IN  /\ x \in Nat /\ len \in Nat /\ len >= Header /\ end <= B
             /\ end \in DOMAIN Headers(image, f, i) \/ end = B \/ end >= size - i * B
             /\ \A next \in DOMAIN Headers(image, f, i) : x < next => end <= next
  BY <1>2, EntryPlace
<1>5. h.len \in Nat /\ f.offset + h.len \in 0 .. B
  BY <1>1, <1>2, <1>4
<1>6. /\ g.offset = f.offset + h.len /\ g.cursor = f.cursor + h.len /\ g.advanced = TRUE
      /\ g.inode = f.inode /\ g.path = f.path
  BY DEF Iterations
<1>a. g \in [inode : {image.inodes[n] : n \in DOMAIN image.inodes}, path : DOMAIN image.tree,
                cursor : Nat, offset : -1 .. B, advanced : BOOLEAN]
  <2>1. f.cursor + h.len \in Nat /\ f.offset + h.len \in -1 .. B
    BY <1>1, <1>5
  <2> QED BY <2>1 DEF Iterations
<1> HIDE DEF g
<1>7. Number(image, g) = Number(image, f) /\ Blocks(image, g) = Blocks(image, f)
      /\ \A j : Headers(image, g, j) = Headers(image, f, j)
  BY <1>6 DEF Number, Blocks, Headers
<1>8. CursorInv(image, g)
  <2>1. g.cursor = i * B + g.offset /\ g.offset # -1
    BY <1>1, <1>2, <1>3, <1>5, <1>6
  <2>2. g.offset \in DOMAIN Headers(image, f, i) \/ g.offset = B \/ g.offset >= size - i * B
    BY <1>2, <1>4, <1>6
  <2>3. g.offset \in DOMAIN Headers(image, f, i) \/ g.offset = B \/ g.cursor >= size
    BY <1>1, <1>2, <1>3, <1>5, <1>6, <2>2
  <2> QED BY <1>4, <1>6, <1>7, <2>1, <2>3 DEF CursorInv
<1>9. g \in Iterations(image)
  BY <1>6, <1>a, <1>7, <1>8 DEF Iterations
<1>10. Yields(h) <=> IsEntry(image, Number(image, f), i, f.offset)
  BY <1>1, <1>2, DirectoryFacts DEF Yields, IsEntry, RecordAt, Headers, Blocks
<1>11. ASSUME NEW p, Passed(image, g, p) PROVE Passed(image, f, p) \/ (Yields(h) /\ p = Append(f.path, h.name))
  <2>1. PICK j \in DOMAIN Blocks(image, f) : \E o \in DOMAIN Headers(image, f, j) :
             /\ IsEntry(image, Number(image, f), j, o)
             /\ j * B + o < g.cursor
             /\ p = Append(f.path, Headers(image, f, j)[o].name)
    BY <1>6, <1>7, <1>11 DEF Passed
  <2>2. PICK o \in DOMAIN Headers(image, f, j) :
             /\ IsEntry(image, Number(image, f), j, o)
             /\ j * B + o < g.cursor
             /\ p = Append(f.path, Headers(image, f, j)[o].name)
    BY <2>1
  <2>3. j \in Nat /\ j * B \in Nat /\ o \in Nat
    BY <2>2, EntryFacts
  <2>4. j * B + o < (i + 1) * B
    <3>1. g.cursor = i * B + (f.offset + h.len)
      BY <1>1, <1>2, <1>3, <1>5, <1>6
    <3> QED BY <1>1, <1>3, <1>5, <2>2, <2>3, <3>1
  <2>5. CASE j = i /\ o = f.offset
    BY <1>2, <1>10, <2>2, <2>5
  <2>6. CASE j = i /\ o # f.offset
    <3>1. ~(f.offset < o)
      BY <1>2, <1>4, <1>5, <1>6, <2>2, <2>3, <2>6
    <3>2. j * B + o < f.cursor
      BY <1>2, <1>3, <2>3, <2>6, <3>1
    <3> QED BY <2>2, <3>2 DEF Passed
  <2>7. CASE j # i
    <3>1. j * B + o < i * B
      BY <2>2, <2>4, <2>7, EntryBefore
    <3>2. j * B + o < f.cursor
      BY <1>1, <1>2, <1>3, <2>3, <3>1
    <3> QED BY <2>2, <3>2 DEF Passed
  <2> QED BY <2>5, <2>6, <2>7
<1> QED BY <1>2, <1>6, <1>9, <1>10, <1>11 DEF g

\* When an iteration ends, it has passed every entry of its directory.
LEMMA EndFacts ==
    ASSUME Sound(image), NEW f \in Iterations(image), f.offset = -1,
           f.cursor < f.inode.size => BlockOf(f) = 0
    PROVE  \A p \in DOMAIN image.tree : p # <<>> /\ Front(p) = f.path => Passed(image, f, p)
<1>1. f.cursor \in Nat /\ f.inode.size \in Nat /\ f.cursor >= f.inode.size
  <2>1. f.cursor \in Nat /\ f.inode.size \in Nat
    BY DirectoryFacts DEF Iterations
  <2>2. f.cursor < f.inode.size => BlockOf(f) # 0
    BY EnterFacts
  <2> QED BY <2>1, <2>2
<1>2. SUFFICES ASSUME NEW p \in DOMAIN image.tree, p # <<>>, Front(p) = f.path PROVE Passed(image, f, p)
  OBVIOUS
<1>3. PICK i \in DOMAIN Blocks(image, f) : \E o \in DOMAIN Headers(image, f, i) :
         IsEntry(image, Number(image, f), i, o) /\ Headers(image, f, i)[o].name = Last(p)
  <2>1. \E i \in DOMAIN image.blocks[image.tree[Front(p)]] :
           \E o \in DOMAIN image.disk[image.blocks[image.tree[Front(p)]][i]] :
              /\ IsEntry(image, image.tree[Front(p)], i, o)
              /\ RecordAt(image, image.tree[Front(p)], i, o).name = Last(p)
    BY <1>2 DEF Sound, TreeInPlace
  <2> QED BY <1>2, <2>1 DEF Blocks, Headers, Number, RecordAt
<1>4. PICK o \in DOMAIN Headers(image, f, i) :
         IsEntry(image, Number(image, f), i, o) /\ Headers(image, f, i)[o].name = Last(p)
  BY <1>3
<1>5. i * BlockSize + o < f.cursor
  <2>1. i * BlockSize \in Nat /\ o \in Nat /\ i * BlockSize + o < f.inode.size
    BY <1>4, EntryFacts
  <2> QED BY <1>1, <2>1
<1>6. p = Append(f.path, Last(p))
  BY <1>2, TreeFacts, FrontLast
<1> QED BY <1>4, <1>5, <1>6 DEF Passed

\* What an iteration has passed are paths of the tree, entries of its directory.
LEMMA EntryPath ==
    ASSUME NEW im, Sound(im), NEW f \in Iterations(im), NEW i \in DOMAIN Blocks(im, f),
           NEW o \in DOMAIN Headers(im, f, i), IsEntry(im, Number(im, f), i, o)
    PROVE  LET p == Append(f.path, Headers(im, f, i)[o].name)
           IN  /\ p \in DOMAIN im.tree /\ im.tree[p] = Headers(im, f, i)[o].ino
               /\ p \in Seq(STRING) /\ p # <<>> /\ Front(p) = f.path
               /\ IsPrefix(f.path, p)
<1> DEFINE name == Headers(im, f, i)[o].name
           p == Append(f.path, name)
<1>1. f.path \in DOMAIN im.tree /\ im.inodes[Number(im, f)].type = "dir"
  BY DEF Iterations
<1>2. p \in DOMAIN im.tree /\ im.tree[p] = Headers(im, f, i)[o].ino
  BY <1>1 DEF Sound, TreeInPlace, Blocks, Headers, Number, RecordAt
<1>3. f.path \in Seq(STRING) /\ p \in Seq(STRING)
  BY <1>1, <1>2, TreeFacts
<1>4. name \in STRING
  <2>1. Len(p) = Len(f.path) + 1 /\ Len(f.path) \in Nat /\ p[Len(f.path) + 1] = name
    BY <1>3
  <2> QED BY <1>3, <2>1
<1>5. p # <<>> /\ Front(p) = f.path /\ IsPrefix(f.path, p)
  BY <1>3, <1>4, FrontAppend, PrefixFacts
<1> QED BY <1>2, <1>3, <1>5

\* What an iteration has passed are paths of the tree, below its directory.
LEMMA PassedPath ==
    ASSUME NEW im, Sound(im), NEW f \in Iterations(im), NEW p, Passed(im, f, p)
    PROVE  p \in DOMAIN im.tree /\ p # <<>> /\ Front(p) = f.path /\ IsPrefix(f.path, p)
<1>1. PICK i \in DOMAIN Blocks(im, f) : \E o \in DOMAIN Headers(im, f, i) :
         /\ IsEntry(im, Number(im, f), i, o)
         /\ p = Append(f.path, Headers(im, f, i)[o].name)
  BY DEF Passed
<1>2. PICK o \in DOMAIN Headers(im, f, i) :
         /\ IsEntry(im, Number(im, f), i, o)
         /\ p = Append(f.path, Headers(im, f, i)[o].name)
  BY <1>1
<1> QED BY <1>2, EntryPath

-----------------------------------------------------------------------------
(***************************************************************************)
(* What is known of a path in progress, which is looked up first and then  *)
(* extracted.                                                              *)
(***************************************************************************)

\* A lookup has not come by the name it looks for.
Lookup(im, current, frs, names) ==
    /\ Len(frs) = 1
    /\ names \in Seq(STRING) /\ names # <<>>
    /\ frs[1].path \o names = current
    /\ ~Passed(im, frs[1], Append(frs[1].path, Head(names)))

\* What an iteration has come by is extracted, except for what the next one
\* is at; the innermost one is at a path of its own, or at none (<<>>).
Stack(im, current, frs, out, at) ==
    /\ frs # <<>> /\ frs[1].path = current
    /\ \A k \in 1 .. Len(frs) :
          /\ IsPrefix(current, frs[k].path)
          /\ <<frs[k].path, "dir">> \in out
          /\ \A p \in DOMAIN im.tree :
                Passed(im, frs[k], p) =>
                    \/ Below(im, p) \subseteq out
                    \/ k < Len(frs) /\ frs[k + 1].path = p
                    \/ k = Len(frs) /\ p = at

Going(im, current, st, frs, names, out) ==
    \/ st = "failed"
    \/ st = "ready" /\ Below(im, current) \subseteq out
    \/ st = "lookup" /\ Lookup(im, current, frs, names)
    \/ st = "extract" /\ Stack(im, current, frs, out, <<>>)

\* The innermost iteration goes on, past what it is at.
LEMMA StackTop ==
    ASSUME NEW im, Sound(im), NEW frs \in Seq(Iterations(im)), NEW current, NEW out, NEW at,
           Stack(im, current, frs, out, <<>>),
           NEW g \in Iterations(im), g.path = Last(frs).path,
           \A p : Passed(im, g, p) => Passed(im, Last(frs), p) \/ p = at
    PROVE  Stack(im, current, Append(Front(frs), g), out, at)
<1> DEFINE n == Len(frs)
           new == Append(Front(frs), g)
<1>1. frs # <<>> /\ frs[1].path = current
  BY DEF Stack
<1>2. /\ n \in Nat \ {0} /\ Last(frs) = frs[n] /\ Front(frs) \in Seq(Iterations(im))
      /\ Len(Front(frs)) = n - 1 /\ \A k \in 1 .. n - 1 : Front(frs)[k] = frs[k]
  BY <1>1, FrontLast DEF Last
<1>3. /\ new # <<>> /\ Len(new) = n /\ new[n] = g
      /\ \A k \in 1 .. n - 1 : new[k] = frs[k]
  <2> DEFINE front == Front(frs)
  <2>1. front \in Seq(Iterations(im)) /\ Len(front) = n - 1
    BY <1>2
  <2> HIDE DEF front
  <2>2. /\ Len(Append(front, g)) = n - 1 + 1 /\ Append(front, g)[n - 1 + 1] = g
        /\ \A k \in 1 .. n - 1 : Append(front, g)[k] = front[k]
    BY <1>2, <2>1
  <2>3. n - 1 + 1 = n /\ Append(front, g) # <<>>
    BY <1>2, <2>1, <2>2
  <2> QED BY <1>2, <2>2, <2>3 DEF front
<1>a. \A k \in 1 .. n : \A p \in DOMAIN im.tree :
         Passed(im, frs[k], p) =>
            \/ Below(im, p) \subseteq out
            \/ k < n /\ frs[k + 1].path = p
            \/ k = n /\ p = <<>>
  BY DEF Stack, n
<1> HIDE DEF n, new
<1>4. \A k \in 1 .. n : new[k].path = frs[k].path
  BY <1>2, <1>3
<1>5. new[1].path = current
  BY <1>1, <1>2, <1>4
<1>6. ASSUME NEW k \in 1 .. n, NEW p \in DOMAIN im.tree, Passed(im, new[k], p)
      PROVE  \/ Below(im, p) \subseteq out
             \/ k < n /\ new[k + 1].path = p
             \/ k = n /\ p = at
  <2>1. CASE k < n
    <3>1. k \in 1 .. n - 1 /\ k + 1 \in 1 .. n /\ new[k] = frs[k]
      BY <1>2, <1>3, <2>1
    <3>2. Below(im, p) \subseteq out \/ frs[k + 1].path = p
      BY <1>2, <1>6, <1>a, <2>1, <3>1
    <3> QED BY <1>4, <2>1, <3>1, <3>2
  <2>2. CASE k = n
    <3>1. Passed(im, frs[n], p) \/ p = at
      BY <1>2, <1>3, <1>6, <2>2
    <3>2. ASSUME Passed(im, frs[n], p) PROVE Below(im, p) \subseteq out
      <4>1. p # <<>>
        BY <1>1, <1>2, <3>2, FrontLast, PassedPath
      <4> QED BY <1>2, <1>6, <1>a, <3>2, <4>1
    <3> QED BY <2>2, <3>1, <3>2
  <2> QED BY <1>2, <2>1, <2>2
<1>7. \A k \in 1 .. n : IsPrefix(current, new[k].path) /\ <<new[k].path, "dir">> \in out
  BY <1>4 DEF Stack, n
<1> QED BY <1>3, <1>5, <1>6, <1>7 DEF Stack, new

\* What the innermost iteration is at is extracted, or was in the output all along.
LEMMA StackGrows ==
    ASSUME NEW im, NEW frs, NEW current, NEW at, NEW out, NEW more,
           Stack(im, current, frs, out, at), out \subseteq more, Below(im, at) \subseteq more
    PROVE  Stack(im, current, frs, more, <<>>)
BY DEF Stack

\* The iteration over the directory that the innermost one is at begins.
LEMMA StackPush ==
    ASSUME NEW im, NEW frs \in Seq(Iterations(im)), NEW current, NEW at, NEW out,
           Stack(im, current, frs, out, at), IsPrefix(current, at),
           NEW g \in Iterations(im), g.path = at, \A p : ~Passed(im, g, p)
    PROVE  Stack(im, current, Append(frs, g), out \cup {<<at, "dir">>}, <<>>)
<1> DEFINE n == Len(frs)
           new == Append(frs, g)
           more == out \cup {<<at, "dir">>}
<1>1. n \in Nat \ {0} /\ frs # <<>>
  BY DEF Stack
<1>2. /\ new # <<>> /\ Len(new) = n + 1 /\ new[n + 1] = g
      /\ \A k \in 1 .. n : new[k] = frs[k]
  BY <1>1, FrontAppend
<1>3. out \subseteq more /\ <<at, "dir">> \in more
  OBVIOUS
<1> HIDE DEF n, new, more
<1>4. new[1].path = current
  BY <1>1, <1>2 DEF Stack
<1>5. ASSUME NEW k \in 1 .. n + 1
      PROVE  /\ IsPrefix(current, new[k].path) /\ <<new[k].path, "dir">> \in more
             /\ \A p \in DOMAIN im.tree : Passed(im, new[k], p) =>
                   Below(im, p) \subseteq more \/ (k < n + 1 /\ new[k + 1].path = p)
  <2>1. CASE k = n + 1
    BY <1>2, <1>3, <2>1
  <2>2. CASE k # n + 1
    <3>1. k \in 1 .. n /\ new[k] = frs[k] /\ k + 1 \in 1 .. n + 1
      BY <1>1, <1>2, <2>2
    <3>2. IsPrefix(current, frs[k].path) /\ <<frs[k].path, "dir">> \in more
      BY <1>3, <3>1 DEF Stack, n
    <3>3. ASSUME NEW p \in DOMAIN im.tree, Passed(im, frs[k], p)
          PROVE  Below(im, p) \subseteq more \/ new[k + 1].path = p
      <4>1. Below(im, p) \subseteq out \/ (k < n /\ frs[k + 1].path = p) \/ (k = n /\ p = at)
        BY <3>1, <3>3 DEF Stack, n
      <4>2. k < n => new[k + 1] = frs[k + 1]
        BY <1>1, <1>2, <3>1
      <4> QED BY <1>2, <1>3, <4>1, <4>2
    <3> QED BY <1>1, <3>1, <3>2, <3>3
  <2> QED BY <2>1, <2>2
<1> QED BY <1>2, <1>4, <1>5 DEF Stack, new, more

\* The first iteration begins.
LEMMA StackFirst ==
    ASSUME NEW im, NEW current \in Seq(STRING), NEW out, <<current, "dir">> \in out,
           NEW g, g.path = current, \A p : ~Passed(im, g, p)
    PROVE  Stack(im, current, <<g>>, out, <<>>)
<1>1. Len(<<g>>) = 1 /\ <<g>>[1] = g /\ <<g>> # <<>> /\ 1 .. 1 = {1}
  OBVIOUS
<1>2. IsPrefix(current, current)
  BY PrefixIs
<1> QED BY <1>1, <1>2 DEF Stack

\* When the innermost iteration ends, its directory is extracted.
LEMMA StackPop ==
    ASSUME NEW im, Sound(im), NEW frs \in Seq(Iterations(im)), NEW current, NEW out,
           Stack(im, current, frs, out, <<>>),
           \A p \in DOMAIN im.tree : p # <<>> /\ Front(p) = Last(frs).path => Passed(im, Last(frs), p)
    PROVE  /\ Front(frs) \in Seq(Iterations(im))
           /\ Len(frs) = 1 => Below(im, current) \subseteq out
           /\ Len(frs) # 1 => Stack(im, current, Front(frs), out, <<>>)
<1> DEFINE n == Len(frs)
           front == Front(frs)
<1>1. frs # <<>> /\ frs[1].path = current
  BY DEF Stack
<1>2. /\ n \in Nat \ {0} /\ Last(frs) = frs[n] /\ Last(frs) \in Iterations(im)
      /\ front \in Seq(Iterations(im)) /\ Len(front) = n - 1 /\ \A k \in 1 .. n - 1 : front[k] = frs[k]
  BY <1>1, FrontLast DEF Last
<1>a. \A k \in 1 .. n : \A p \in DOMAIN im.tree :
         Passed(im, frs[k], p) =>
            \/ Below(im, p) \subseteq out
            \/ k < n /\ frs[k + 1].path = p
            \/ k = n /\ p = <<>>
  BY DEF Stack, n
<1> HIDE DEF n, front
<1>3. Below(im, frs[n].path) \subseteq out
  <2> DEFINE f == frs[n]
  <2>1. f.path \in DOMAIN im.tree /\ im.inodes[im.tree[f.path]].type = "dir"
    BY <1>2 DEF Iterations, Number
  <2>2. <<f.path, "dir">> \in out
    BY <1>2 DEF Stack, n
  <2>3. ASSUME NEW p \in DOMAIN im.tree, p # <<>>, Front(p) = f.path PROVE Below(im, p) \subseteq out
    <3>1. Passed(im, f, p)
      BY <1>2, <2>3
    <3> QED BY <1>2, <1>a, <2>3, <3>1
  <2> HIDE DEF f
  <2>4. Below(im, f.path) \subseteq out
    BY <2>1, <2>2, <2>3, DirectoryIsEntries
  <2> QED BY <2>4 DEF f
<1>4. n = 1 => Below(im, current) \subseteq out
  BY <1>1, <1>3
<1>5. ASSUME n # 1 PROVE Stack(im, current, front, out, <<>>)
  <2>1. front # <<>> /\ front[1].path = current
    BY <1>1, <1>2, <1>5
  <2>2. ASSUME NEW k \in 1 .. n - 1
        PROVE  /\ IsPrefix(current, front[k].path) /\ <<front[k].path, "dir">> \in out
               /\ \A p \in DOMAIN im.tree : Passed(im, front[k], p) =>
                     Below(im, p) \subseteq out \/ (k < n - 1 /\ front[k + 1].path = p)
    <3>1. k \in 1 .. n /\ k < n /\ front[k] = frs[k] /\ (k < n - 1 => front[k + 1] = frs[k + 1])
      BY <1>2
    <3>2. IsPrefix(current, frs[k].path) /\ <<frs[k].path, "dir">> \in out
      BY <3>1 DEF Stack, n
    <3>3. ASSUME NEW p \in DOMAIN im.tree, Passed(im, frs[k], p)
          PROVE  Below(im, p) \subseteq out \/ (k < n - 1 /\ front[k + 1].path = p)
      <4>1. Below(im, p) \subseteq out \/ frs[k + 1].path = p
        BY <1>2, <1>a, <3>1, <3>3
      <4>2. k < n - 1 \/ k + 1 = n
        BY <1>2
      <4> QED BY <1>3, <3>1, <4>1, <4>2
    <3> QED BY <3>1, <3>2, <3>3
  <2> QED BY <1>2, <2>1, <2>2 DEF Stack
<1> QED BY <1>2, <1>4, <1>5 DEF n, front

-----------------------------------------------------------------------------
(***************************************************************************)
(* The steps of the path in progress.                                      *)
(***************************************************************************)

\* What every step keeps to, for the path current.
Keeps(current) ==
    /\ output \subseteq output' /\ output' \subseteq Requested
    /\ frames' \in Seq(Iterations(image))
    /\ Going(image, current, status', frames', want', output')

Placed == frames \in Seq(Iterations(image)) /\ output \subseteq Requested

\* A path goes on with the next of its names.
LEMMA NextName ==
    ASSUME NEW S, NEW s \in Seq(S), NEW w \in Seq(S), w # <<>>
    PROVE  /\ Head(w) \in S /\ Tail(w) \in Seq(S)
           /\ Append(s, Head(w)) \in Seq(S)
           /\ Append(s, Head(w)) \o Tail(w) = s \o w
           /\ IsPrefix(Append(s, Head(w)), s \o w)
<1> DEFINE e == Head(w)
           t == Tail(w)
<1>1. /\ e \in S /\ t \in Seq(S) /\ e = w[1] /\ Len(t) = Len(w) - 1 /\ Len(w) \in Nat \ {0}
      /\ \A i \in 1 .. Len(w) - 1 : t[i] = w[i + 1]
  OBVIOUS
<1> HIDE DEF e, t
<1>2. <<e>> \o t = w
  <2> DEFINE v == <<e>> \o t
  <2>1. <<e>> \in Seq(S) /\ Len(<<e>>) = 1 /\ <<e>>[1] = e
    BY <1>1
  <2>2. v \in Seq(S) /\ Len(v) = 1 + Len(t) /\ v[1] = e /\ \A i \in 2 .. 1 + Len(t) : v[i] = t[i - 1]
    BY <1>1, <2>1, ConcatProperties
  <2> HIDE DEF v
  <2>3. ASSUME NEW i \in 1 .. Len(w) PROVE v[i] = w[i]
    <3>1. CASE i = 1
      BY <1>1, <2>2, <3>1
    <3>2. CASE i # 1
      <4>1. i - 1 \in 1 .. Len(w) - 1 /\ i \in 2 .. 1 + Len(t) /\ i - 1 + 1 = i
        BY <1>1, <3>2
      <4> QED BY <1>1, <2>2, <4>1
    <3> QED BY <3>1, <3>2
  <2>4. v = w
    BY <1>1, <2>2, <2>3, SeqEqual
  <2> QED BY <2>4 DEF v
<1>3. Append(s, e) = s \o <<e>> /\ Append(s, e) \in Seq(S) /\ <<e>> \in Seq(S)
  BY <1>1, AppendIsConcat
<1>4. Append(s, e) \o t = s \o w
  <2>1. (s \o <<e>>) \o t = s \o (<<e>> \o t)
    BY <1>1, <1>3, ConcatAssociative
  <2> QED BY <1>2, <1>3, <2>1
<1>5. IsPrefix(Append(s, e), Append(s, e) \o t)
  BY <1>1, <1>3, PrefixTransitive
<1> QED BY <1>1, <1>3, <1>4, <1>5 DEF e, t

\* extract_inode writes what its path holds, and goes on below a directory.
LEMMA ExtractKeeps ==
    ASSUME Sound(image), Placed, NEW current \in Seq(STRING), Below(image, current) \subseteq Requested,
           NEW path \in DOMAIN image.tree, IsPrefix(current, path),
           NEW outer \in Seq(Iterations(image)),
           outer = <<>> => path = current,
           outer # <<>> => Stack(image, current, outer, output, path),
           Extract(image.inodes[image.tree[path]], path, outer)
    PROVE  Keeps(current)
<1> DEFINE inode == image.inodes[image.tree[path]]
           new == <<path, Holds(image, path)>>
<1>1. path \in Seq(STRING) /\ image.tree[path] \in DOMAIN image.inodes
  BY TreeFacts
<1>2. CASE ~Extractable(inode)
  BY <1>2 DEF Extract, Keeps, Placed, Going
<1>3. CASE Extractable(inode)
  <2>1. new \in Requested
    BY <1>1, BelowShrinks
  <2>2. Holds(image, path) = IF inode.type = "dir" THEN "dir" ELSE Content(inode)
    <3>1. CASE inode.type = "dir"
      BY <3>1 DEF Holds
    <3>2. CASE inode.type # "dir"
      BY <1>1, <3>2, ContentFound
    <3> QED BY <3>1, <3>2
  <2>3. /\ output' = output \cup {new}
        /\ frames' = IF inode.type = "dir" THEN Append(outer, Frame(inode, path)) ELSE outer
        /\ status' = IF frames' = <<>> THEN "ready" ELSE "extract"
    BY <1>3, <2>2 DEF Extract
  <2>4. output \subseteq output' /\ output' \subseteq Requested
    BY <2>1, <2>3 DEF Placed
  <2>5. CASE inode.type = "dir"
    <3> DEFINE g == Frame(inode, path)
    <3>1. g \in Iterations(image) /\ g.path = path /\ \A q : ~Passed(image, g, q)
      BY <2>5, FrameFacts
    <3>2. output' = output \cup {<<path, "dir">>}
      BY <2>2, <2>3, <2>5
    <3>3. frames' = Append(outer, g)
      BY <2>3, <2>5
    <3> HIDE DEF g
    <3>4. frames' \in Seq(Iterations(image)) /\ frames' # <<>>
      BY <3>1, <3>3, FrontAppend
    <3>5. Stack(image, current, frames', output', <<>>)
      <4>1. CASE outer # <<>>
        <5>1. Stack(image, current, Append(outer, g), output \cup {<<path, "dir">>}, <<>>)
          BY <3>1, <4>1, StackPush
        <5> QED BY <3>2, <3>3, <5>1
      <4>2. CASE outer = <<>>
        <5>1. frames' = <<g>> /\ path = current
          BY <3>3, <4>2
        <5>2. <<current, "dir">> \in output'
          BY <3>2, <5>1
        <5>3. Stack(image, current, <<g>>, output', <<>>)
          BY <3>1, <5>1, <5>2, StackFirst
        <5> QED BY <5>1, <5>3
      <4> QED BY <4>1, <4>2
    <3> QED BY <2>3, <2>4, <3>4, <3>5 DEF Keeps, Going
  <2>6. CASE inode.type # "dir"
    <3>1. Below(image, path) \subseteq output' /\ frames' = outer
      BY <2>3, <2>6, FileIsAlone
    <3>2. CASE outer = <<>>
      BY <2>3, <2>4, <3>1, <3>2 DEF Keeps, Going
    <3>3. CASE outer # <<>>
      <4>1. Stack(image, current, outer, output', <<>>)
        BY <2>4, <3>1, <3>3, StackGrows
      <4> QED BY <2>3, <2>4, <3>1, <3>3, <4>1 DEF Keeps, Going
    <3> QED BY <3>2, <3>3
  <2> QED BY <2>5, <2>6
<1> QED BY <1>2, <1>3

\* lookup_path comes to a path of the tree: there is nothing below a file, and
\* the last name is that of what is extracted.
LEMMA ArriveKeeps ==
    ASSUME Sound(image), Placed, NEW current \in Seq(STRING), Below(image, current) \subseteq Requested,
           NEW path \in DOMAIN image.tree, NEW rest \in Seq(STRING), path \o rest = current,
           Arrive(image.tree[path], path, rest)
    PROVE  Keeps(current)
<1> DEFINE inode == image.inodes[image.tree[path]]
<1>1. path \in Seq(STRING) /\ image.tree[path] \in DOMAIN image.inodes
  BY TreeFacts
<1>2. Inode(image.tree[path]) = inode /\ inode # Error
  BY <1>1, InodeFound
<1>3. IsPrefix(path, current)
  BY <1>1, PrefixTransitive
<1>4. CASE rest # <<>> /\ inode.type # "dir"
  <2>1. Skip
    BY <1>2, <1>4 DEF Arrive
  <2>2. path # current
    <3>1. Len(rest) \in Nat \ {0} /\ Len(path) \in Nat /\ Len(path \o rest) = Len(path) + Len(rest)
      BY <1>1, <1>4
    <3> QED BY <3>1
  <2>3. current \notin DOMAIN image.tree
    BY <1>1, <1>3, <1>4, <2>2, PathsAreClosed
  <2>4. Below(image, current) = {}
    BY <2>3, NothingBelow
  <2>5. status' = "ready" /\ frames' = <<>> /\ output' = output
    BY <2>1 DEF Skip
  <2>6. <<>> \in Seq(Iterations(image))
    OBVIOUS
  <2> QED BY <2>4, <2>5, <2>6 DEF Keeps, Going, Placed
<1>5. CASE rest = <<>>
  <2>1. Extract(inode, path, <<>>)
    BY <1>2, <1>5 DEF Arrive
  <2>2. path = current
    BY <1>1, <1>5
  <2>3. IsPrefix(current, path) /\ <<>> \in Seq(Iterations(image))
    BY <1>3, <2>2
  <2> QED BY <2>1, <2>2, <2>3, ExtractKeeps
<1>6. CASE rest # <<>> /\ inode.type = "dir"
  <2> DEFINE g == Frame(inode, path)
  <2>1. want' = rest /\ status' = "lookup" /\ frames' = <<g>> /\ output' = output
    BY <1>2, <1>6 DEF Arrive
  <2>2. g \in Iterations(image) /\ g.path = path /\ \A q : ~Passed(image, g, q)
    BY <1>6, FrameFacts
  <2> HIDE DEF g
  <2>3. <<g>> \in Seq(Iterations(image)) /\ Len(<<g>>) = 1 /\ <<g>>[1] = g
    BY <2>2
  <2>4. Lookup(image, current, frames', want')
    BY <1>6, <2>1, <2>2, <2>3 DEF Lookup
  <2> QED BY <2>1, <2>3, <2>4 DEF Keeps, Going, Placed
<1> QED BY <1>4, <1>5, <1>6

\* A path is looked up or extracted.
InProgress(current) ==
    /\ Placed /\ status \in {"lookup", "extract"}
    /\ current \in Seq(STRING) /\ Below(image, current) \subseteq Requested
    /\ Going(image, current, status, frames, want, output)

\* The innermost iteration.
LEMMA TopFacts ==
    ASSUME Sound(image), NEW current, InProgress(current)
    PROVE  /\ frames # <<>> /\ Top \in Iterations(image) /\ Front(frames) \in Seq(Iterations(image))
           /\ Top.path \in Seq(STRING) /\ Top = frames[Len(frames)]
           /\ status = "lookup" => Lookup(image, current, frames, want)
           /\ status = "extract" => Stack(image, current, frames, output, <<>>)
           /\ \A g \in Iterations(image) : WithTop(g) \in Seq(Iterations(image)) /\ WithTop(g) # <<>>
<1>1. /\ status = "lookup" => Lookup(image, current, frames, want)
      /\ status = "extract" => Stack(image, current, frames, output, <<>>)
  BY DEF InProgress, Going
<1>2. frames # <<>> /\ frames \in Seq(Iterations(image))
  BY <1>1 DEF InProgress, Placed, Lookup, Stack
<1>3. Top \in Iterations(image) /\ Front(frames) \in Seq(Iterations(image)) /\ Top = frames[Len(frames)]
  BY <1>2, FrontLast DEF Top, Last
<1>4. Top.path \in Seq(STRING)
  BY <1>3, TreeFacts DEF Iterations
<1>5. ASSUME NEW g \in Iterations(image) PROVE WithTop(g) \in Seq(Iterations(image)) /\ WithTop(g) # <<>>
  BY <1>3, <1>5, FrontAppend DEF WithTop
<1> QED BY <1>1, <1>2, <1>3, <1>4, <1>5

\* The innermost iteration moves and passes nothing that matters.
LEMMA MoveKeeps ==
    ASSUME Sound(image), NEW current, InProgress(current),
           NEW g \in Iterations(image), g.path = Top.path,
           \A p : Passed(image, g, p) =>
              Passed(image, Top, p) \/ (status = "lookup" /\ p # Append(Top.path, Head(want))),
           frames' = WithTop(g), UNCHANGED <<status, want, output>>
    PROVE  Keeps(current)
<1>1. frames' \in Seq(Iterations(image)) /\ output \subseteq output' /\ output' \subseteq Requested
  BY TopFacts DEF InProgress, Placed
<1>2. CASE status = "lookup"
  <2>1. Lookup(image, current, frames, want)
    BY <1>2, TopFacts
  <2>2. Len(frames) = 1 /\ frames[1] = Top
    BY <2>1, TopFacts DEF Lookup
  <2>3. Len(frames') = 1 /\ frames'[1] = g
    <3> DEFINE front == Front(frames)
    <3>0. frames \in Seq(Iterations(image)) /\ frames # <<>>
      BY TopFacts DEF InProgress, Placed
    <3>1. front \in Seq(Iterations(image)) /\ Len(front) = 0
      <4>1. front \in Seq(Iterations(image)) /\ Len(front) = Len(frames) - 1
        BY <3>0, FrontLast
      <4> QED BY <2>2, <4>1
    <3> HIDE DEF front
    <3>2. Len(Append(front, g)) = 0 + 1 /\ Append(front, g)[0 + 1] = g
      BY <3>1
    <3> QED BY <3>2 DEF WithTop, front
  <2>4. Lookup(image, current, frames', want')
    BY <1>2, <2>1, <2>2, <2>3 DEF Lookup
  <2> QED BY <1>1, <1>2, <2>4 DEF Keeps, Going
<1>3. CASE status = "extract"
  <2>1. Stack(image, current, frames, output, <<>>)
    BY <1>3, TopFacts
  <2>2. \A p : Passed(image, g, p) => Passed(image, Top, p) \/ p = <<>>
    BY <1>3
  <2>3. Stack(image, current, frames', output', <<>>)
    BY <2>1, <2>2, StackTop DEF Top, WithTop, InProgress, Placed
  <2> QED BY <1>1, <1>3, <2>3 DEF Keeps, Going
<1> QED BY <1>2, <1>3 DEF InProgress

\* The record at the cursor is read (iter_dir).
LEMMA BlockKeeps ==
    ASSUME Sound(image), NEW current, InProgress(current), EnterBlock \/ LeaveBlock
    PROVE  Keeps(current)
<1>1. CASE EnterBlock
  <2> DEFINE g == [Top EXCEPT !.offset = Top.cursor % BlockSize, !.advanced = FALSE]
  <2>1. Top.offset = -1 /\ Top.cursor < Top.inode.size /\ frames' = WithTop(g) /\ UNCHANGED <<status, want, output>>
    BY <1>1 DEF EnterBlock
  <2>2. g \in Iterations(image) /\ g.path = Top.path /\ \A p : Passed(image, g, p) => Passed(image, Top, p)
    BY <2>1, TopFacts, EnterFacts
  <2> HIDE DEF g
  <2> QED BY <2>1, <2>2, MoveKeeps
<1>2. CASE LeaveBlock
  <2>1. /\ Top.offset # -1 /\ frames' = WithTop(AfterBlock(Top)) /\ UNCHANGED <<status, want, output>>
        /\ InBlock(Top) => \E h \in HeadersAt(image.disk[BlockOf(Top)], Top.offset) : h.len < Header
    BY <1>2 DEF LeaveBlock
  <2>2. /\ AfterBlock(Top) \in Iterations(image) /\ AfterBlock(Top).path = Top.path
        /\ \A p : Passed(image, AfterBlock(Top), p) => Passed(image, Top, p)
    BY <2>1, TopFacts, LeaveFacts
  <2> QED BY <2>1, <2>2, MoveKeeps
<1> QED BY <1>1, <1>2

\* What the record at the cursor is, and the iteration after it.
LEMMA RecordFacts ==
    ASSUME Sound(image), NEW current, InProgress(current), NEW h, AtRecord(h)
    PROVE  LET path == Append(Top.path, h.name)
           IN  /\ Past(h) \in Iterations(image) /\ Past(h).path = Top.path
               /\ \A p : Passed(image, Past(h), p) => Passed(image, Top, p) \/ (Yields(h) /\ p = path)
               /\ Yields(h) => /\ path \in DOMAIN image.tree /\ image.tree[path] = h.ino
                               /\ IsPrefix(Top.path, path)
                               /\ Inode(h.ino) = image.inodes[image.tree[path]]
<1> DEFINE path == Append(Top.path, h.name)
<1>1. InBlock(Top) /\ h \in HeadersAt(image.disk[BlockOf(Top)], Top.offset) /\ h.len >= Header
  BY DEF AtRecord
<1>2. Top \in Iterations(image)
  BY TopFacts
<1>3. /\ Past(h) \in Iterations(image) /\ Past(h).path = Top.path
      /\ \A p : Passed(image, Past(h), p) => Passed(image, Top, p) \/ (Yields(h) /\ p = path)
      /\ Yields(h) => \E i \in DOMAIN Blocks(image, Top) : \E o \in DOMAIN Headers(image, Top, i) :
                         IsEntry(image, Number(image, Top), i, o) /\ h = Headers(image, Top, i)[o]
  BY <1>1, <1>2, PastFacts DEF Past
<1>4. ASSUME Yields(h)
      PROVE  path \in DOMAIN image.tree /\ image.tree[path] = h.ino /\ IsPrefix(Top.path, path)
  <2>1. PICK i \in DOMAIN Blocks(image, Top) : \E o \in DOMAIN Headers(image, Top, i) :
           IsEntry(image, Number(image, Top), i, o) /\ h = Headers(image, Top, i)[o]
    BY <1>3, <1>4
  <2>2. PICK o \in DOMAIN Headers(image, Top, i) :
           IsEntry(image, Number(image, Top), i, o) /\ h = Headers(image, Top, i)[o]
    BY <2>1
  <2> QED BY <1>2, <2>2, EntryPath
<1>5. Yields(h) => Inode(h.ino) = image.inodes[image.tree[path]]
  BY <1>4, TreeFacts, InodeFound
<1> QED BY <1>3, <1>4, <1>5

\* A lookup goes on below the entry that it looks for, and past any other.
LEMMA LookupKeeps ==
    ASSUME Sound(image), NEW current, InProgress(current), NEW h, LookupRecord(h)
    PROVE  Keeps(current)
<1> DEFINE path == Append(Top.path, h.name)
<1>1. status = "lookup" /\ AtRecord(h)
  BY DEF LookupRecord
<1>2. /\ frames[1].path \o want = current /\ want \in Seq(STRING) /\ want # <<>>
      /\ frames[1] = Top
  BY <1>1, TopFacts DEF Lookup
<1>3. CASE Yields(h) /\ h.name = Head(want)
  <2>1. Arrive(h.ino, path, Tail(want))
    BY <1>3 DEF LookupRecord
  <2>2. path \in DOMAIN image.tree /\ image.tree[path] = h.ino
    BY <1>1, <1>3, RecordFacts
  <2>3. Tail(want) \in Seq(STRING) /\ path \o Tail(want) = current
    BY <1>2, <1>3, TopFacts, NextName
  <2> HIDE DEF path
  <2>4. Arrive(image.tree[path], path, Tail(want))
    BY <2>1, <2>2
  <2> QED BY <2>2, <2>3, <2>4, ArriveKeeps DEF InProgress
<1>4. CASE ~(Yields(h) /\ h.name = Head(want))
  <2>1. frames' = WithTop(Past(h)) /\ UNCHANGED <<status, want, output>>
    BY <1>4 DEF LookupRecord
  <2>2. Append(Top.path, Head(want)) = path => h.name = Head(want)
    <3>1. Last(path) = h.name /\ Last(Append(Top.path, Head(want))) = Head(want)
      BY TopFacts, FrontAppend
    <3> QED BY <3>1
  <2>3. /\ Past(h) \in Iterations(image) /\ Past(h).path = Top.path
        /\ \A p : Passed(image, Past(h), p) => Passed(image, Top, p) \/ (Yields(h) /\ p = path)
    BY <1>1, RecordFacts
  <2>4. \A p : Passed(image, Past(h), p) =>
                  Passed(image, Top, p) \/ (status = "lookup" /\ p # Append(Top.path, Head(want)))
    BY <1>1, <1>4, <2>2, <2>3
  <2> QED BY <2>1, <2>3, <2>4, MoveKeeps
<1> QED BY <1>3, <1>4

\* An entry is extracted, and the iteration is past it.
LEMMA ExtractRecordKeeps ==
    ASSUME Sound(image), NEW current, InProgress(current), NEW h, ExtractRecord(h)
    PROVE  Keeps(current)
<1> DEFINE path == Append(Top.path, h.name)
           outer == WithTop(Past(h))
<1>1. status = "extract" /\ AtRecord(h)
  BY DEF ExtractRecord
<1>2. Stack(image, current, frames, output, <<>>)
  BY <1>1, TopFacts
<1>3. /\ Past(h) \in Iterations(image) /\ Past(h).path = Top.path
      /\ \A p : Passed(image, Past(h), p) => Passed(image, Top, p) \/ (Yields(h) /\ p = path)
      /\ Yields(h) => /\ path \in DOMAIN image.tree /\ image.tree[path] = h.ino
                      /\ IsPrefix(Top.path, path)
                      /\ Inode(h.ino) = image.inodes[image.tree[path]]
  BY <1>1, RecordFacts
<1>4. CASE Yields(h) /\ h.name \notin Separated
  <2>1. Extract(image.inodes[image.tree[path]], path, outer)
    BY <1>3, <1>4 DEF ExtractRecord
  <2>2. outer \in Seq(Iterations(image)) /\ outer # <<>>
    BY <1>3, TopFacts
  <2>3. Stack(image, current, outer, output, path)
    <3>1. \A p : Passed(image, Past(h), p) => Passed(image, Last(frames), p) \/ p = path
      BY <1>3 DEF Top
    <3>2. Past(h).path = Last(frames).path /\ frames \in Seq(Iterations(image))
      BY <1>3 DEF Top, InProgress, Placed
    <3> DEFINE g == Past(h)
    <3>3. g \in Iterations(image)
      BY <1>3
    <3> HIDE DEF g, path
    <3>4. Stack(image, current, Append(Front(frames), g), output, path)
      BY <1>2, <3>1, <3>2, <3>3, StackTop DEF g
    <3> QED BY <3>4 DEF WithTop, g
  <2>4. IsPrefix(current, path)
    <3>1. IsPrefix(current, Top.path)
      <4>1. Len(frames) \in 1 .. Len(frames) /\ Top = frames[Len(frames)]
        BY TopFacts DEF InProgress, Placed
      <4> QED BY <1>2, <4>1 DEF Stack
    <3> QED BY <1>3, <1>4, <3>1, TopFacts, TreeFacts, PrefixTransitive DEF InProgress
  <2> HIDE DEF path, outer
  <2> QED BY <1>3, <1>4, <2>1, <2>2, <2>3, <2>4, ExtractKeeps DEF InProgress
<1>5. CASE ~Yields(h)
  <2>1. frames' = outer /\ UNCHANGED <<status, want, output>>
    BY <1>5 DEF ExtractRecord
  <2> QED BY <1>3, <1>5, <2>1, MoveKeeps
<1>6. CASE Yields(h) /\ h.name \in Separated
  <2>1. status' = "failed" /\ UNCHANGED <<frames, output>>
    BY <1>6 DEF ExtractRecord
  <2> QED BY <2>1 DEF Keeps, Going, InProgress, Placed
<1> QED BY <1>4, <1>5, <1>6

\* The path is not there, or the innermost directory is extracted.
LEMMA EndKeeps ==
    ASSUME Sound(image), NEW current, InProgress(current), NotFound \/ EndDirectory
    PROVE  Keeps(current)
<1>1. Top.offset = -1 /\ (Top.cursor < Top.inode.size => BlockOf(Top) = 0)
  BY DEF NotFound, EndDirectory, Ended
<1>2. \A p \in DOMAIN image.tree : p # <<>> /\ Front(p) = Top.path => Passed(image, Top, p)
  BY <1>1, TopFacts, EndFacts
<1>3. CASE NotFound
  <2>1. status = "lookup" /\ Skip
    BY <1>3 DEF NotFound
  <2>2. /\ Top.path \o want = current /\ want \in Seq(STRING) /\ want # <<>>
        /\ ~Passed(image, Top, Append(Top.path, Head(want)))
    BY <2>1, TopFacts DEF Lookup
  <2> DEFINE next == Append(Top.path, Head(want))
  <2>3. next \in Seq(STRING) /\ IsPrefix(next, current)
    BY <2>2, TopFacts, NextName
  <2>4. next # <<>> /\ Front(next) = Top.path
    <3>1. Head(want) \in STRING /\ Top.path \in Seq(STRING)
      BY <2>2, TopFacts, NextName
    <3> QED BY <3>1, FrontAppend
  <2>5. next \notin DOMAIN image.tree
    BY <1>2, <2>2, <2>4
  <2>6. Below(image, next) = {}
    BY <2>3, <2>5, NothingBelow
  <2> HIDE DEF next
  <2>7. Below(image, current) = {}
    BY <2>3, <2>6, BelowShrinks DEF InProgress
  <2>8. status' = "ready" /\ frames' = <<>> /\ output' = output /\ <<>> \in Seq(Iterations(image))
    BY <2>1 DEF Skip
  <2> QED BY <2>7, <2>8 DEF Keeps, Going, InProgress, Placed
<1>4. CASE EndDirectory
  <2>1. /\ status = "extract" /\ frames' = Front(frames) /\ output' = output
        /\ status' = IF Len(frames) = 1 THEN "ready" ELSE "extract"
    BY <1>4 DEF EndDirectory
  <2>2. Stack(image, current, frames, output, <<>>)
    BY <2>1, TopFacts
  <2>3. /\ Front(frames) \in Seq(Iterations(image))
        /\ Len(frames) = 1 => Below(image, current) \subseteq output
        /\ Len(frames) # 1 => Stack(image, current, Front(frames), output, <<>>)
    BY <1>2, <2>2, StackPop DEF Top, InProgress, Placed
  <2> QED BY <2>1, <2>3 DEF Keeps, Going, InProgress, Placed
<1> QED BY <1>3, <1>4

-----------------------------------------------------------------------------
(***************************************************************************)
(* The paths that are asked for, one after the other.                      *)
(***************************************************************************)

\* How many have been begun; the first n of them are extracted.
Begun == Len(image.asked) - Len(left)
Extracted(n) == \A i \in 1 .. n : Below(image, image.asked[i]) \subseteq output

\* What is left is the end of what was asked for.
LeftInv ==
    /\ left \in Seq(Seq(STRING)) /\ Len(left) <= Len(image.asked)
    /\ \A i \in 1 .. Len(left) : left[i] = image.asked[Begun + i]

ReaderInv ==
    /\ image \in Images /\ LeftInv /\ Placed
    /\ status \in {"closed", "ready", "lookup", "extract", "done", "failed"}
    /\ status = "closed" => Begun = 0
    /\ status \in {"ready", "done"} => Extracted(Begun)
    /\ status = "done" => left = <<>>
    /\ status \in {"lookup", "extract"} =>
          /\ Begun \in 1 .. Len(image.asked) /\ Extracted(Begun - 1)
          /\ Going(image, image.asked[Begun], status, frames, want, output)

\* The paths asked for, and what is below them.
LEMMA AskedFacts ==
    ASSUME image \in Images
    PROVE  /\ image.asked \in Seq(Seq(STRING)) /\ Len(image.asked) \in Nat
           /\ \A n \in 1 .. Len(image.asked) :
                 image.asked[n] \in Seq(STRING) /\ Below(image, image.asked[n]) \subseteq Requested
<1>1. image.asked \in Seq(Seq(STRING))
  BY AskedAssumption
<1> QED BY <1>1 DEF Requested

\* How the step of a path leaves the stage.
LEMMA PathKeeps ==
    ASSUME image \in Images, image' = image, LeftInv', NEW n \in 1 .. Len(image.asked), Begun' = n,
           Extracted(n - 1), Keeps(image.asked[n])
    PROVE  ReaderInv'
<1>1. /\ output \subseteq output' /\ output' \subseteq Requested /\ frames' \in Seq(Iterations(image))
      /\ Going(image, image.asked[n], status', frames', want', output')
  BY DEF Keeps
<1>2. Placed'
  BY <1>1 DEF Placed, Requested
<1>3. n - 1 \in Nat /\ \A i \in 1 .. n : i \in 1 .. n - 1 \/ i = n
  BY AskedFacts
<1>4. Extracted(n - 1)' /\ (status' = "ready" => Extracted(n)')
  <2>1. \A i \in 1 .. n - 1 : Below(image, image.asked[i]) \subseteq output'
    BY <1>1 DEF Extracted
  <2>2. status' = "ready" => Below(image, image.asked[n]) \subseteq output'
    BY <1>1 DEF Going
  <2> QED BY <1>3, <2>1, <2>2 DEF Extracted
<1>5. status' \in {"ready", "lookup", "extract", "failed"}
  BY <1>1 DEF Going
<1>6. image' \in Images /\ Going(image, image.asked[n], status, frames, want, output)'
  BY <1>1
<1> QED BY <1>2, <1>4, <1>5, <1>6 DEF ReaderInv

\* A path is in progress.
LEMMA PathInProgress ==
    ASSUME ReaderInv, status \in {"lookup", "extract"}
    PROVE  Begun \in 1 .. Len(image.asked) /\ InProgress(image.asked[Begun])
BY AskedFacts DEF ReaderInv, InProgress

\* The steps within a path.
LEMMA WithinPath ==
    ASSUME Sound(image), ReaderInv, EnterBlock \/ LeaveBlock \/ Record \/ NotFound \/ EndDirectory
    PROVE  ReaderInv'
<1> DEFINE n == Begun
           current == image.asked[n]
<1>1. status \in {"lookup", "extract"} /\ UNCHANGED <<image, left>>
  BY DEF EnterBlock, LeaveBlock, Record, LookupRecord, ExtractRecord, NotFound, EndDirectory, Ended, Iterating
<1>2. n \in 1 .. Len(image.asked) /\ InProgress(current)
  BY <1>1, PathInProgress
<1>3. image \in Images /\ LeftInv' /\ Begun' = n /\ Extracted(n - 1)
  BY <1>1 DEF ReaderInv, LeftInv, Begun
<1> HIDE DEF n
<1>4. Keeps(current)
  <2> HIDE DEF current
  <2>1. CASE EnterBlock \/ LeaveBlock
    BY <1>2, <2>1, BlockKeeps
  <2>2. CASE Record
    <3>1. PICK h : LookupRecord(h) \/ ExtractRecord(h)
      BY <2>2 DEF Record
    <3> QED BY <1>2, <3>1, LookupKeeps, ExtractRecordKeeps
  <2>3. CASE NotFound \/ EndDirectory
    BY <1>2, <2>3, EndKeeps
  <2> QED BY <2>1, <2>2, <2>3
<1> QED BY <1>1, <1>2, <1>3, <1>4, PathKeeps

\* The next path is taken up.
LEMMA NextPathKeeps ==
    ASSUME Sound(image), ReaderInv, NextPath
    PROVE  ReaderInv'
<1> DEFINE n == Begun + 1
           rest == Head(left)
<1>1. /\ status = "ready" /\ left # <<>> /\ left' = Tail(left) /\ image' = image
      /\ Arrive(RootIno, <<>>, rest)
  BY DEF NextPath
<1>2. image \in Images /\ LeftInv /\ Placed /\ Extracted(Begun)
  BY <1>1 DEF ReaderInv
<1>3. /\ left \in Seq(Seq(STRING)) /\ Len(left) \in Nat \ {0} /\ Len(image.asked) \in Nat
      /\ Len(left) <= Len(image.asked) /\ Begun = Len(image.asked) - Len(left)
      /\ \A i \in 1 .. Len(left) : left[i] = image.asked[Begun + i]
  BY <1>1, <1>2, AskedFacts DEF LeftInv, Begun
<1>4. /\ left' \in Seq(Seq(STRING)) /\ Len(left') = Len(left) - 1 /\ rest = left[1]
      /\ \A i \in 1 .. Len(left) - 1 : left'[i] = left[i + 1]
  BY <1>1, <1>3
<1>5. n \in 1 .. Len(image.asked) /\ Begun' = n /\ n - 1 = Begun /\ rest = image.asked[n]
  BY <1>1, <1>3, <1>4 DEF Begun
<1>6. LeftInv'
  <2>1. ASSUME NEW i \in 1 .. Len(left') PROVE left'[i] = image.asked[n + i]
    <3>1. i \in 1 .. Len(left) - 1 /\ i + 1 \in 1 .. Len(left)
      BY <1>3, <1>4
    <3> DEFINE b == Begun
    <3>2. b \in Int /\ i \in Int
      BY <1>3, <3>1
    <3> HIDE DEF b
    <3>3. b + (i + 1) = b + 1 + i
      BY <3>2
    <3> QED BY <1>3, <1>4, <3>1, <3>3 DEF b
  <2>2. Len(left') <= Len(image.asked)
    BY <1>3, <1>4
  <2> QED BY <1>1, <1>4, <1>5, <2>1, <2>2 DEF LeftInv
<1>7. rest \in Seq(STRING) /\ Below(image, rest) \subseteq Requested /\ <<>> \o rest = rest
  BY <1>2, <1>5, AskedFacts
<1>8. <<>> \in DOMAIN image.tree /\ image.tree[<<>>] = RootIno
  BY TreeFacts
<1> HIDE DEF n, rest
<1>9. Keeps(rest)
  BY <1>1, <1>2, <1>7, <1>8, ArriveKeeps
<1>10. Extracted(n - 1) /\ Keeps(image.asked[n])
  BY <1>2, <1>5, <1>9
<1> QED BY <1>1, <1>2, <1>5, <1>6, <1>10, PathKeeps

\* The image is opened, and the stage ends.
LEMMA EndsKeep ==
    ASSUME ReaderInv, Open \/ Finish \/ UNCHANGED readerVars
    PROVE  ReaderInv'
<1>1. UNCHANGED <<image, left, want, frames, output>>
  BY DEF Open, Finish, readerVars
<1>2. image' \in Images /\ LeftInv' /\ Placed' /\ Begun' = Begun
  BY <1>1 DEF ReaderInv, LeftInv, Placed, Begun, Requested
<1>3. \A k : Extracted(k)' <=> Extracted(k)
  BY <1>1 DEF Extracted
<1>4. CASE Open
  <2>1. status = "closed" /\ status' \in {"ready", "failed"} /\ Begun = 0
    BY <1>4 DEF Open, ReaderInv
  <2>2. Extracted(0)
    BY DEF Extracted
  <2> QED BY <1>2, <1>3, <2>1, <2>2 DEF ReaderInv
<1>5. CASE Finish
  BY <1>1, <1>2, <1>3, <1>5 DEF ReaderInv, Finish
<1>6. CASE UNCHANGED readerVars
  <2>1. status' = status
    BY <1>6 DEF readerVars
  <2> QED BY <1>1, <1>2, <1>3, <2>1 DEF ReaderInv
<1> QED BY <1>4, <1>5, <1>6

\* The stage begins with nothing extracted.
LEMMA ReaderInvInit == ReaderInit => ReaderInv
<1> SUFFICES ASSUME ReaderInit PROVE ReaderInv
  OBVIOUS
<1>1. /\ image \in Images /\ status = "closed" /\ left = image.asked
      /\ frames = <<>> /\ output = {}
  BY DEF ReaderInit
<1>2. image.asked \in Seq(Seq(STRING)) /\ Len(image.asked) \in Nat /\ Begun = 0
  BY <1>1, AskedFacts DEF Begun
<1>3. LeftInv
  BY <1>1, <1>2 DEF LeftInv
<1>4. Placed
  BY <1>1 DEF Placed
<1> QED BY <1>1, <1>2, <1>3, <1>4 DEF ReaderInv

\* The image that is read stays the same.
LEMMA SameImage == ReaderNext \/ UNCHANGED readerVars => image' = image
BY DEF ReaderNext, ReaderStep, Open, NextPath, Finish, EnterBlock, LeaveBlock, Record,
       LookupRecord, ExtractRecord, NotFound, EndDirectory, Stopped, readerVars

\* On every sound image, the directories in progress are those on the way
\* from the path in progress to a record; every entry that one of them has
\* come by is extracted with all that is below it, but for the entry that the
\* next one is at; and so is every path before.
\* (ExtractStage.run, lookup_path, extract_inode, iter_dir)
THEOREM ReaderInvariant == ReaderSpec => [](Sound(image) => ReaderInv)
<1>1. ReaderInit => (Sound(image) => ReaderInv)
  BY ReaderInvInit
<1>2. (Sound(image) => ReaderInv) /\ [ReaderNext]_readerVars => (Sound(image) => ReaderInv)'
  <2> SUFFICES ASSUME Sound(image) => ReaderInv, [ReaderNext]_readerVars, Sound(image)'
               PROVE  ReaderInv'
    OBVIOUS
  <2>1. image' = image
    BY SameImage
  <2>2. Sound(image) /\ ReaderInv
    BY <2>1
  <2>3. CASE EnterBlock \/ LeaveBlock \/ Record \/ NotFound \/ EndDirectory
    BY <2>2, <2>3, WithinPath
  <2>4. CASE NextPath
    BY <2>2, <2>4, NextPathKeeps
  <2>5. CASE Open \/ Finish \/ UNCHANGED readerVars
    BY <2>2, <2>5, EndsKeep
  <2> QED BY <2>3, <2>4, <2>5 DEF ReaderNext, ReaderStep, Stopped
<1> QED BY <1>1, <1>2, PTL DEF ReaderSpec

\* From every sound image, of whatever size, nothing is written but what its
\* tree holds at and below the paths asked for, and all of it if the stage
\* ends without an error.  (iter_dir, inode_block, read_file, extract_inode)
THEOREM ExtractsExactly == ReaderSpec => []ExtractedIsExact
<1>1. (Sound(image) => ReaderInv) => ExtractedIsExact
  <2> SUFFICES ASSUME Sound(image), ReaderInv PROVE ExtractedIsExact
    BY DEF ExtractedIsExact
  <2>1. output \subseteq Requested
    BY DEF ReaderInv, Placed
  <2>2. ASSUME status = "done" PROVE Requested \subseteq output
    <3>1. image \in Images /\ left = <<>> /\ Extracted(Begun)
      BY <2>2 DEF ReaderInv
    <3>2. Begun = Len(image.asked) /\ DOMAIN image.asked = 1 .. Len(image.asked)
      BY <3>1, AskedFacts DEF Begun
    <3>3. \A i \in DOMAIN image.asked : Below(image, image.asked[i]) \subseteq output
      BY <3>1, <3>2 DEF Extracted
    <3> QED BY <3>3 DEF Requested
  <2> QED BY <2>1, <2>2 DEF ExtractedIsExact
<1> QED BY <1>1, ReaderInvariant, PTL

\* In every sound image the bytes taken for the header of a record are always
\* those of one, or of a block without any.  (iter_dir)
THEOREM CursorStaysAtRecords == ReaderSpec => []CursorAtRecord
<1>1. (Sound(image) => ReaderInv) => CursorAtRecord
  <2> SUFFICES ASSUME Sound(image), ReaderInv, Iterating, InBlock(Top)
               PROVE  Top.offset \in DOMAIN image.disk[BlockOf(Top)]
    BY DEF CursorAtRecord
  <2>1. Top \in Iterations(image)
    BY FrontLast DEF Iterating, ReaderInv, Placed, Top
  <2>2. PICK i \in DOMAIN Blocks(image, Top) :
           /\ image.disk[BlockOf(Top)] = Headers(image, Top, i)
           /\ Top.offset \in DOMAIN Headers(image, Top, i)
    BY <2>1, AtARecord
  <2> QED BY <2>2
<1> QED BY <1>1, ReaderInvariant, PTL
=============================================================================
