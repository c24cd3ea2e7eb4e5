----------------------------- MODULE ClawUnits -----------------------------
(***************************************************************************)
(* etc/claw/units.manifest in the sysroot, the list of the services that   *)
(* the init system claw starts, and the recipes whose install() writes it. *)
(*                                                                         *)
(* claw installs its payload, a manifest of its own units included, and    *)
(* then appends every unit file it finds in the sysroot.  The other        *)
(* recipes install their payload and, if there is a manifest, append their *)
(* own units (_update_claw_manifest); some never do.  Payloads are merged  *)
(* file by file, in directory order, by SysrootInstaller._merge_path,      *)
(* which removes what it replaces.                                         *)
(*                                                                         *)
(* Components are rebuilt in any order and any number of times.  An        *)
(* install may raise, or the process may die, before any of its steps.     *)
(***************************************************************************)
EXTENDS Integers, Sequences, FiniteSets, SequencesExt

CONSTANTS
    Recipe,     \* the recipes that install units, claw included
    Claw,       \* the recipe of claw itself
    Unit,       \* unit files
    Manifest,   \* the manifest, as one of the files of claw's payload
    Units,      \* the unit files in the payload of each recipe
    Registers,  \* the recipes that call _update_claw_manifest
    Scattered,  \* those that look for payload and binary in several places
    Stock,      \* the lines of the manifest in claw's payload
    Absent,     \* the value of lines when there is no manifest
    MaxStops    \* bound: how many installs are cut short

ASSUME RecipeAssumption ==
    /\ IsFiniteSet(Unit)
    /\ Claw \in Recipe
    /\ Registers \subseteq Recipe \ {Claw} /\ Scattered \subseteq Registers
    /\ Units \in [Recipe -> SUBSET Unit]
    /\ Manifest \notin Unit
    /\ MaxStops \in Nat

\* A unit belongs to one recipe; claw ships some that others bring as well.
ASSUME SharingAssumption ==
    \A r1, r2 \in Recipe : r1 # r2 /\ Claw \notin {r1, r2} => Units[r1] \cap Units[r2] = {}

ASSUME StockAssumption ==
    /\ Stock \in Seq(Unit) /\ IsInjective(Stock)
    /\ Absent \notin Seq(Unit)

VARIABLES
    present,   \* the unit files in the sysroot
    lines,     \* the lines of units.manifest
    pc,        \* where install() is
    who,       \* the recipe being installed
    todo,      \* the files still to be merged, then the entries still to be looked for
    buffer,    \* the lines read from the manifest, with those appended
    partial,   \* history: recipes whose last install was cut short
    lost,      \* history: entries were lost since claw was last installed
    stops      \* number of installs cut short

sysroot == <<present, lines>>
local == <<who, todo, buffer>>
history == <<partial, lost, stops>>
vars == <<sysroot, pc, local, history>>

Init ==
    /\ present = {} /\ lines = Absent
    /\ pc = "idle"
    /\ who = Claw /\ todo = {} /\ buffer = <<>>
    /\ partial = {} /\ lost = FALSE /\ stops = 0

-----------------------------------------------------------------------------
(***************************************************************************)
(* The payload.                                                            *)
(***************************************************************************)

Payload(r) == Units[r] \cup (IF r = Claw THEN {Manifest} ELSE {})

\* A scattered payload may be nowhere; then nothing is merged.
Start(r) ==
    /\ pc = "idle"
    /\ pc' = "merging"
    /\ who' = r
    /\ \/ todo' = Payload(r)
       \/ r \in Scattered /\ todo' = {}
    /\ UNCHANGED <<sysroot, buffer, history>>

\* Mutant: the manifest is merged like a unit.
MergeAny(f) ==
    /\ pc = "merging"
    /\ f \in todo
    /\ todo' = todo \ {f}
    /\ present' = present \cup {f}
    /\ UNCHANGED <<lines, pc, who, buffer, partial, lost, stops>>

\* _merge_path replaces one file; the directory is listed in any order.
Merge(f) ==
    /\ pc = "merging"
    /\ f \in todo
    /\ todo' = todo \ {f}
    /\ IF f = Manifest
       THEN lines' = Stock /\ lost' = TRUE /\ UNCHANGED present
       ELSE present' = present \cup {f} /\ UNCHANGED <<lines, lost>>
    /\ UNCHANGED <<pc, who, buffer, partial, stops>>

-----------------------------------------------------------------------------
(***************************************************************************)
(* The registration.                                                       *)
(***************************************************************************)

\* Mutant: only the units of claw's own payload are appended.
DesiredOwn(r) == Units[r]

\* desired_entries: claw lists the directories, the others name their units.
Desired(r) == IF r = Claw THEN present ELSE Units[r]

EndOf(r) ==
    /\ pc' = "idle"
    /\ partial' = partial \ {r}
    /\ lost' = (lost /\ r # Claw)
    /\ UNCHANGED <<local, stops>>

\* The recipe does not register its units, or did not find its binary, or
\* there is no manifest.
SkipRegistration ==
    /\ pc = "merging"
    /\ todo = {}
    /\ who \notin Registers \cup {Claw} \/ who \in Scattered \/ lines = Absent
    /\ EndOf(who)
    /\ UNCHANGED sysroot

Read ==
    /\ pc = "merging"
    /\ todo = {}
    /\ who \in Registers \cup {Claw} /\ lines # Absent
    /\ buffer' = lines
    /\ todo' = Desired(who)
    /\ pc' = "appending"
    /\ UNCHANGED <<sysroot, who, history>>

\* Mutant: entries are appended without looking for them first.
AppendAlways(u) ==
    /\ pc = "appending"
    /\ u \in todo
    /\ todo' = todo \ {u}
    /\ buffer' = Append(buffer, u)
    /\ UNCHANGED <<sysroot, pc, who, history>>

\* Mutant: the manifest is rewritten with one of the entries of this recipe.
AppendToNothing(u) ==
    /\ pc = "appending"
    /\ u \in todo
    /\ todo' = todo \ {u}
    /\ buffer' = <<u>>
    /\ UNCHANGED <<sysroot, pc, who, history>>

\* A desired entry that is not in the file yet goes to its end.
AppendMissing(u) ==
    /\ pc = "appending"
    /\ u \in todo
    /\ todo' = todo \ {u}
    /\ buffer' = IF u \in ToSet(buffer) THEN buffer ELSE Append(buffer, u)
    /\ UNCHANGED <<sysroot, pc, who, history>>

\* The manifest is rewritten if an entry was appended.
Register ==
    /\ pc = "appending"
    /\ todo = {}
    /\ lines' = buffer
    /\ EndOf(who)
    /\ UNCHANGED present

-----------------------------------------------------------------------------

\* What a recipe leaves in the sysroot when it is cut short: a file that was
\* about to be replaced may be gone, and a manifest that was being rewritten
\* ends anywhere.
Torn ==
    \/ UNCHANGED <<sysroot, lost>>
    \/ /\ pc = "merging"
       /\ \E f \in todo \cap Unit : present' = present \ {f}
       /\ UNCHANGED <<lines, lost>>
    \/ /\ pc = "merging"
       /\ Manifest \in todo
       /\ lines' = Absent
       /\ lost' = TRUE
       /\ UNCHANGED present
    \/ /\ pc = "appending"
       /\ todo = {}
       /\ buffer # lines
       /\ \E n \in 0 .. Len(buffer) - 1 : lines' = SubSeq(buffer, 1, n)
       /\ lost' = TRUE
       /\ UNCHANGED present

\* A step of install() raises, or the process dies.
Stop ==
    /\ pc # "idle"
    /\ stops < MaxStops
    /\ Torn
    /\ pc' = "idle"
    /\ partial' = partial \cup {who}
    /\ stops' = stops + 1
    /\ UNCHANGED local

-----------------------------------------------------------------------------

Step ==
    \/ \E f \in Unit \cup {Manifest} : Merge(f)
    \/ SkipRegistration
    \/ Read
    \/ \E u \in Unit : AppendMissing(u)
    \/ Register

Next ==
    \/ \E r \in Recipe : Start(r)
    \/ Step
    \/ Stop

Spec == Init /\ [][Next]_vars

\* An install goes on until it ends, and claw is rebuilt now and then.
FairSpec == Spec /\ WF_vars(Step) /\ SF_vars(Start(Claw))

-----------------------------------------------------------------------------
(***************************************************************************)
(* Properties.                                                             *)
(***************************************************************************)

Registered == IF lines = Absent THEN {} ELSE ToSet(lines)

\* The type of the sysroot's units and manifest and of install()'s variables.
TypeOK ==
    /\ present \in SUBSET Unit
    /\ lines \in Seq(Unit) \cup {Absent}
    /\ pc \in {"idle", "merging", "appending"}
    /\ who \in Recipe
    /\ todo \in SUBSET (Unit \cup {Manifest})
    /\ buffer \in Seq(Unit)
    /\ partial \in SUBSET Recipe
    /\ lost \in BOOLEAN
    /\ stops \in 0 .. MaxStops

\* Whatever the order of the rebuilds, and although claw replaces the whole
\* manifest each time: between installs the units of every recipe that always
\* registers and was installed to the end are in the manifest, unless entries
\* were lost and claw was not installed since.
InstalledAreRegistered ==
    pc = "idle" /\ lines # Absent /\ ~ lost =>
        \A r \in (Registers \cup {Claw}) \ (Scattered \cup partial) :
            Units[r] \cap present \subseteq Registered

\* Installing claw to the end registers every unit that is in the sysroot,
\* those of recipes that did not register and of interrupted installs too.
ClawRepairs ==
    [][pc # "idle" /\ pc' = "idle" /\ who = Claw /\ Claw \notin partial'
           => lines' # Absent /\ present' \subseteq ToSet(lines')]_vars

\* However often components are rebuilt, no service is listed twice.
NoDuplicates == lines # Absent => IsInjective(lines)

\* Once claw is rebuilt, every unit in the sysroot is a service of the image.
UnitsGetRegistered == \A u \in Unit : u \in present ~> u \in Registered \/ u \notin present
=============================================================================
