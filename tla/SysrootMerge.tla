---------------------------- MODULE SysrootMerge ----------------------------
(***************************************************************************)
(* SysrootInstaller (helpers/sysroot.py): payloads of files, directories   *)
(* and symbolic links are put into one sysroot, where entries of another   *)
(* kind may be in the way and directories may be links to others.          *)
(*                                                                         *)
(* Paths have two levels.  An install_tree into "." merges one entry after *)
(* the other, in the order of os.listdir: what is in the way is removed,   *)
(* then the entry is made, and a directory's own entries come before the   *)
(* next one.  It may be cut short anywhere.  A step that lacks permission  *)
(* is done by sudo instead, or fails; neither makes a further outcome.     *)
(* Links are relative, so they stay in the sysroot.                        *)
(***************************************************************************)
EXTENDS Naturals, Sequences, FiniteSets

CONSTANTS
    Top,        \* names in the sysroot
    Child,      \* names in a directory of the sysroot
    Owner,      \* what a file holds, by who made it
    Torn,       \* the content of a file that was not copied to its end
    Payloads,   \* the trees that are installed
    None,       \* no entry
    MaxStops    \* bound: how many installs are cut short

Path == {<<t>> : t \in Top} \cup (Top \X Child)

Dir == <<"dir">>
File(o) == <<"file", o>>
Link(to) == <<"link", to>>
IsLink(node) == node # None /\ node[1] = "link"

\* What can be at a path of each level; a link leads to one of the same level.
FileNode == {File(o) : o \in Owner \cup {Torn}}
TopNode == {None, Dir} \cup FileNode \cup {Link(<<t>>) : t \in Top}
LeafNode == {None} \cup FileNode \cup {Link(p) : p \in Top \X Child}

\* A tree: nothing lies below what is not a directory.
IsTree(tr) ==
    /\ tr \in [Path -> TopNode \cup LeafNode]
    /\ \A t \in Top : tr[<<t>>] \in TopNode
    /\ \A p \in Top \X Child : tr[p] \in LeafNode /\ (tr[p] # None => tr[<<p[1]>>] = Dir)

ASSUME NodeAssumption ==
    /\ IsFiniteSet(Top) /\ IsFiniteSet(Child)
    /\ None \notin Top \cup Path \cup {Dir} \cup FileNode \cup {Link(p) : p \in Path}
    /\ \A source \in Payloads : IsTree(source)
    /\ MaxStops \in Nat

VARIABLES
    tree,      \* the sysroot
    pc,        \* whether an install_tree is going on
    payload,   \* its source tree
    todo,      \* the entries listed, and not yet merged
    at,        \* the entry being merged
    before,    \* history: the sysroot when it began
    stops      \* number of installs cut short

vars == <<tree, pc, payload, todo, at, before, stops>>

Nothing == [p \in Path |-> None]

Init ==
    /\ tree = Nothing
    /\ pc = "idle"
    /\ payload = Nothing /\ todo = {} /\ at = None
    /\ before = Nothing
    /\ stops = 0

\* The call is over, and its locals with it.
Leave ==
    /\ pc' = "idle"
    /\ payload' = Nothing /\ todo' = {} /\ at' = None
    /\ before' = Nothing

-----------------------------------------------------------------------------
(***************************************************************************)
(* Links.                                                                  *)
(***************************************************************************)

\* The first n values of x, f[x], f[f[x]] and so on.
Iterates(f, x, n) ==
    LET it[i \in 0 .. n] == IF i = 0 THEN x ELSE f[it[i - 1]]
    IN  it

\* The names on the way from t, as far as links lead.
NextName(tr) == [t \in Top |-> IF IsLink(tr[<<t>>]) THEN tr[<<t>>][2][1] ELSE t]
Way(tr, t) == Iterates(NextName(tr), t, Cardinality(Top))
EndOfWay(tr, t) == Way(tr, t)[Cardinality(Top)]

\* The directory that t is or leads to (os.path.isdir), None if none.
DirOf(tr, t) == IF tr[<<EndOfWay(tr, t)>>] = Dir THEN EndOfWay(tr, t) ELSE None

\* Mutant: links in the path are not followed.
RealUnfollowed(tr, p) == p

\* The entry that a path names, its parent being a directory or a link to one.
Real(tr, p) == IF Len(p) = 1 THEN p ELSE <<DirOf(tr, p[1]), p[2]>>

\* Mutant: what a directory has stays when it is removed.
WithoutEntry(tr, p) == [tr EXCEPT ![p] = None]

\* The sysroot without an entry and, if that is a directory, what it has.
Without(tr, p) ==
    [q \in Path |-> IF q = p \/ (Len(p) = 1 /\ q[1] = p[1]) THEN None ELSE tr[q]]

\* A rmtree that did not get to its end.
PartlyWithout(tr, p) ==
    {[q \in Path |-> IF q \in gone THEN None ELSE tr[q]] :
        gone \in SUBSET {q \in Path : Len(p) = 1 /\ Len(q) = 2 /\ q[1] = p[1]}}

-----------------------------------------------------------------------------
(***************************************************************************)
(* install_tree into the root of the sysroot, and _merge_path.             *)
(***************************************************************************)

StartMerge(source) ==
    /\ pc = "idle"
    /\ pc' = "merging"
    /\ payload' = source
    /\ todo' = {p \in Path : Len(p) = 1 /\ source[p] # None}
    /\ before' = tree
    /\ UNCHANGED <<tree, at, stops>>

\* The entries of a directory come before the next one beside it.
Enter(p) ==
    /\ pc = "merging" /\ at = None
    /\ p \in todo
    /\ Len(p) = 1 => \A q \in todo : Len(q) = 1
    /\ at' = p
    /\ todo' = todo \ {p}
    /\ UNCHANGED <<tree, pc, payload, before, stops>>

\* Mutant: a directory that is there already is in the way.
InTheWayAlways == tree[Real(tree, at)] # None

\* A directory makes use of one that is there, or of a link to one.
InTheWay ==
    /\ tree[Real(tree, at)] # None
    /\ payload[at] = Dir => DirOf(tree, at[1]) = None

Remove ==
    /\ pc = "merging" /\ at # None
    /\ InTheWay
    /\ tree' = Without(tree, Real(tree, at))
    /\ UNCHANGED <<pc, payload, todo, at, before, stops>>

Create ==
    /\ pc = "merging" /\ at # None
    /\ ~InTheWay
    /\ tree' = IF tree[Real(tree, at)] = None
               THEN [tree EXCEPT ![Real(tree, at)] = payload[at]]
               ELSE tree
    /\ todo' = todo \cup {p \in Path : at = <<p[1]>> /\ Len(p) = 2 /\ payload[p] # None}
    /\ at' = None
    /\ UNCHANGED <<pc, payload, before, stops>>

Merged == pc = "merging" /\ todo = {} /\ at = None

EndMerge ==
    /\ Merged
    /\ Leave
    /\ UNCHANGED <<tree, stops>>

\* The install raises or dies: in a removal, in the copy of a file, or
\* between two steps.
Stop ==
    /\ pc = "merging" /\ stops < MaxStops
    /\ stops' = stops + 1
    /\ Leave
    /\ IF at = None THEN UNCHANGED tree
       ELSE IF InTheWay THEN tree' \in PartlyWithout(tree, Real(tree, at))
       ELSE tree' \in {tree} \cup {[tree EXCEPT ![Real(tree, at)] = File(Torn)] :
                                     n \in {payload[at]} \cap {File(o) : o \in Owner}}

-----------------------------------------------------------------------------
(***************************************************************************)
(* The other operations.                                                   *)
(***************************************************************************)

\* makedirs of the parent fails if that is a file or a link to nothing.
WithParent(tr, t) == IF tr[<<t>>] = None THEN [tr EXCEPT ![<<t>>] = Dir] ELSE tr

\* Where a copy to p ends up: it follows the links of the path and of the
\* file itself, None if they lead nowhere.
NextPath(tr) ==
    [p \in (Top \X Child) \cup {None} |->
        IF p = None \/ DirOf(tr, p[1]) = None THEN None
        ELSE IF IsLink(tr[Real(tr, p)]) THEN tr[Real(tr, p)][2]
        ELSE Real(tr, p)]

Written(tr, p) ==
    LET n == Cardinality(Top \X Child)
        last == Iterates(NextPath(tr), p, n)[n]
    IN  IF last = None \/ DirOf(tr, last[1]) = None \/ IsLink(tr[Real(tr, last)]) THEN None
        ELSE Real(tr, last)

Others == UNCHANGED <<pc, payload, todo, at, before, stops>>

\* install_file, install_binary, install_library, install_header
InstallFile(p, o) ==
    /\ pc = "idle"
    /\ LET tr == WithParent(tree, p[1])
       IN  /\ Written(tr, p) # None
           /\ tree' = [tr EXCEPT ![Written(tr, p)] = File(o)]
    /\ Others

\* symlink: whatever is at the place of the link goes.
MakeLink(p, to) ==
    /\ pc = "idle"
    /\ LET tr == WithParent(tree, p[1])
       IN  /\ DirOf(tr, p[1]) # None
           /\ tree' = [tr EXCEPT ![Real(tr, p)] = Link(to)]
    /\ Others

\* A link to nothing is not seen and makes the copy fail.
CanReplace(t, source) ==
    /\ pc = "idle"
    /\ source[<<t>>] = Dir
    /\ IsLink(tree[<<t>>]) => tree[<<EndOfWay(tree, t)>>] # None /\ ~IsLink(tree[<<EndOfWay(tree, t)>>])

\* install_tree into a directory replaces it, or the link to it.
ReplaceTree(t, source) ==
    /\ CanReplace(t, source)
    /\ tree' = [q \in Path |-> IF q[1] = t THEN source[q] ELSE tree[q]]
    /\ Others

\* A copytree that did not get to its end: some entries, of which one may be torn.
PartlyCopied(t, source) ==
    LET new == {q \in Path : Len(q) = 2 /\ q[1] = t /\ source[q] # None}
    IN  {[q \in Path |->
             IF q[1] # t THEN tree[q]
             ELSE IF Len(q) = 1 THEN Dir
             ELSE IF q = last /\ ~IsLink(source[q]) THEN File(Torn)
             ELSE IF q \in done THEN source[q] ELSE None] : done \in SUBSET new, last \in new \cup {None}}

\* It raises or dies while it removes the directory, or after that.
StopReplace(t, source) ==
    /\ CanReplace(t, source) /\ stops < MaxStops
    /\ stops' = stops + 1
    /\ tree' \in PartlyWithout(tree, <<t>>) \cup {Without(tree, <<t>>)} \cup PartlyCopied(t, source)
    /\ UNCHANGED <<pc, payload, todo, at, before>>

Next ==
    \/ \E source \in Payloads : StartMerge(source)
    \/ \E p \in Path : Enter(p)
    \/ Remove \/ Create \/ EndMerge
    \/ Stop
    \/ \E p \in Top \X Child, o \in Owner : InstallFile(p, o)
    \/ \E p, to \in Top \X Child : p # to /\ MakeLink(p, to)
    \/ \E t \in Top, source \in Payloads : ReplaceTree(t, source) \/ StopReplace(t, source)

Spec == Init /\ [][Next]_vars

-----------------------------------------------------------------------------
(***************************************************************************)
(* Properties.                                                             *)
(***************************************************************************)

\* The sysroot is a tree of entries of the right kinds: nothing lies below
\* what is not a directory, whatever was removed, replaced or cut short.
\* (SysrootInstaller)
TypeOK ==
    /\ IsTree(tree)
    /\ pc \in {"idle", "merging"}
    /\ todo \subseteq Path /\ at \in Path \cup {None}
    /\ stops \in 0 .. MaxStops

\* A directory of the payload that is a link in the sysroot leads to another
\* name; the order of the listing matters if the payload has that name, or
\* two of its directories lead to the same one.
OrderMatters ==
    \E t \in Top :
        /\ payload[<<t>>] = Dir
        /\ \/ \E i \in DOMAIN Way(before, t) :
                 Way(before, t)[i] # t /\ payload[<<Way(before, t)[i]>>] # None
           \/ \E u \in Top \ {t} :
                 payload[<<u>>] = Dir /\ DirOf(before, u) = DirOf(before, t) /\ DirOf(before, t) # None

\* The directories of the payload that end up in directory t.
Sources(t) ==
    {s \in Top : payload[<<s>>] = Dir /\ DirOf(before, s) \in {t} \cup (IF s = t THEN {None} ELSE {})}

\* What the sysroot should be: the payload over what was there.
Overlay(p) ==
    LET named == payload[<<p[1]>>]
        top == IF named = None \/ (named = Dir /\ DirOf(before, p[1]) # None)
               THEN before[<<p[1]>>] ELSE named
        new == {s \in Sources(p[1]) : payload[<<s, p[2]>>] # None}
    IN  IF Len(p) = 1 THEN top
        ELSE IF top # Dir THEN None
        ELSE IF new # {} THEN payload[<<CHOOSE s \in new : TRUE, p[2]>>]
        ELSE IF before[<<p[1]>>] = Dir THEN before[p] ELSE None

\* A merge that ends has put the payload over the sysroot as it was, through
\* links to directories as well, whatever earlier interrupted merges left and
\* in whatever order os.listdir gives the entries; only where a directory of
\* the payload leads to another one of its entries the order does matter.
\* (install_tree, _merge_path)
MergeIsOverlay == Merged /\ ~OrderMatters => \A p \in Path : tree[p] = Overlay(p)

\* No step of a merge, an interrupted one included, changes an entry that
\* the payload neither has, through links if need be, nor replaces with
\* everything below it.
\* (_merge_path: "without deleting unrelated existing contents")
UnrelatedSurvive ==
    [][pc = "merging" =>
          \A p \in Path :
              tree'[p] # tree[p] =>
                  IF Len(p) = 1 THEN payload[p] # None
                  ELSE \/ payload[<<p[1]>>] \notin {None, Dir}
                       \/ \E s \in Top : payload[<<s, p[2]>>] # None /\ DirOf(tree, s) = p[1]]_vars
=============================================================================
