--------------------------- MODULE MCSysrootMerge ---------------------------
(***************************************************************************)
(* TLC instance of SysrootMerge: two names with two children each, and     *)
(* all payloads of files, directories and links between the names.  Names  *)
(* are interchangeable, and so are children.                               *)
(***************************************************************************)
EXTENDS SysrootMerge, TLC

\* Both names of a payload: absent, a file, a link to the other name, or a
\* directory, empty or with files.
AllPayloads ==
    {source \in [Path -> {None, Dir} \cup {File(o) : o \in Owner} \cup {Link(<<t>>) : t \in Top}] :
        /\ \A p \in Path : Len(p) = 2 /\ source[p] # None =>
              source[<<p[1]>>] = Dir /\ source[p] \in {File(o) : o \in Owner}
        /\ \A t \in Top : source[<<t>>] # Link(<<t>>)
        /\ Cardinality({o \in Owner : \E p \in Path : source[p] = File(o)}) <= 1}

Symmetry == Permutations(Top) \cup Permutations(Child)
=============================================================================
