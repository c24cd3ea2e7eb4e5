----------------------------- MODULE MCBlueyFS -----------------------------
(***************************************************************************)
(* TLC instance of BlueyFS: a block holds two records, one is addressed    *)
(* directly, two through one block of pointers and four through two.  The  *)
(* root directory has a file, a subdirectory with a link, and a deleted    *)
(* entry; its records are laid out in all ways over up to four blocks, and *)
(* the file has up to eight blocks, one more than can be addressed.        *)
(***************************************************************************)
EXTENDS BlueyFS, FiniteSets

\* Inodes: 2 is the root, 3 the file f, 4 the directory d, 5 the link l in d.
Rec(ino, name, len) == [ino |-> ino, name |-> name, len |-> len]

\* The headers of a block by their offset; a block without records is zeroed.
Length(recs, j) == FoldFunctionOnSet(LAMBDA r, n : r.len + n, 0, recs, 1 .. j)
Block(recs) ==
    [o \in {Length(recs, j - 1) : j \in DOMAIN recs} \cup (IF recs = <<>> THEN 0 .. BlockSize - 1 ELSE {}) |->
        IF recs = <<>> THEN Rec(0, "", 0)
        ELSE recs[CHOOSE j \in DOMAIN recs : Length(recs, j - 1) = o]]

DotBlock == <<Rec(2, ".", 3), Rec(2, "..", 3)>>
Shared == {<<Rec(3, "f", 3), Rec(4, "d", 3)>>, <<Rec(0, "f", 3), Rec(4, "d", 3)>>, <<Rec(3, "f", 4), Rec(0, "", 2)>>}
Unshared == {<<>>, <<Rec(3, "f", 6)>>, <<Rec(4, "d", 6)>>, <<Rec(0, "", 2), Rec(0, "", 2), Rec(0, "", 2)>>}
Short == {<<Rec(3, "f", 3)>>, <<Rec(4, "d", 3)>>}
Damaged == {<<Rec(3, "f", 3), Rec(0, "", 0)>>, <<Rec(3, "f", 5)>>, <<Rec(3, "f", 8)>>,
            <<Rec(3, "a/b", 3), Rec(0, "", 3)>>}

Layouts(blocks) ==
    {<<DotBlock>> \o rest : rest \in UNION {[1 .. n -> blocks] : n \in 1 .. 3}}

\* How often an entry is in a layout.
Times(layout, ino) ==
    Cardinality({<<i, j>> \in (2 .. Len(layout)) \X (1 .. 3) :
        j \in DOMAIN layout[i] /\ layout[i][j].ino = ino})

\* Every entry once, and no short block but the last.
SoundLayouts ==
    {l \in Layouts(Shared \cup Unshared \cup Short) :
        /\ \A i \in 2 .. Len(l) : l[i] \in Short => i = Len(l)
        /\ Times(l, 3) = 1 /\ Times(l, 4) = 1}

DamagedLayouts ==
    {l \in Layouts(Shared \cup Unshared \cup Damaged) : \E i \in 2 .. Len(l) : l[i] \in Damaged}

(***************************************************************************)
(* The disk.  Blocks 1, 2 and 3 hold the inodes, two groups of four with   *)
(* two in a block.  The blocks of a file or directory are numbered from a  *)
(* base upwards, and so are its blocks of pointers from base + 10; 0 is no *)
(* block.                                                                  *)
(***************************************************************************)

Blocks(size) == (size + BlockSize - 1) \div BlockSize

Ino(type, size, base, hole) ==
    [type |-> type, size |-> size,
     block |-> [i \in 0 .. 2 |-> CASE i = 0 /\ Blocks(size) > 0 /\ hole # 0 -> base
                                   [] i = 1 /\ Blocks(size) > 1 -> base + 10
                                   [] i = 2 /\ Blocks(size) > 3 -> base + 11
                                   [] OTHER -> 0]]

\* The blocks of pointers for n blocks, of which one may be a hole.
PointerBlocks(base, n, hole) ==
    LET number(i) == IF i < n /\ i # hole THEN base + i ELSE 0
    IN  [b \in base + 10 .. base + 13 |->
            [i \in 0 .. 1 |-> CASE b = base + 10 -> number(1 + i)
                                [] b = base + 11 -> IF 3 + 2 * i < n THEN base + 12 + i ELSE 0
                                [] b = base + 12 -> number(3 + i)
                                [] OTHER -> number(5 + i)]]

None == [type |-> "none", size |-> 0, block |-> [i \in 0 .. 2 |-> 0]]

\* The blocks that can be addressed, and the hole.
Given(base, n, hole) == [i \in 0 .. (IF n > 7 THEN 7 ELSE n) - 1 |-> IF i = hole THEN 0 ELSE base + i]

Image(layout, size, hole, asked) ==
    LET last == Length(layout[Len(layout)], Len(layout[Len(layout)]))
        rootSize == BlockSize * (Len(layout) - 1) + (IF layout[Len(layout)] \in Short THEN last ELSE BlockSize)
        link == <<Rec(5, "l", 6)>>
        inodes == [n \in 2 .. 5 |->
            CASE n = 2 -> Ino("dir", rootSize, 20, -1) [] n = 3 -> Ino("file", size, 40, hole)
              [] n = 4 -> Ino("dir", 12, 60, -1)       [] n = 5 -> Ino("link", 3, 80, -1)]
    IN  [valid |-> TRUE, asked |-> asked,
         inodeCount |-> 8, blockCount |-> 12, tables |-> [g \in 0 .. 1 |-> 1 + 2 * g],
         disk |-> [b \in 1 .. 80 |->
            CASE b = 1 -> [i \in 0 .. 1 |-> IF i = 1 THEN inodes[2] ELSE None]
              [] b = 2 -> [i \in 0 .. 1 |-> inodes[3 + i]]
              [] b = 3 -> [i \in 0 .. 1 |-> IF i = 0 THEN inodes[5] ELSE None]
              [] b \in 20 .. 19 + Len(layout) -> Block(layout[b - 19])
              [] b \in 30 .. 33 -> PointerBlocks(20, Len(layout), -1)[b]
              [] b \in 50 .. 53 -> PointerBlocks(40, Blocks(size), hole)[b]
              [] b = 60 -> Block(DotBlock)
              [] b = 61 -> Block(link)
              [] b \in 70 .. 73 -> PointerBlocks(60, 2, -1)[b]
              [] OTHER -> b],
         inodes |-> inodes,
         blocks |-> [n \in 2 .. 5 |->
            CASE n = 2 -> Given(20, Len(layout), -1)     [] n = 3 -> Given(40, Blocks(size), hole)
              [] n = 4 -> Given(60, 2, -1)               [] n = 5 -> Given(80, 1, -1)],
         tree |-> [p \in {<<>>, <<"d">>, <<"d", "l">>, <<"f">>} |->
            CASE p = <<>> -> 2 [] p = <<"d">> -> 4 [] p = <<"d", "l">> -> 5 [] p = <<"f">> -> 3]]

Everything == <<<<>>>>
Several == <<<<"d">>, <<"none">>, <<"f", "x">>, <<"d", "l">>, <<"f">>>>

\* All layouts with one file; one layout with all files; damaged layouts; no image.
AllImages ==
    {Image(l, 9, -1, asked) : l \in SoundLayouts, asked \in {Everything, Several}}
        \cup {Image(<<DotBlock, <<Rec(3, "f", 3), Rec(4, "d", 3)>>>>, size, hole, Several) :
                  size \in 0 .. 8 * BlockSize, hole \in -1 .. 6}
        \cup {Image(l, 9, -1, Everything) : l \in DamagedLayouts}
        \cup {[Image(<<DotBlock>>, 0, -1, Everything) EXCEPT !.valid = FALSE]}
=============================================================================
