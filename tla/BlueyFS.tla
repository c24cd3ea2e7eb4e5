------------------------------ MODULE BlueyFS ------------------------------
(***************************************************************************)
(* `baker extract`: the reader of BlueyFS images (helpers/blueyfs.py) and  *)
(* the stage that copies paths out of one (stages/extract.py).             *)
(*                                                                         *)
(* A directory is a file of records, each with its own length; iter_dir    *)
(* goes through them with a cursor, block by block.  It is a generator:    *)
(* the record it yields is extracted, with the whole directory below it,   *)
(* before it goes on, so that a stack of iterations is in progress.        *)
(*                                                                         *)
(* Offsets and lengths are counted in units of which a record's header has *)
(* Header; the sizes of the format are parameters.  A block of the disk is *)
(* what is stored in it: inodes, pointers, the headers of records by their *)
(* offset, or data.  An image also says what whoever made it put there     *)
(* (inodes, blocks, tree), which the reader does not look at.              *)
(***************************************************************************)
EXTENDS Integers, Sequences, SequencesExt

CONSTANTS
    BlockSize, Header, NDirect, PointersPerBlock,
    InodesPerBlock, InodesPerGroup, BlocksPerGroup,
    RootIno,
    Images,     \* the images that may be read, with the paths that are asked for
    Dots,       \* the names "." and ".."
    Separated,  \* names that have a separator in them
    Error       \* the value of what raises

ASSUME SizeAssumption ==
    /\ BlockSize \in Nat /\ Header \in 1 .. BlockSize
    /\ NDirect \in Nat /\ PointersPerBlock \in Nat \ {0}
    /\ InodesPerBlock \in Nat \ {0} /\ InodesPerGroup \in Nat \ {0}
    /\ BlocksPerGroup \in Nat \ {0}

ASSUME AskedAssumption == \A im \in Images : im.asked \in Seq(Seq(STRING))

VARIABLES
    image,     \* the image being read
    status,    \* "closed", "ready" for the next path, "lookup", "extract", "done", "failed"
    left,      \* the paths still to be extracted
    want,      \* during a lookup, the names still to be found
    frames,    \* the iterations in progress, the innermost last
    output     \* what was written: paths with what they hold

readerVars == <<image, status, left, want, frames, output>>

ReaderInit ==
    /\ image \in Images
    /\ status = "closed"
    /\ left = image.asked
    /\ want = <<>> /\ frames = <<>> /\ output = {}

-----------------------------------------------------------------------------
(***************************************************************************)
(* Inodes and files.                                                       *)
(***************************************************************************)

NumGroups == (image.blockCount + BlocksPerGroup - 1) \div BlocksPerGroup

\* read_inode
Inode(n) ==
    LET group == (n - 1) \div InodesPerGroup
        local == (n - 1) % InodesPerGroup
    IN  IF n = 0 \/ n > image.inodeCount \/ group >= NumGroups THEN Error
        ELSE image.disk[image.tables[group] + local \div InodesPerBlock][local % InodesPerBlock]

\* The i-th pointer of a block of pointers, 0 if there is no such block.
Pointer(disk, block, i) == IF block = 0 THEN 0 ELSE disk[block][i]

\* inode_block: direct, indirect, doubly indirect.
InodeBlock(inode, index) ==
    LET single == index - NDirect
        double == single - PointersPerBlock
    IN  IF index < NDirect THEN inode.block[index]
        ELSE IF single < PointersPerBlock THEN Pointer(image.disk, inode.block[NDirect], single)
        ELSE IF double < PointersPerBlock * PointersPerBlock
             THEN LET level1 == inode.block[NDirect + 1]
                      level2 == Pointer(image.disk, level1, double \div PointersPerBlock)
                  IN  Pointer(image.disk, level2, double % PointersPerBlock)
        ELSE 0

\* read_file stops at a block that is not there, and then raises.
Content(inode) ==
    LET blocks == (inode.size + BlockSize - 1) \div BlockSize
        number == [i \in 1 .. blocks |-> InodeBlock(inode, i - 1)]
    IN  IF 0 \in Range(number) THEN Error
        ELSE <<inode.size, [i \in 1 .. blocks |-> image.disk[number[i]]]>>

-----------------------------------------------------------------------------
(***************************************************************************)
(* The iteration over a directory.  offset is the local block_offset, -1   *)
(* at the head of the outer loop.                                          *)
(***************************************************************************)

Frame(inode, path) == [inode |-> inode, path |-> path, cursor |-> 0, offset |-> -1, advanced |-> FALSE]

Iterating == status \in {"lookup", "extract"} /\ frames # <<>>
Top == Last(frames)
WithTop(f) == Append(Front(frames), f)
BlockOf(f) == InodeBlock(f.inode, f.cursor \div BlockSize)

\* The header at an offset of a block.  Where no record begins, the bytes of
\* one are taken for a header of any length.
HeadersAt(block, offset) ==
    IF offset \in DOMAIN block THEN {block[offset]}
    ELSE {[len |-> n, ino |-> 0, name |-> ""] : n \in 0 .. BlockSize + 1}

\* Mutant: the inner loop does not look at the size of the directory.
InBlockWhole(f) == f.offset # -1 /\ f.offset + Header <= BlockSize

InBlock(f) == f.offset # -1 /\ f.offset + Header <= BlockSize /\ f.cursor < f.inode.size

\* The outer loop reads the block of the cursor.
EnterBlock ==
    /\ Iterating /\ Top.offset = -1
    /\ Top.cursor < Top.inode.size /\ BlockOf(Top) # 0
    /\ frames' = WithTop([Top EXCEPT !.offset = Top.cursor % BlockSize, !.advanced = FALSE])
    /\ UNCHANGED <<image, status, left, want, output>>

\* Mutant: the cursor stays when nothing was found in a block.
AfterBlockStay(f) == [f EXCEPT !.offset = -1]

\* The inner loop ended; a block without a record is skipped.
AfterBlock(f) ==
    [f EXCEPT !.offset = -1, !.cursor = IF f.advanced THEN @ ELSE @ + BlockSize]

LeaveBlock ==
    /\ Iterating /\ Top.offset # -1
    /\ InBlock(Top) => \E h \in HeadersAt(image.disk[BlockOf(Top)], Top.offset) : h.len < Header
    /\ frames' = WithTop(AfterBlock(Top))
    /\ UNCHANGED <<image, status, left, want, output>>

\* The directory is read to its end, or to a block that is not there.
Ended == Iterating /\ Top.offset = -1 /\ (Top.cursor < Top.inode.size => BlockOf(Top) = 0)

\* The record at the cursor, and the iteration after it.
AtRecord(h) ==
    /\ Iterating /\ InBlock(Top)
    /\ h \in HeadersAt(image.disk[BlockOf(Top)], Top.offset)
    /\ h.len >= Header

Past(h) ==
    [Top EXCEPT !.offset = @ + h.len, !.cursor = @ + h.len, !.advanced = TRUE]

\* Mutant: the inode of a deleted record is not looked at.
YieldsNamed(h) == h.name # "" /\ h.name \notin Dots

Yields(h) == h.ino # 0 /\ h.name # "" /\ h.name \notin Dots

-----------------------------------------------------------------------------
(***************************************************************************)
(* ExtractStage.run and lookup_path.                                       *)
(***************************************************************************)

\* The image is opened: its superblock has to be one of BlueyFS.
Open ==
    /\ status = "closed"
    /\ status' = IF image.valid THEN "ready" ELSE "failed"
    /\ UNCHANGED <<image, left, want, frames, output>>

\* What extract_inode can write: directories, and files and links that are
\* read to their end.
Extractable(inode) ==
    /\ inode # Error
    /\ inode.type \in {"dir", "file", "link"}
    /\ inode.type # "dir" => Content(inode) # Error

\* extract_inode, with the iterations it is called from.
Extract(inode, path, outer) ==
    IF ~Extractable(inode) THEN status' = "failed" /\ UNCHANGED <<frames, output>>
    ELSE /\ output' = output \cup {<<path, IF inode.type = "dir" THEN "dir" ELSE Content(inode)>>}
         /\ frames' = IF inode.type = "dir" THEN Append(outer, Frame(inode, path)) ELSE outer
         /\ status' = IF frames' = <<>> THEN "ready" ELSE "extract"

\* The stage warns, and goes on with the next path.
Skip == status' = "ready" /\ want' = <<>> /\ frames' = <<>> /\ UNCHANGED output

\* The lookup found inode n: nothing there, a directory to go on in, or the
\* end of the path.
Arrive(n, path, rest) ==
    IF Inode(n) = Error \/ (rest # <<>> /\ Inode(n).type # "dir") THEN Skip
    ELSE /\ want' = rest
         /\ IF rest = <<>> THEN Extract(Inode(n), path, <<>>)
            ELSE status' = "lookup" /\ frames' = <<Frame(Inode(n), path)>> /\ UNCHANGED output

\* A path that does not begin with "/" is skipped, as one is that leads nowhere.
NextPath ==
    /\ status = "ready" /\ left # <<>>
    /\ left' = Tail(left)
    /\ Arrive(RootIno, <<>>, Head(left))
    /\ UNCHANGED image

Finish ==
    /\ status = "ready" /\ left = <<>>
    /\ status' = "done"
    /\ UNCHANGED <<image, left, want, frames, output>>

\* The loop of lookup_path over the entries of one directory.
LookupRecord(h) ==
    /\ status = "lookup" /\ AtRecord(h)
    /\ IF Yields(h) /\ h.name = Head(want)
       THEN Arrive(h.ino, Append(Top.path, h.name), Tail(want))
       ELSE frames' = WithTop(Past(h)) /\ UNCHANGED <<status, want, output>>
    /\ UNCHANGED <<image, left>>

NotFound ==
    /\ status = "lookup" /\ Ended
    /\ Skip
    /\ UNCHANGED <<image, left>>

\* The loop of extract_inode, and of _extract_path, over a directory.
ExtractRecord(h) ==
    /\ status = "extract" /\ AtRecord(h)
    /\ \/ /\ ~Yields(h)
          /\ frames' = WithTop(Past(h))
          /\ UNCHANGED <<status, output>>
       \/ /\ Yields(h) /\ h.name \notin Separated
          /\ Extract(Inode(h.ino), Append(Top.path, h.name), WithTop(Past(h)))
       \/ /\ Yields(h) /\ h.name \in Separated      \* safe_child_path
          /\ status' = "failed"
          /\ UNCHANGED <<frames, output>>
    /\ UNCHANGED <<image, left, want>>

EndDirectory ==
    /\ status = "extract" /\ Ended
    /\ frames' = Front(frames)
    /\ status' = IF Len(frames) = 1 THEN "ready" ELSE "extract"
    /\ UNCHANGED <<image, left, want, output>>

Record ==
    /\ Iterating /\ InBlock(Top)
    /\ \E h \in HeadersAt(image.disk[BlockOf(Top)], Top.offset) : LookupRecord(h) \/ ExtractRecord(h)

Stopped == status \in {"done", "failed"} /\ UNCHANGED readerVars

ReaderStep ==
    \/ Open \/ NextPath \/ Finish
    \/ EnterBlock \/ LeaveBlock \/ Record
    \/ NotFound \/ EndDirectory

ReaderNext == ReaderStep \/ Stopped

ReaderSpec == ReaderInit /\ [][ReaderNext]_readerVars
FairReaderSpec == ReaderSpec /\ WF_readerVars(ReaderStep)

-----------------------------------------------------------------------------
(***************************************************************************)
(* Sound images, by where things are put: im.inodes are the inodes by      *)
(* their numbers, im.blocks[n] the blocks given to inode n (0 is a hole),  *)
(* and im.tree the inode number of every path.                             *)
(***************************************************************************)

\* An inode is in a slot of a block of the table of its group.
InodesInPlace(im) ==
    /\ im.inodeCount \in Nat /\ im.blockCount \in Nat
    /\ DOMAIN im.inodes \subseteq 1 .. im.inodeCount /\ DOMAIN im.tables \subseteq Nat
    /\ \A n \in DOMAIN im.inodes :
          \E g \in DOMAIN im.tables, b \in 0 .. InodesPerGroup - 1, slot \in 0 .. InodesPerBlock - 1 :
              /\ n = g * InodesPerGroup + b * InodesPerBlock + slot + 1
              /\ b * InodesPerBlock + slot < InodesPerGroup
              /\ g * BlocksPerGroup < im.blockCount
              /\ im.disk[im.tables[g] + b][slot] = im.inodes[n]

\* As many blocks as can be addressed.
Addressable == NDirect + PointersPerBlock + PointersPerBlock * PointersPerBlock

\* The numbers of the first blocks of a file are in its inode, the next ones
\* in one block of pointers, the others in blocks that such a block points to.
BlocksInPlace(im, n) ==
    LET inode == im.inodes[n]
        blocks == im.blocks[n]
        given == {i \in 0 .. Addressable - 1 : i * BlockSize < inode.size}
        first == inode.block[NDirect]
        second == inode.block[NDirect + 1]
    IN  /\ inode # Error /\ inode.size \in Nat
        /\ DOMAIN blocks = given
        /\ \A i \in 0 .. NDirect - 1 : i \in given => inode.block[i] = blocks[i]
        /\ \A i \in 0 .. PointersPerBlock - 1 :
              NDirect + i \in given => Pointer(im.disk, first, i) = blocks[NDirect + i]
        /\ \A i, j \in 0 .. PointersPerBlock - 1 :
              LET k == NDirect + PointersPerBlock + i * PointersPerBlock + j
              IN  k \in given => Pointer(im.disk, Pointer(im.disk, second, i), j) = blocks[k]

\* The records of a block, of which the directory has room units, fill it one
\* after the other, or it has none.
Filled(block, room) ==
    /\ 0 \in DOMAIN block
    /\ \/ \A o \in DOMAIN block : block[o].len \in Nat /\ block[o].len < Header
       \/ \A o \in DOMAIN block :
             LET end == o + block[o].len
             IN  /\ o \in Nat /\ block[o].len \in Nat /\ block[o].len >= Header
                 /\ end <= BlockSize
                 /\ end \in DOMAIN block \/ end = BlockSize \/ end >= room
                 /\ \A next \in DOMAIN block : o < next => end <= next

DirectoryInPlace(im, n) ==
    /\ im.inodes[n].size <= Addressable * BlockSize
    /\ \A i \in DOMAIN im.blocks[n] :
          /\ im.blocks[n][i] # 0
          /\ Filled(im.disk[im.blocks[n][i]], im.inodes[n].size - i * BlockSize)

\* The record at offset o of the i-th block of directory n is an entry: it is
\* in the directory, is not deleted, and is not that of the directory itself.
RecordAt(im, n, i, o) == im.disk[im.blocks[n][i]][o]
IsEntry(im, n, i, o) ==
    /\ i * BlockSize + o < im.inodes[n].size
    /\ RecordAt(im, n, i, o).len >= Header
    /\ RecordAt(im, n, i, o).ino # 0
    /\ RecordAt(im, n, i, o).name \notin Dots \cup {""}

\* Every path but the root is an entry of its directory, and every entry of a
\* directory is a path.
TreeInPlace(im) ==
    /\ <<>> \in DOMAIN im.tree /\ im.tree[<<>>] = RootIno
    /\ \A p \in DOMAIN im.tree :
          /\ p \in Seq(STRING) /\ im.tree[p] \in DOMAIN im.inodes
          /\ p # <<>> =>
                /\ Front(p) \in DOMAIN im.tree
                /\ LET dir == im.tree[Front(p)]
                   IN  /\ im.inodes[dir].type = "dir"
                       /\ \E i \in DOMAIN im.blocks[dir] :
                             \E o \in DOMAIN im.disk[im.blocks[dir][i]] :
                                 IsEntry(im, dir, i, o) /\ RecordAt(im, dir, i, o).name = Last(p)
          /\ im.inodes[im.tree[p]].type = "dir" =>
                \A i \in DOMAIN im.blocks[im.tree[p]] :
                    \A o \in DOMAIN im.disk[im.blocks[im.tree[p]][i]] :
                        LET record == RecordAt(im, im.tree[p], i, o)
                        IN  IsEntry(im, im.tree[p], i, o) =>
                              /\ Append(p, record.name) \in DOMAIN im.tree
                              /\ im.tree[Append(p, record.name)] = record.ino

Sound(im) ==
    /\ InodesInPlace(im)
    /\ \A n \in DOMAIN im.inodes : BlocksInPlace(im, n)
    /\ \A n \in DOMAIN im.inodes : im.inodes[n].type = "dir" => DirectoryInPlace(im, n)
    /\ TreeInPlace(im)

\* What a path holds; what is in a file with a hole cannot be told.
Holds(im, p) ==
    LET inode == im.inodes[im.tree[p]]
        blocks == im.blocks[im.tree[p]]
        number == (inode.size + BlockSize - 1) \div BlockSize
    IN  IF inode.type = "dir" THEN "dir"
        ELSE IF number > Addressable \/ 0 \in Range(blocks) THEN Error
        ELSE <<inode.size, [i \in 1 .. number |-> im.disk[blocks[i - 1]]]>>

\* Everything at or below a path.
Below(im, path) == {<<p, Holds(im, p)>> : p \in {q \in DOMAIN im.tree : IsPrefix(path, q)}}

-----------------------------------------------------------------------------
(***************************************************************************)
(* Properties.                                                             *)
(***************************************************************************)

\* Everything at or below one of the paths asked for.
Requested == UNION {Below(image, image.asked[i]) : i \in DOMAIN image.asked}

\* From a sound image nothing is written but what its tree holds, and if the
\* stage ends without an error, everything asked for was: no entry is missed,
\* at whatever place of a block or of the block map it lies, a deleted one is
\* not revived, and no file is cut.
\* (iter_dir, inode_block, read_file, extract_inode)
ExtractedIsExact ==
    \/ output \subseteq Requested /\ (status = "done" => output = Requested)
    \/ ~Sound(image)

\* In a sound image the bytes taken for the header of a record are always
\* those of one, or of a block without any: the cursor never gets out of
\* step with the records, across blocks and after the bodies of nested calls.
\* (iter_dir)
CursorAtRecord ==
    Iterating /\ InBlock(Top) =>
        Top.offset \in DOMAIN image.disk[BlockOf(Top)] \/ ~Sound(image)

\* The stage ends on every image whose directories form a tree, sound or
\* damaged: whatever length is stored in a record, the cursor moves on.
\* (iter_dir)
Terminates == <>(status \in {"done", "failed"})
=============================================================================
