------------------------------- MODULE Memory -------------------------------
(***************************************************************************)
(* The memory of the cache, interfaces/BucketManagerInterface.hh: pages    *)
(* that are filled from the front, and free lists by size for what was     *)
(* given back.  A block is handed out from its own list, else split off    *)
(* the smallest free block of twice its size, else taken fresh; what is    *)
(* left of a page that is too short becomes a free block.                  *)
(***************************************************************************)
EXTENDS Integers, Sequences

CONSTANTS
  PageSize,   \* sizeData, in octets
  MaxPages    \* bound on the pages (the program's memory)

ASSUME PageSizeAssumption == PageSize \in Nat \ {0}
ASSUME MaxPagesAssumption == MaxPages \in Nat \ {0}

VARIABLES
  freeSpace,   \* freeSpace[s]: the places of the free blocks of size s, a stack
  pages,       \* allocateData.size(); data is the last page
  posInData,   \* where its unused part begins
  freeMemory,  \* the counter the strategies look at
  live         \* history: the blocks handed out and not given back

memory == <<freeSpace, pages, posInData, freeMemory, live>>

Size == 0 .. PageSize
Place == [page : 1 .. MaxPages, pos : Size]
Block == [at : Place, size : Size]

At(page, pos) == [page |-> page, pos |-> pos]
BlockAt(a, size) == [at |-> a, size |-> size]

MemoryInit ==
  /\ freeSpace = [s \in Size |-> <<>>]
  /\ pages = 1 /\ posInData = 0 /\ freeMemory = 0 /\ live = {}

Push(f, size, a) == [f EXCEPT ![size] = Append(@, a)]
TopOf(size) == freeSpace[size][Len(freeSpace[size])]
Pop(size) == [freeSpace EXCEPT ![size] = SubSeq(@, 1, Len(@) - 1)]

HandOut(a, size) == live' = live \cup {BlockAt(a, size)}

\* A free block of this very size.
TakeExact(size) ==
  /\ freeSpace[size] # <<>>
  /\ freeSpace' = Pop(size)
  /\ freeMemory' = freeMemory - size
  /\ HandOut(TopOf(size), size)
  /\ UNCHANGED <<pages, posInData>>

\* A free block is split if it is at least twice as large.
CanSplit(size, from) == from >= 2 * size /\ freeSpace[from] # <<>>
\* Mutant: the list of the rest is that of the block it was cut from.
RestOfAll(size, from) == from
RestOf(size, from) == from - size

TakeSplit(size) ==
  /\ freeSpace[size] = <<>>
  /\ \E from \in Size :
       /\ CanSplit(size, from)
       /\ \A s \in Size : CanSplit(size, s) => from <= s
       /\ LET a == TopOf(from) IN
          /\ freeSpace' = Push(Pop(from), RestOf(size, from), At(a.page, a.pos + size))
          /\ HandOut(a, size)
  /\ freeMemory' = freeMemory - size
  /\ UNCHANGED <<pages, posInData>>

NothingFits(size) ==
  freeSpace[size] = <<>> /\ \A s \in Size : ~CanSplit(size, s)

\* A fresh block of the page, or of a new one; the rest of the page is kept.
TakeFresh(size) ==
  /\ NothingFits(size) /\ posInData + size <= PageSize
  /\ HandOut(At(pages, posInData), size)
  /\ posInData' = posInData + size
  /\ UNCHANGED <<freeSpace, pages, freeMemory>>

TakeNewPage(size) ==
  /\ NothingFits(size) /\ posInData + size > PageSize
  /\ pages < MaxPages
  /\ freeSpace' = Push(freeSpace, PageSize - posInData, At(pages, posInData))
  /\ freeMemory' = freeMemory + (PageSize - posInData)
  /\ pages' = pages + 1 /\ posInData' = size
  /\ HandOut(At(pages + 1, 0), size)

GetArray(size) ==
  TakeExact(size) \/ TakeSplit(size) \/ TakeFresh(size) \/ TakeNewPage(size)

\* The caller says how large the block was.
ReleaseMemory(a, size) ==
  /\ freeSpace' = Push(freeSpace, size, a)
  /\ freeMemory' = freeMemory + size
  /\ live' = {b \in live : b.at # a}
  /\ UNCHANGED <<pages, posInData>>

\* What a client may do: ask for any block, give back one that it has, with
\* the size it asked for.
MemoryNext ==
  \/ \E size \in 1 .. PageSize : GetArray(size)
  \/ \E b \in live : ReleaseMemory(b.at, b.size)

MemorySpec == MemoryInit /\ [][MemoryNext]_memory

-----------------------------------------------------------------------------

MemoryTypeOK ==
  /\ freeSpace \in [Size -> Seq(Place)]
  /\ pages \in 1 .. MaxPages /\ posInData \in Size
  /\ freeMemory \in Int
  /\ live \subseteq [at : Place, size : 1 .. PageSize]

Within(b, page, pos) ==
  /\ b.at.page <= page
  /\ b.at.pos + b.size <= PageSize
  /\ b.at.page = page => b.at.pos + b.size <= pos
Inside(b) == Within(b, pages, posInData)

Apart(b, c) ==
  \/ b.at.page # c.at.page
  \/ b.at.pos + b.size <= c.at.pos
  \/ c.at.pos + c.size <= b.at.pos

\* No two blocks, handed out or free, share an octet, and none reaches into
\* the part of the page that is still to be used ("freespace[i][j] points to a
\* free memory space of size i").  Blocks are split, given back and taken again
\* in any order, and a wrong size or place shows only when two entries of the
\* cache have been written over each other.
BlocksDisjoint ==
  /\ \A b \in live : Inside(b)
  /\ \A b, c \in live : b # c => Apart(b, c)
  /\ \A s \in Size : \A i \in 1 .. Len(freeSpace[s]) :
       /\ Inside(BlockAt(freeSpace[s][i], s))
       /\ \A b \in live : Apart(b, BlockAt(freeSpace[s][i], s))
       /\ \A t \in Size : \A j \in 1 .. Len(freeSpace[t]) :
            s # t \/ i # j => Apart(BlockAt(freeSpace[s][i], s), BlockAt(freeSpace[t][j], t))

=============================================================================
