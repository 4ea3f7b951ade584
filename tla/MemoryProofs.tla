---------------------------- MODULE MemoryProofs ----------------------------
(***************************************************************************)
(* The blocks of module Memory never overlap, for every size of the pages, *)
(* every number of them and every client that gives back what it has.      *)
(*                                                                         *)
(* BlocksDisjoint is inductive with the types: a block comes from a free   *)
(* one or from the end of the page, and every block is Inside what is in   *)
(* use.                                                                    *)
(***************************************************************************)
EXTENDS Memory, SequenceTheorems, TLAPS

USE PageSizeAssumption, MaxPagesAssumption

Free(f, s, i) == BlockAt(f[s][i], s)
Blocks == [at : Place, size : Size]

(* Two blocks. *)

LEMMA FieldsOfBlock ==
  ASSUME NEW a \in Place, NEW s \in Size
  PROVE  /\ BlockAt(a, s) \in Blocks
         /\ BlockAt(a, s).at = a /\ BlockAt(a, s).size = s
BY DEF BlockAt, Blocks

LEMMA PlaceFields ==
  ASSUME NEW a \in Place
  PROVE  a.page \in 1 .. MaxPages /\ a.page \in Nat /\ a.pos \in Size /\ a.pos \in Nat
BY DEF Place, Size

LEMMA FieldsOfPlace ==
  ASSUME NEW p \in 1 .. MaxPages, NEW n \in Size
  PROVE  /\ At(p, n) \in Place /\ At(p, n).page = p /\ At(p, n).pos = n
BY DEF At, Place

LEMMA ApartSymmetric ==
  ASSUME NEW b \in Blocks, NEW c \in Blocks, Apart(b, c)
  PROVE  Apart(c, b)
BY DEF Apart, Blocks, Place, Size

\* A part of a block is apart from all that the block is apart from.
LEMMA PartApart ==
  ASSUME NEW b \in Blocks, NEW c \in Blocks, NEW part \in Blocks,
         part.at.page = b.at.page, b.at.pos <= part.at.pos,
         part.at.pos + part.size <= b.at.pos + b.size,
         Apart(b, c)
  PROVE  Apart(part, c)
BY DEF Apart, Blocks, Place, Size

\* So is the unused part of the page from all that is Inside.
LEMMA UnusedApart ==
  ASSUME NEW b \in Blocks, NEW c \in Blocks, pages \in Nat, posInData \in Nat,
         Within(b, pages, posInData), c.at.page >= pages, c.at.page = pages => posInData <= c.at.pos
  PROVE  Apart(b, c) /\ Apart(c, b)
BY DEF Apart, Within, Blocks, Place, Size

(* The stacks of free places. *)

LEMMA Pushed ==
  ASSUME NEW f \in [Size -> Seq(Place)], NEW size \in Size, NEW a \in Place
  PROVE  LET g == Push(f, size, a) IN
         /\ g \in [Size -> Seq(Place)]
         /\ \A s \in Size : \A i \in 1 .. Len(g[s]) :
              \/ s = size /\ i = Len(f[size]) + 1 /\ g[s][i] = a
              \/ i \in 1 .. Len(f[s]) /\ g[s][i] = f[s][i]
<1> DEFINE g == Push(f, size, a)
<1>1. f[size] \in Seq(Place)
  OBVIOUS
<1>2. g = [f EXCEPT ![size] = Append(f[size], a)]
  BY DEF Push
<1>3. Append(f[size], a) \in Seq(Place)
  BY <1>1
<1>4. g \in [Size -> Seq(Place)]
  BY <1>2, <1>3
<1>5. ASSUME NEW s \in Size, NEW i \in 1 .. Len(g[s])
      PROVE  \/ s = size /\ i = Len(f[size]) + 1 /\ g[s][i] = a
             \/ i \in 1 .. Len(f[s]) /\ g[s][i] = f[s][i]
  <2>1. CASE s # size
    BY <2>1, <1>2, <1>5
  <2>2. CASE s = size
    <3>1. g[s] = Append(f[size], a)
      BY <2>2, <1>2
    <3>2. i \in 1 .. Len(f[size]) + 1
      BY <3>1, <1>1, <1>5
    <3> QED BY <2>2, <3>1, <3>2, <1>1
  <2> QED BY <2>1, <2>2
<1> QED BY <1>4, <1>5 DEF g

LEMMA PushedNow ==
  ASSUME NEW f \in [Size -> Seq(Place)], NEW size \in Size, NEW a \in Place,
         freeSpace' = Push(f, size, a)
  PROVE  /\ freeSpace' \in [Size -> Seq(Place)]
         /\ \A s \in Size : \A i \in 1 .. Len(freeSpace'[s]) :
              \/ s = size /\ i = Len(f[size]) + 1 /\ freeSpace'[s][i] = a
              \/ i \in 1 .. Len(f[s]) /\ freeSpace'[s][i] = f[s][i]
<1>1. /\ Push(f, size, a) \in [Size -> Seq(Place)]
      /\ \A s \in Size : \A i \in 1 .. Len(Push(f, size, a)[s]) :
           \/ s = size /\ i = Len(f[size]) + 1 /\ Push(f, size, a)[s][i] = a
           \/ i \in 1 .. Len(f[s]) /\ Push(f, size, a)[s][i] = f[s][i]
  BY Pushed
<1> QED BY <1>1

LEMMA AllButLast ==
  ASSUME NEW S, NEW t \in Seq(S), t # <<>>
  PROVE  /\ SubSeq(t, 1, Len(t) - 1) \in Seq(S)
         /\ Len(SubSeq(t, 1, Len(t) - 1)) = Len(t) - 1
         /\ \A k \in 1 .. Len(t) - 1 : SubSeq(t, 1, Len(t) - 1)[k] = t[k]
<1> DEFINE n == Len(t) - 1
<1>1. n \in Nat /\ n + 1 = Len(t)
  OBVIOUS
<1>2. \A i \in 1 .. n : t[i] \in S
  BY <1>1
<1>3. /\ SubSeq(t, 1, n) \in Seq(S)
      /\ Len(SubSeq(t, 1, n)) = IF 1 <= n THEN n - 1 + 1 ELSE 0
      /\ \A i \in 1 .. n - 1 + 1 : SubSeq(t, 1, n)[i] = t[1 + i - 1]
  <2> HIDE DEF n
  <2> QED BY <1>1, <1>2, SubSeqProperties
<1>4. Len(SubSeq(t, 1, n)) = n
  BY <1>1, <1>3
<1>5. \A k \in 1 .. n : SubSeq(t, 1, n)[k] = t[k]
  <2> SUFFICES ASSUME NEW k \in 1 .. n PROVE SubSeq(t, 1, n)[k] = t[k]
    OBVIOUS
  <2> HIDE DEF n
  <2>1. k \in 1 .. n - 1 + 1 /\ 1 + k - 1 = k
    BY <1>1
  <2> QED BY <2>1, <1>3
<1> QED BY <1>3, <1>4, <1>5

LEMMA Popped ==
  ASSUME freeSpace \in [Size -> Seq(Place)], NEW size \in Size, freeSpace[size] # <<>>
  PROVE  LET g == Pop(size) IN
         /\ g \in [Size -> Seq(Place)]
         /\ TopOf(size) \in Place
         /\ TopOf(size) = freeSpace[size][Len(freeSpace[size])]
         /\ Len(freeSpace[size]) \in 1 .. Len(freeSpace[size])
         /\ \A s \in Size : \A i \in 1 .. Len(g[s]) :
              /\ i \in 1 .. Len(freeSpace[s]) /\ g[s][i] = freeSpace[s][i]
              /\ s = size => i < Len(freeSpace[size])
<1> DEFINE g == Pop(size)
           n == Len(freeSpace[size])
           short == SubSeq(freeSpace[size], 1, n - 1)
<1>1. freeSpace[size] \in Seq(Place)
  OBVIOUS
<1>2. n \in Nat /\ n # 0
  BY <1>1
<1>3. n \in 1 .. n /\ freeSpace[size][n] \in Place
  BY <1>1, <1>2
<1>4. /\ short \in Seq(Place) /\ Len(short) = n - 1
      /\ \A i \in 1 .. n - 1 : short[i] = freeSpace[size][i]
  BY <1>1, AllButLast
<1>5. g = [freeSpace EXCEPT ![size] = short]
  BY DEF Pop
<1> HIDE DEF short
<1>6. g \in [Size -> Seq(Place)]
  BY <1>4, <1>5
<1>7. ASSUME NEW s \in Size, NEW i \in 1 .. Len(g[s])
      PROVE  /\ i \in 1 .. Len(freeSpace[s]) /\ g[s][i] = freeSpace[s][i]
             /\ s = size => i < n
  <2>1. CASE s # size
    BY <2>1, <1>5, <1>7
  <2>2. CASE s = size
    <3>1. g[s] = short
      BY <2>2, <1>5
    <3>2. i \in 1 .. n - 1
      BY <3>1, <1>4, <1>7
    <3> QED BY <2>2, <3>1, <3>2, <1>4, <1>2
  <2> QED BY <2>1, <2>2
<1> QED BY <1>3, <1>6, <1>7 DEF g, TopOf

(* The parts of BlocksDisjoint, for a state given by its variables. *)

AllInside(lv, f, page, pos) ==
  /\ \A b \in lv : Within(b, page, pos)
  /\ \A s \in Size : \A i \in 1 .. Len(f[s]) : Within(Free(f, s, i), page, pos)
LiveApart(lv) == \A b, c \in lv : b # c => Apart(b, c)
LiveFreeApart(lv, f) ==
  \A b \in lv : \A s \in Size : \A i \in 1 .. Len(f[s]) : Apart(b, Free(f, s, i))
FreeApart(f) ==
  \A s, t \in Size : \A i \in 1 .. Len(f[s]), j \in 1 .. Len(f[t]) :
    s # t \/ i # j => Apart(Free(f, s, i), Free(f, t, j))

LEMMA Parts ==
  BlocksDisjoint <=> /\ AllInside(live, freeSpace, pages, posInData) /\ LiveApart(live)
                     /\ LiveFreeApart(live, freeSpace) /\ FreeApart(freeSpace)
BY DEF BlocksDisjoint, AllInside, LiveApart, LiveFreeApart, FreeApart, Free, Inside

LEMMA PartsNext ==
  BlocksDisjoint' <=> /\ AllInside(live', freeSpace', pages', posInData') /\ LiveApart(live')
                      /\ LiveFreeApart(live', freeSpace') /\ FreeApart(freeSpace')
BY DEF BlocksDisjoint, AllInside, LiveApart, LiveFreeApart, FreeApart, Free, Inside

MemoryInv == MemoryTypeOK /\ BlocksDisjoint

\* What is free is a block, and so is what is live.
LEMMA AllBlocks ==
  ASSUME MemoryTypeOK
  PROVE  /\ \A b \in live : b \in Blocks /\ b.size \in 1 .. PageSize /\ b = BlockAt(b.at, b.size)
         /\ \A s \in Size : \A i \in 1 .. Len(freeSpace[s]) :
              /\ freeSpace[s][i] \in Place
              /\ Free(freeSpace, s, i) \in Blocks
              /\ Free(freeSpace, s, i).at = freeSpace[s][i] /\ Free(freeSpace, s, i).size = s
<1>1. ASSUME NEW b \in live
      PROVE  b \in Blocks /\ b.size \in 1 .. PageSize /\ b = BlockAt(b.at, b.size)
  BY <1>1 DEF MemoryTypeOK, Blocks, BlockAt, Size
<1>2. ASSUME NEW s \in Size, NEW i \in 1 .. Len(freeSpace[s])
      PROVE  /\ freeSpace[s][i] \in Place
             /\ Free(freeSpace, s, i) \in Blocks
             /\ Free(freeSpace, s, i).at = freeSpace[s][i] /\ Free(freeSpace, s, i).size = s
  <2>1. freeSpace[s] \in Seq(Place)
    BY DEF MemoryTypeOK
  <2>2. freeSpace[s][i] \in Place
    BY <2>1, <1>2
  <2> QED BY <2>2, FieldsOfBlock DEF Free
<1> QED BY <1>1, <1>2

(* The actions. *)

\* A whole free block is handed out.
LEMMA ExactStep ==
  ASSUME MemoryInv, NEW size \in 1 .. PageSize, TakeExact(size)
  PROVE  MemoryInv'
<1> DEFINE n == Len(freeSpace[size])
           a == TopOf(size)
           new == BlockAt(a, size)
<1>0. size \in Size
  BY DEF Size
<1>1. /\ freeSpace' = Pop(size) /\ freeSpace[size] # <<>> /\ live' = live \cup {new}
      /\ pages' = pages /\ posInData' = posInData /\ freeMemory' = freeMemory - size
  BY DEF TakeExact, HandOut
<1>2. MemoryTypeOK /\ freeSpace \in [Size -> Seq(Place)] /\ freeMemory \in Int
  BY DEF MemoryInv, MemoryTypeOK
<1>3. /\ freeSpace' \in [Size -> Seq(Place)] /\ a \in Place
      /\ a = freeSpace[size][n] /\ n \in 1 .. n
      /\ \A s \in Size : \A i \in 1 .. Len(freeSpace'[s]) :
           /\ i \in 1 .. Len(freeSpace[s]) /\ freeSpace'[s][i] = freeSpace[s][i]
           /\ s = size => i < n
  BY <1>0, <1>1, <1>2, Popped
<1>4. new = Free(freeSpace, size, n)
  BY <1>3 DEF Free
<1>5. new \in Blocks /\ new.at = a /\ new.size = size
  BY <1>0, <1>3, FieldsOfBlock
<1>6. MemoryTypeOK'
  <2>1. live' \subseteq [at : Place, size : 1 .. PageSize]
    BY <1>1, <1>2, <1>3 DEF MemoryTypeOK, BlockAt
  <2> QED BY <2>1, <1>1, <1>2, <1>3 DEF MemoryTypeOK
<1>7. /\ AllInside(live, freeSpace, pages, posInData) /\ LiveApart(live)
      /\ LiveFreeApart(live, freeSpace) /\ FreeApart(freeSpace)
  BY Parts DEF MemoryInv
<1>8. \A b \in live : Apart(b, new) /\ Apart(new, b)
  BY <1>0, <1>2, <1>3, <1>4, <1>5, <1>7, AllBlocks, ApartSymmetric DEF LiveFreeApart
<1>9. \A s \in Size : \A i \in 1 .. Len(freeSpace'[s]) :
        Free(freeSpace', s, i) = Free(freeSpace, s, i) /\ Apart(new, Free(freeSpace', s, i))
  <2> SUFFICES ASSUME NEW s \in Size, NEW i \in 1 .. Len(freeSpace'[s])
               PROVE  /\ Free(freeSpace', s, i) = Free(freeSpace, s, i)
                      /\ Apart(new, Free(freeSpace', s, i))
    OBVIOUS
  <2>1. i \in 1 .. Len(freeSpace[s]) /\ Free(freeSpace', s, i) = Free(freeSpace, s, i)
    BY <1>3 DEF Free
  <2>2. s # size \/ i # n
    BY <1>3
  <2>3. Apart(Free(freeSpace, size, n), Free(freeSpace, s, i))
    BY <2>1, <2>2, <1>0, <1>3, <1>7 DEF FreeApart
  <2> QED BY <2>1, <2>3, <1>4
<1>10. AllInside(live', freeSpace', pages', posInData')
  <2>1. Within(new, pages, posInData)
    BY <1>0, <1>3, <1>4, <1>7 DEF AllInside
  <2>2. \A b \in live' : Within(b, pages, posInData)
    BY <2>1, <1>1, <1>7 DEF AllInside
  <2>3. \A s \in Size : \A i \in 1 .. Len(freeSpace'[s]) : Within(Free(freeSpace', s, i), pages, posInData)
    BY <1>3, <1>7, <1>9 DEF AllInside
  <2> QED BY <2>2, <2>3, <1>1 DEF AllInside
<1>11. LiveApart(live')
  BY <1>1, <1>7, <1>8 DEF LiveApart
<1>12. LiveFreeApart(live', freeSpace')
  BY <1>1, <1>3, <1>7, <1>9 DEF LiveFreeApart
<1>13. FreeApart(freeSpace')
  BY <1>3, <1>7, <1>9 DEF FreeApart
<1> QED BY <1>6, <1>10, <1>11, <1>12, <1>13, PartsNext DEF MemoryInv

\* A free block is cut in two: one is handed out, the other is free.
LEMMA SplitStep ==
  ASSUME MemoryInv, NEW size \in 1 .. PageSize, TakeSplit(size)
  PROVE  MemoryInv'
<1>0. size \in Size
  BY DEF Size
<1>1. PICK from \in Size :
        /\ from >= 2 * size /\ freeSpace[from] # <<>>
        /\ freeSpace' = Push(Pop(from), from - size, At(TopOf(from).page, TopOf(from).pos + size))
        /\ live' = live \cup {BlockAt(TopOf(from), size)}
        /\ pages' = pages /\ posInData' = posInData /\ freeMemory' = freeMemory - size
  BY DEF TakeSplit, CanSplit, RestOf, HandOut
<1> DEFINE n == Len(freeSpace[from])
           a == TopOf(from)
           whole == Free(freeSpace, from, n)
           new == BlockAt(a, size)
           rest == At(a.page, a.pos + size)
           left == BlockAt(rest, from - size)
           less == Pop(from)
<1>2. MemoryTypeOK /\ freeSpace \in [Size -> Seq(Place)] /\ freeMemory \in Int
  BY DEF MemoryInv, MemoryTypeOK
<1>3. /\ less \in [Size -> Seq(Place)] /\ a \in Place
      /\ a = freeSpace[from][n] /\ n \in 1 .. n
      /\ \A s \in Size : \A i \in 1 .. Len(less[s]) :
           /\ i \in 1 .. Len(freeSpace[s]) /\ less[s][i] = freeSpace[s][i]
           /\ s = from => i < n
  BY <1>1, <1>2, Popped
<1>4. /\ AllInside(live, freeSpace, pages, posInData) /\ LiveApart(live)
      /\ LiveFreeApart(live, freeSpace) /\ FreeApart(freeSpace)
  BY Parts DEF MemoryInv
<1>5. whole \in Blocks /\ whole.at = a /\ whole.size = from /\ Within(whole, pages, posInData)
  BY <1>2, <1>3, <1>4, AllBlocks DEF AllInside
<1>a. /\ size \in Nat /\ from \in Nat /\ from >= 2 * size /\ size # 0 /\ from <= PageSize
      /\ pages \in Nat /\ posInData \in Nat
  BY <1>1, <1>2 DEF Size, MemoryTypeOK
<1>b. a.page \in 1 .. MaxPages /\ a.pos \in Nat
  BY <1>3, PlaceFields
<1>c. /\ a.page <= pages /\ a.pos + from <= PageSize
      /\ a.page = pages => a.pos + from <= posInData
  <2> HIDE DEF whole, a
  <2> QED BY <1>5 DEF Within
<1>6. from - size \in Size /\ a.page \in 1 .. MaxPages /\ a.pos + size \in Size
  <2> HIDE DEF a
  <2> QED BY <1>a, <1>b, <1>c DEF Size
<1>7. rest \in Place /\ rest.page = a.page /\ rest.pos = a.pos + size
  BY <1>6, FieldsOfPlace
<1>8. left \in Blocks /\ left.at = rest /\ left.size = from - size
  BY <1>6, <1>7, FieldsOfBlock
<1>9. new \in Blocks /\ new.at = a /\ new.size = size
  BY <1>0, <1>3, FieldsOfBlock
<1> HIDE DEF whole, new, rest, left, less, a, n
<1>10. /\ freeSpace' \in [Size -> Seq(Place)]
       /\ \A s \in Size : \A i \in 1 .. Len(freeSpace'[s]) :
            \/ s = from - size /\ i = Len(less[from - size]) + 1 /\ freeSpace'[s][i] = rest
            \/ i \in 1 .. Len(less[s]) /\ freeSpace'[s][i] = less[s][i]
  <2>1. freeSpace' = Push(less, from - size, rest)
    BY <1>1 DEF less, rest, a
  <2> DEFINE k == from - size
  <2>2. less \in [Size -> Seq(Place)] /\ k \in Size /\ rest \in Place
    BY <1>3, <1>6, <1>7
  <2> HIDE DEF k
  <2>4. freeSpace' = Push(less, k, rest)
    BY <2>1 DEF k
  <2>5. /\ freeSpace' \in [Size -> Seq(Place)]
        /\ \A s \in Size : \A i \in 1 .. Len(freeSpace'[s]) :
             \/ s = k /\ i = Len(less[k]) + 1 /\ freeSpace'[s][i] = rest
             \/ i \in 1 .. Len(less[s]) /\ freeSpace'[s][i] = less[s][i]
    BY <2>2, <2>4, PushedNow
  <2> QED BY <2>5 DEF k
<1>11. \A s \in Size : \A i \in 1 .. Len(freeSpace'[s]) :
         \/ s = from - size /\ i = Len(less[from - size]) + 1 /\ Free(freeSpace', s, i) = left
         \/ /\ i \in 1 .. Len(freeSpace[s]) /\ (s # from \/ i # n) /\ i \in 1 .. Len(less[s])
            /\ Free(freeSpace', s, i) = Free(freeSpace, s, i)
  BY <1>3, <1>10 DEF Free, left
<1>12. live' = live \cup {new}
  BY <1>1 DEF new, a
<1>13. MemoryTypeOK'
  <2>1. live' \subseteq [at : Place, size : 1 .. PageSize]
    BY <1>12, <1>2, <1>3 DEF MemoryTypeOK, BlockAt, new
  <2> QED BY <2>1, <1>1, <1>2, <1>10 DEF MemoryTypeOK
<1>14. ASSUME NEW c \in Blocks, Apart(whole, c) \/ Apart(c, whole)
       PROVE  Apart(new, c) /\ Apart(c, new) /\ Apart(left, c) /\ Apart(c, left)
  <2>1. Apart(whole, c)
    BY <1>5, <1>14, ApartSymmetric
  <2>2. /\ new.at.page = whole.at.page /\ whole.at.pos <= new.at.pos
        /\ new.at.pos + new.size <= whole.at.pos + whole.size
    BY <1>a, <1>b, <1>5, <1>9
  <2>3. Apart(new, c)
    BY <2>1, <2>2, <1>5, <1>9, <1>14, PartApart
  <2>5. /\ left.at.page = whole.at.page /\ whole.at.pos <= left.at.pos
        /\ left.at.pos + left.size <= whole.at.pos + whole.size
    BY <1>a, <1>b, <1>5, <1>7, <1>8
  <2>4. Apart(left, c)
    BY <2>1, <2>5, <1>5, <1>8, <1>14, PartApart
  <2> QED BY <2>3, <2>4, <1>8, <1>9, <1>14, ApartSymmetric
<1>15. Apart(new, left)
  BY <1>a, <1>b, <1>7, <1>8, <1>9 DEF Apart
<1>16. Within(new, pages, posInData) /\ Within(left, pages, posInData)
  BY <1>a, <1>b, <1>c, <1>7, <1>8, <1>9 DEF Within
<1>17. \A b \in live : b \in Blocks /\ Apart(b, whole)
  BY <1>2, <1>3, <1>4, AllBlocks DEF LiveFreeApart, whole, n
<1>18. \A b \in live : Apart(b, new) /\ Apart(new, b) /\ Apart(b, left)
  BY <1>14, <1>17
<1>19. \A s \in Size : \A i \in 1 .. Len(freeSpace[s]) :
         s # from \/ i # n =>
           LET c == Free(freeSpace, s, i) IN Apart(new, c) /\ Apart(left, c) /\ Apart(c, left)
  <2> SUFFICES ASSUME NEW s \in Size, NEW i \in 1 .. Len(freeSpace[s]), s # from \/ i # n
               PROVE  LET c == Free(freeSpace, s, i) IN Apart(new, c) /\ Apart(left, c) /\ Apart(c, left)
    OBVIOUS
  <2>1. Free(freeSpace, s, i) \in Blocks
    BY <1>2, AllBlocks
  <2>2. Apart(whole, Free(freeSpace, s, i))
    BY <1>3, <1>4 DEF FreeApart, whole, n
  <2> QED BY <2>1, <2>2, <1>14
<1>20. AllInside(live', freeSpace', pages', posInData')
  <2>1. \A b \in live' : Within(b, pages, posInData)
    BY <1>4, <1>12, <1>16 DEF AllInside
  <2>2. \A s \in Size : \A i \in 1 .. Len(freeSpace'[s]) : Within(Free(freeSpace', s, i), pages, posInData)
    BY <1>4, <1>11, <1>16 DEF AllInside
  <2> QED BY <2>1, <2>2, <1>1 DEF AllInside
<1>21. LiveApart(live')
  BY <1>4, <1>12, <1>18 DEF LiveApart
<1>22. LiveFreeApart(live', freeSpace')
  BY <1>4, <1>11, <1>12, <1>15, <1>18, <1>19 DEF LiveFreeApart
<1>23. FreeApart(freeSpace')
  <2> SUFFICES ASSUME NEW s \in Size, NEW t \in Size,
                      NEW i \in 1 .. Len(freeSpace'[s]), NEW j \in 1 .. Len(freeSpace'[t]),
                      s # t \/ i # j
               PROVE  Apart(Free(freeSpace', s, i), Free(freeSpace', t, j))
    BY DEF FreeApart
  <2>1. CASE Free(freeSpace', s, i) = left /\ s = from - size /\ i = Len(less[from - size]) + 1
    BY <2>1, <1>11, <1>19
  <2>2. CASE Free(freeSpace', t, j) = left /\ t = from - size /\ j = Len(less[from - size]) + 1
    BY <2>2, <1>11, <1>19
  <2>3. CASE /\ i \in 1 .. Len(freeSpace[s]) /\ Free(freeSpace', s, i) = Free(freeSpace, s, i)
             /\ j \in 1 .. Len(freeSpace[t]) /\ Free(freeSpace', t, j) = Free(freeSpace, t, j)
    BY <2>3, <1>4 DEF FreeApart
  <2> QED BY <2>1, <2>2, <2>3, <1>11
<1> QED BY <1>13, <1>20, <1>21, <1>22, <1>23, PartsNext DEF MemoryInv

\* The page has room.
LEMMA FreshStep ==
  ASSUME MemoryInv, NEW size \in 1 .. PageSize, TakeFresh(size)
  PROVE  MemoryInv'
<1> DEFINE a == At(pages, posInData)
           new == BlockAt(a, size)
<1>0. size \in Size /\ size \in Nat /\ size # 0
  BY DEF Size
<1>1. /\ freeSpace' = freeSpace /\ pages' = pages /\ freeMemory' = freeMemory
      /\ posInData + size <= PageSize /\ posInData' = posInData + size
      /\ live' = live \cup {new}
  BY DEF TakeFresh, HandOut
<1>2. /\ MemoryTypeOK /\ pages \in 1 .. MaxPages /\ posInData \in Size
      /\ pages \in Nat /\ posInData \in Nat
  BY DEF MemoryInv, MemoryTypeOK, Size
<1>3. a \in Place /\ a.page = pages /\ a.pos = posInData
  BY <1>2, FieldsOfPlace
<1>4. new \in Blocks /\ new.at = a /\ new.size = size
  BY <1>0, <1>3, FieldsOfBlock
<1>5. /\ AllInside(live, freeSpace, pages, posInData) /\ LiveApart(live)
      /\ LiveFreeApart(live, freeSpace) /\ FreeApart(freeSpace)
  BY Parts DEF MemoryInv
<1>6. MemoryTypeOK'
  <2>1. live' \subseteq [at : Place, size : 1 .. PageSize]
    BY <1>1, <1>2, <1>3 DEF MemoryTypeOK, BlockAt
  <2>2. posInData' \in Size
    BY <1>0, <1>1, <1>2 DEF Size
  <2> QED BY <2>1, <2>2, <1>1, <1>2 DEF MemoryTypeOK
<1> HIDE DEF new, a
<1>7. ASSUME NEW b \in Blocks, Within(b, pages, posInData)
      PROVE  Apart(b, new) /\ Apart(new, b) /\ Within(b, pages', posInData')
  <2>1. Apart(b, new) /\ Apart(new, b)
    BY <1>2, <1>3, <1>4, <1>7, UnusedApart
  <2>2. b.at.pos \in Nat /\ b.size \in Nat
    BY <1>7, PlaceFields DEF Blocks, Size
  <2> QED BY <2>1, <2>2, <1>0, <1>1, <1>2, <1>7 DEF Within
<1>8. \A b \in live : Apart(b, new) /\ Apart(new, b) /\ Within(b, pages', posInData')
  BY <1>2, <1>5, <1>7, AllBlocks DEF AllInside
<1>9. \A s \in Size : \A i \in 1 .. Len(freeSpace[s]) :
        /\ Apart(new, Free(freeSpace, s, i))
        /\ Within(Free(freeSpace, s, i), pages', posInData')
  BY <1>2, <1>5, <1>7, AllBlocks DEF AllInside
<1>10. Within(new, pages', posInData')
  BY <1>0, <1>1, <1>2, <1>3, <1>4 DEF Within
<1>11. AllInside(live', freeSpace', pages', posInData')
  BY <1>1, <1>8, <1>9, <1>10 DEF AllInside
<1>12. LiveApart(live')
  BY <1>1, <1>5, <1>8 DEF LiveApart
<1>13. LiveFreeApart(live', freeSpace')
  BY <1>1, <1>5, <1>9 DEF LiveFreeApart
<1>14. FreeApart(freeSpace')
  BY <1>1, <1>5 DEF FreeApart
<1> QED BY <1>6, <1>11, <1>12, <1>13, <1>14, PartsNext DEF MemoryInv

\* It has not: what is left of it becomes free.
LEMMA NewPageStep ==
  ASSUME MemoryInv, NEW size \in 1 .. PageSize, TakeNewPage(size)
  PROVE  MemoryInv'
<1> DEFINE a == At(pages + 1, 0)
           new == BlockAt(a, size)
           rest == At(pages, posInData)
           k == PageSize - posInData
           left == BlockAt(rest, k)
<1>0. size \in Size /\ size \in Nat /\ size # 0 /\ size <= PageSize
  BY DEF Size
<1>1. /\ pages < MaxPages /\ freeSpace' = Push(freeSpace, k, rest)
      /\ pages' = pages + 1 /\ posInData' = size /\ freeMemory' = freeMemory + k
      /\ live' = live \cup {new}
  BY DEF TakeNewPage, HandOut
<1>2. /\ MemoryTypeOK /\ pages \in 1 .. MaxPages /\ posInData \in Size
      /\ pages \in Nat /\ posInData \in Nat /\ freeSpace \in [Size -> Seq(Place)] /\ freeMemory \in Int
  BY DEF MemoryInv, MemoryTypeOK, Size
<1>3. k \in Size /\ k \in Nat /\ pages + 1 \in 1 .. MaxPages /\ 0 \in Size
  BY <1>1, <1>2 DEF Size
<1>4. /\ a \in Place /\ a.page = pages + 1 /\ a.pos = 0
      /\ rest \in Place /\ rest.page = pages /\ rest.pos = posInData
  BY <1>2, <1>3, FieldsOfPlace
<1>5. /\ new \in Blocks /\ new.at = a /\ new.size = size
      /\ left \in Blocks /\ left.at = rest /\ left.size = k
  <2> HIDE DEF a, rest, k
  <2> QED BY <1>0, <1>3, <1>4, FieldsOfBlock
<1>6. /\ AllInside(live, freeSpace, pages, posInData) /\ LiveApart(live)
      /\ LiveFreeApart(live, freeSpace) /\ FreeApart(freeSpace)
  BY Parts DEF MemoryInv
<1>a. k = PageSize - posInData
  OBVIOUS
<1> HIDE DEF a, k, rest
<1>7. /\ freeSpace' \in [Size -> Seq(Place)]
      /\ \A s \in Size : \A i \in 1 .. Len(freeSpace'[s]) :
           \/ s = k /\ i = Len(freeSpace[k]) + 1 /\ freeSpace'[s][i] = rest
           \/ i \in 1 .. Len(freeSpace[s]) /\ freeSpace'[s][i] = freeSpace[s][i]
  <2>1. /\ freeSpace' = Push(freeSpace, k, rest) /\ freeSpace \in [Size -> Seq(Place)]
        /\ k \in Size /\ rest \in Place
    BY <1>1, <1>2, <1>3, <1>4
  <2> QED BY <2>1, PushedNow
<1>8. MemoryTypeOK'
  <2>1. live' \subseteq [at : Place, size : 1 .. PageSize]
    BY <1>1, <1>2, <1>4 DEF MemoryTypeOK, BlockAt
  <2>2. pages' \in 1 .. MaxPages /\ posInData' \in Size /\ freeMemory' \in Int
    BY <1>0, <1>1, <1>2, <1>3
  <2> QED BY <2>1, <2>2, <1>7 DEF MemoryTypeOK
<1>9. \A s \in Size : \A i \in 1 .. Len(freeSpace'[s]) :
        \/ s = k /\ i = Len(freeSpace[k]) + 1 /\ Free(freeSpace', s, i) = left
        \/ i \in 1 .. Len(freeSpace[s]) /\ Free(freeSpace', s, i) = Free(freeSpace, s, i)
  BY <1>7 DEF Free
<1> HIDE DEF new, left
<1>10. ASSUME NEW b \in Blocks, Within(b, pages, posInData)
       PROVE  /\ Apart(b, new) /\ Apart(new, b) /\ Apart(b, left) /\ Apart(left, b)
              /\ Within(b, pages', posInData')
  <2>1. Apart(b, new) /\ Apart(new, b) /\ Apart(b, left) /\ Apart(left, b)
    BY <1>2, <1>4, <1>5, <1>10, UnusedApart
  <2>2. b.at.pos \in Nat /\ b.size \in Nat /\ b.at.page \in Nat
    BY <1>10, PlaceFields DEF Blocks, Size
  <2> QED BY <2>1, <2>2, <1>1, <1>2, <1>10 DEF Within
<1>11. Apart(new, left)
  BY <1>2, <1>4, <1>5 DEF Apart
<1>12. \A b \in live : /\ Apart(b, new) /\ Apart(new, b) /\ Apart(b, left)
                        /\ Within(b, pages', posInData')
  BY <1>2, <1>6, <1>10, AllBlocks DEF AllInside
<1>13. \A s \in Size : \A i \in 1 .. Len(freeSpace[s]) :
         LET c == Free(freeSpace, s, i) IN
         Apart(new, c) /\ Apart(c, left) /\ Apart(left, c) /\ Within(c, pages', posInData')
  BY <1>2, <1>6, <1>10, AllBlocks DEF AllInside
<1>14. Within(new, pages', posInData') /\ Within(left, pages', posInData')
  BY <1>0, <1>1, <1>2, <1>a, <1>4, <1>5 DEF Within, Size
<1>15. AllInside(live', freeSpace', pages', posInData')
  BY <1>1, <1>9, <1>12, <1>13, <1>14 DEF AllInside
<1>16. LiveApart(live')
  BY <1>1, <1>6, <1>12 DEF LiveApart
<1>17. LiveFreeApart(live', freeSpace')
  BY <1>1, <1>6, <1>9, <1>11, <1>12, <1>13 DEF LiveFreeApart
<1>18. FreeApart(freeSpace')
  BY <1>6, <1>9, <1>13 DEF FreeApart
<1> QED BY <1>8, <1>15, <1>16, <1>17, <1>18, PartsNext DEF MemoryInv

\* A block is given back, with its size.
LEMMA ReleaseStep ==
  ASSUME MemoryInv, NEW b \in live, ReleaseMemory(b.at, b.size)
  PROVE  MemoryInv'
<1> DEFINE k == b.size
           a == b.at
<1>1. /\ freeSpace' = Push(freeSpace, k, a) /\ live' = {c \in live : c.at # a}
      /\ freeMemory' = freeMemory + k /\ pages' = pages /\ posInData' = posInData
  BY DEF ReleaseMemory
<1>2. MemoryTypeOK /\ freeSpace \in [Size -> Seq(Place)] /\ freeMemory \in Int
  BY DEF MemoryInv, MemoryTypeOK
<1>3. b \in Blocks /\ k \in Size /\ k \in Nat /\ a \in Place /\ b = BlockAt(a, k)
  BY <1>2, AllBlocks DEF Blocks, Size
<1>4. /\ AllInside(live, freeSpace, pages, posInData) /\ LiveApart(live)
      /\ LiveFreeApart(live, freeSpace) /\ FreeApart(freeSpace)
  BY Parts DEF MemoryInv
<1> HIDE DEF k, a
<1>5. /\ freeSpace' \in [Size -> Seq(Place)]
      /\ \A s \in Size : \A i \in 1 .. Len(freeSpace'[s]) :
           \/ s = k /\ i = Len(freeSpace[k]) + 1 /\ freeSpace'[s][i] = a
           \/ i \in 1 .. Len(freeSpace[s]) /\ freeSpace'[s][i] = freeSpace[s][i]
  <2>1. /\ freeSpace' = Push(freeSpace, k, a) /\ freeSpace \in [Size -> Seq(Place)]
        /\ k \in Size /\ a \in Place
    BY <1>1, <1>2, <1>3
  <2> QED BY <2>1, PushedNow
<1>6. MemoryTypeOK'
  BY <1>1, <1>2, <1>3, <1>5 DEF MemoryTypeOK
<1>7. \A s \in Size : \A i \in 1 .. Len(freeSpace'[s]) :
        \/ s = k /\ i = Len(freeSpace[k]) + 1 /\ Free(freeSpace', s, i) = b
        \/ i \in 1 .. Len(freeSpace[s]) /\ Free(freeSpace', s, i) = Free(freeSpace, s, i)
  BY <1>3, <1>5 DEF Free
<1>8. \A c \in live' : c \in live /\ c # b
  BY <1>1 DEF a
<1>9. \A s \in Size : \A i \in 1 .. Len(freeSpace[s]) :
        Apart(b, Free(freeSpace, s, i)) /\ Apart(Free(freeSpace, s, i), b)
  BY <1>2, <1>3, <1>4, AllBlocks, ApartSymmetric DEF LiveFreeApart
<1>10. AllInside(live', freeSpace', pages', posInData')
  BY <1>1, <1>4, <1>7, <1>8 DEF AllInside
<1>11. LiveApart(live')
  BY <1>4, <1>8 DEF LiveApart
<1>12. LiveFreeApart(live', freeSpace')
  BY <1>4, <1>7, <1>8 DEF LiveFreeApart, LiveApart
<1>13. FreeApart(freeSpace')
  BY <1>4, <1>7, <1>9 DEF FreeApart
<1> QED BY <1>6, <1>10, <1>11, <1>12, <1>13, PartsNext DEF MemoryInv

(* The theorems. *)

LEMMA MemoryInvInit == MemoryInit => MemoryInv
<1> SUFFICES ASSUME MemoryInit PROVE MemoryInv
  OBVIOUS
<1>1. /\ freeSpace = [s \in Size |-> <<>>] /\ pages = 1 /\ posInData = 0
      /\ freeMemory = 0 /\ live = {}
  BY DEF MemoryInit
<1>2. \A s \in Size : freeSpace[s] = <<>> /\ 1 .. Len(freeSpace[s]) = {}
  BY <1>1
<1>3. MemoryTypeOK
  <2>1. freeSpace \in [Size -> Seq(Place)]
    BY <1>1
  <2>2. 1 \in 1 .. MaxPages /\ 0 \in Size
    BY DEF Size
  <2> QED BY <2>1, <2>2, <1>1 DEF MemoryTypeOK
<1>4. BlocksDisjoint
  BY <1>1, <1>2 DEF BlocksDisjoint
<1> QED BY <1>3, <1>4 DEF MemoryInv

LEMMA MemoryInvStep == MemoryInv /\ [MemoryNext]_memory => MemoryInv'
<1> SUFFICES ASSUME MemoryInv, [MemoryNext]_memory PROVE MemoryInv'
  OBVIOUS
<1>1. CASE \E size \in 1 .. PageSize : GetArray(size)
  <2>1. PICK size \in 1 .. PageSize : GetArray(size)
    BY <1>1
  <2>2. CASE TakeExact(size)
    BY <2>2, ExactStep
  <2>3. CASE TakeSplit(size)
    BY <2>3, SplitStep
  <2>4. CASE TakeFresh(size)
    BY <2>4, FreshStep
  <2>5. CASE TakeNewPage(size)
    BY <2>5, NewPageStep
  <2> QED BY <2>1, <2>2, <2>3, <2>4, <2>5 DEF GetArray
<1>2. CASE \E b \in live : ReleaseMemory(b.at, b.size)
  <2>1. PICK b \in live : ReleaseMemory(b.at, b.size)
    BY <1>2
  <2> QED BY <2>1, ReleaseStep
<1>3. CASE UNCHANGED memory
  BY <1>3 DEF memory, MemoryInv, MemoryTypeOK, BlocksDisjoint, Inside
<1> QED BY <1>1, <1>2, <1>3 DEF MemoryNext

\* getArray and releaseMemory keep the blocks apart, whatever is asked for and
\* in whatever order it is given back.
THEOREM MemoryDisjoint == MemorySpec => []BlocksDisjoint
<1>1. MemoryInv => BlocksDisjoint
  BY DEF MemoryInv
<1> QED BY <1>1, MemoryInvInit, MemoryInvStep, PTL DEF MemorySpec

=============================================================================
