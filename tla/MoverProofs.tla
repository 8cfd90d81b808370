----------------------------- MODULE MoverProofs -----------------------------
(* Proofs about Mover, for any number of images, blocks and interruptions.   *)
EXTENDS Mover, FiniteSetTheorems, TLAPS

Holding == {"copy", "copying", "compare", "remove", "drop"}

\* What is known of a file that nothing happened to.
Sound(f) == f \notin early \union torn

\* LossHasCause is inductive with: a sound file in the mover's hand is whole;
\* behind the copying its copy is complete; a copy is incomplete only while it
\* is being made; and copy2 never meets a copy.
LossInv ==
  /\ LossHasCause
  /\ mv \in Holding /\ cur \notin early => size[cur] = Size
  /\ mv \in {"compare", "remove"} /\ cur \notin early => copy[cur] = Size
  /\ mv = "drop" /\ Sound(cur) => copy[cur] = Size
  /\ \A f \in Files :
       Sound(f) => \/ copy[f] \in {NoCopy, Size}
                   \/ mv = "copying" /\ cur = f
  /\ mv = "copy" => copy[cur] = NoCopy
  /\ mv = "drop" => copy[cur] # NoCopy

LEMMA TypeInit == Init => TypeOK
  BY MoverAssumption DEF Init, TypeOK, NoCopy

LEMMA TypeStep == TypeOK /\ [Next]_vars => TypeOK'
<1> SUFFICES ASSUME TypeOK, [Next]_vars
             PROVE  TypeOK'
  OBVIOUS
<1> USE MoverAssumption DEF TypeOK, NoCopy, capture, mover, remover, history
<1>1. ASSUME NEW f \in Files, Create(f)
      PROVE  TypeOK'
  BY <1>1 DEF Create
<1>2. ASSUME NEW f \in Files, Write(f)
      PROVE  TypeOK'
  BY <1>2 DEF Write
<1>3. ASSUME NEW f \in Files, RmRemove(f)
      PROVE  TypeOK'
  BY <1>3 DEF RmRemove
<1>4. CASE MvList
  BY <1>4 DEF MvList
<1>5. ASSUME NEW f \in Files, MvCheck(f)
      PROVE  TypeOK'
  BY <1>5 DEF MvCheck
<1>6. ASSUME NEW f \in Files, MvSkip(f)
      PROVE  TypeOK'
  BY <1>6 DEF MvSkip
<1>7. CASE MvDone
  BY <1>7 DEF MvDone
<1>8. CASE MvOpen
  BY <1>8 DEF MvOpen
<1>9. CASE MvBlock
  <2>1. copy[cur] + 1 \in -1..Size
    BY <1>9 DEF MvBlock
  <2> QED
    BY <1>9, <2>1 DEF MvBlock
<1>10. CASE MvEnd
  BY <1>10 DEF MvEnd
<1>11. CASE MvCompare
  BY <1>11 DEF MvCompare
<1>12. CASE MvRemove
  BY <1>12 DEF MvRemove
<1>13. CASE MvFails
  BY <1>13 DEF MvFails, Stop
<1>14. CASE MvCrash
  BY <1>14 DEF MvCrash, Stop
<1>15. CASE MvStart
  BY <1>15 DEF MvStart
<1>16. CASE RmList
  BY <1>16 DEF RmList, Oldest
<1>17. CASE UNCHANGED vars
  BY <1>17 DEF vars
<1> QED
  BY <1>1, <1>2, <1>3, <1>4, <1>5, <1>6, <1>7, <1>8, <1>9, <1>10, <1>11, <1>12,
     <1>13, <1>14, <1>15, <1>16, <1>17 DEF Next, MoverStep

(* Every variable of the live directory and its two programs keeps its type, *)
(* and the mover holds a file whenever it copies, compares or removes.       *)
THEOREM MoverTypeCorrect == Spec => []TypeOK
  BY TypeInit, TypeStep, PTL DEF Spec

-----------------------------------------------------------------------------
\* Only a name that is not there is created.
LEMMA CreatesNew ==
  ASSUME NEW f \in Files, Create(f)
  PROVE  size[f] = NoCopy
<1>1. CASE NextImage(f)
  <2>1. ~(f < f)
    BY DEF Files
  <2> QED
    BY <1>1, <2>1 DEF NextImage
<1>2. CASE NextMeta(f)
  <2>1. PICK g \in Raw : f = Meta(g) /\ \A h \in Raw : h >= g => size[Meta(h)] = NoCopy
    BY <1>2 DEF NextMeta
  <2>2. g >= g
    BY MoverAssumption DEF Raw
  <2> QED
    BY <2>1, <2>2
<1> QED
  BY <1>1, <1>2 DEF Create

LEMMA LossStep == TypeOK /\ LossInv /\ [Next]_vars => LossInv'
<1> SUFFICES ASSUME TypeOK, LossInv, [Next]_vars
             PROVE  LossInv'
  OBVIOUS
<1> USE MoverAssumption
    DEF LossInv, LossHasCause, Lost, Sound, Holding, TypeOK, NoCopy,
        capture, mover, remover, history
<1>1. ASSUME NEW f \in Files, Create(f)
      PROVE  LossInv'
  <2>1. size[f] = NoCopy
    BY <1>1, CreatesNew
  <2>2. /\ size' = [size EXCEPT ![f] = 0] /\ live' = live \union {f}
        /\ UNCHANGED <<copy, mover, remover, crashes, history>>
    BY <1>1 DEF Create
  <2> QED
    BY <2>1, <2>2
<1>2. ASSUME NEW f \in Files, Write(f)
      PROVE  LossInv'
  BY <1>2 DEF Write
<1>3. ASSUME NEW f \in Files, RmRemove(f)
      PROVE  LossInv'
  BY <1>3 DEF RmRemove
<1>4. CASE MvList
  BY <1>4 DEF MvList
<1>5. ASSUME NEW f \in Files, MvCheck(f)
      PROVE  LossInv'
  BY <1>5 DEF MvCheck
<1>6. ASSUME NEW f \in Files, MvSkip(f)
      PROVE  LossInv'
  BY <1>6 DEF MvSkip
<1>7. CASE MvDone
  BY <1>7 DEF MvDone
<1>8. CASE MvOpen
  BY <1>8 DEF MvOpen
<1>9. CASE MvBlock
  BY <1>9 DEF MvBlock
<1>10. CASE MvEnd
  BY <1>10 DEF MvEnd
<1>11. CASE MvCompare
  BY <1>11 DEF MvCompare
<1>12. CASE MvRemove
  BY <1>12 DEF MvRemove
<1>13. CASE MvFails
  BY <1>13 DEF MvFails, Stop
<1>14. CASE MvCrash
  BY <1>14 DEF MvCrash, Stop
<1>15. CASE MvStart
  BY <1>15 DEF MvStart
<1>16. CASE RmList
  BY <1>16 DEF RmList
<1>17. CASE UNCHANGED vars
  BY <1>17 DEF vars
<1> QED
  BY <1>1, <1>2, <1>3, <1>4, <1>5, <1>6, <1>7, <1>8, <1>9, <1>10, <1>11, <1>12,
     <1>13, <1>14, <1>15, <1>16, <1>17 DEF Next, MoverStep

LEMMA LossAlways == Spec => [](TypeOK /\ LossInv)
<1>1. Init => LossInv
  BY MoverAssumption
     DEF Init, LossInv, LossHasCause, Lost, Sound, Holding, NoCopy
<1> QED
  BY <1>1, TypeInit, TypeStep, LossStep, PTL DEF Spec

(* Whatever the interleaving of capture program, mover, remover and crashes, *)
(* a file that was closed when the mover took it, whose copy was not         *)
(* interrupted and that the remover left alone is in the archive or still in *)
(* the live directory.                                                       *)
THEOREM NothingElseLost == Spec => []LossHasCause
<1>1. LossInv => LossHasCause
  BY DEF LossInv
<1> QED
  BY <1>1, LossAlways, PTL

(* The test of line 49 keeps copy2 away from copies that exist, so no        *)
(* restart and no second run of copyfile cuts a complete copy short.         *)
THEOREM CopiesNeverReopened == Spec => CopiesStay
<1>1. ASSUME TypeOK, LossInv, [Next]_vars, NEW f \in Files, copy[f] = Size
      PROVE  copy'[f] = Size
  <2> USE <1>1, MoverAssumption DEF TypeOK, LossInv, NoCopy
  <2>1. CASE MvOpen
    BY <2>1 DEF MvOpen
  <2>2. CASE MvBlock
    BY <2>2 DEF MvBlock
  <2>3. CASE UNCHANGED copy
    BY <2>3
  <2>4. MvOpen \/ MvBlock \/ UNCHANGED copy
    BY DEF Next, MoverStep, Create, Write, RmRemove, MvList, MvCheck, MvSkip,
       MvDone, MvEnd, MvCompare, MvRemove, MvFails, MvCrash, Stop, MvStart,
       RmList, vars
  <2> QED
    BY <2>1, <2>2, <2>3, <2>4
<1>2. TypeOK /\ LossInv /\ [Next]_vars
        => [\A f \in Files : copy[f] = Size => copy'[f] = Size]_vars
  BY <1>1
<1> QED
  BY <1>2, LossAlways, PTL DEF Spec, CopiesStay

-----------------------------------------------------------------------------
(* What the remover takes.                                                  *)

Enough(f) == Cardinality(NewerThan(f)) >= Keep + 1 - Batch

\* NewestSurvive is inductive with: what was listed was created, the rest of the
\* remover's listing may be taken, however the directory changed since, and a
\* .meta file has its image behind it.
OldInv ==
  /\ live \subseteq Created
  /\ \A f \in rlist \union dropped : f \in Files /\ Enough(f)
  /\ \A f \in Created : f \in Raw \/ f + 1 \in Raw \intersect Created

LEMMA NewerFinite ==
  ASSUME NEW f
  PROVE  IsFiniteSet(NewerThan(f))
<1>1. IsFiniteSet(Files) /\ NewerThan(f) \in SUBSET Files
  BY MoverAssumption, FS_Interval DEF Files, NewerThan, Created
<1> QED
  BY <1>1, FS_Subset

\* Of a listing longer than Keep the first Batch names have enough others
\* behind them.
LEMMA OldestLeavesEnough ==
  ASSUME NEW L \in SUBSET Files, Cardinality(L) > Keep, NEW f \in Oldest(L)
  PROVE  Cardinality({g \in L : g > f}) >= Keep + 1 - Batch
<1> DEFINE Before == {g \in L : g < f}
           Behind == {g \in L : g > f}
<1>0. IsFiniteSet(Files) /\ \A g \in L : g \in Int
  BY MoverAssumption, FS_Interval DEF Files
<1>1. IsFiniteSet(L)
  BY <1>0, FS_Subset
<1>2. IsFiniteSet(Before) /\ IsFiniteSet(Behind)
  BY <1>1, FS_Subset
<1>3. Cardinality(Before) \in Nat /\ Cardinality(Behind) \in Nat
  BY <1>2, FS_CardinalityType
<1>4. f \in L /\ Cardinality(Before) < Batch
  BY DEF Oldest
<1>5. L = (Before \union {f}) \union Behind
  <2>1. \A g \in L : g < f \/ g = f \/ g > f
    BY <1>0, <1>4
  <2> QED
    BY <1>4, <2>1
<1>6. IsFiniteSet(Before \union {f}) /\ Cardinality(Before \union {f}) = Cardinality(Before) + 1
  <2>1. f \notin Before
    BY <1>0, <1>4
  <2> QED
    BY <2>1, <1>2, FS_AddElement
<1>7. (Before \union {f}) \cap Behind = {}
  <2>1. \A g \in L : ~(g > f /\ (g < f \/ g = f))
    BY <1>0, <1>4
  <2> QED
    BY <2>1
<1>8. Cardinality(L) = Cardinality(Before) + 1 + Cardinality(Behind)
  <2>1. Cardinality((Before \union {f}) \union Behind)
          = Cardinality(Before \union {f}) + Cardinality(Behind) - 0
    <3> HIDE DEF Before, Behind
    <3> QED
      BY <1>2, <1>6, <1>7, FS_Union, FS_EmptySet
  <2> HIDE DEF Before, Behind
  <2> QED
    BY <2>1, <1>3, <1>5, <1>6
<1> HIDE DEF Before, Behind
<1>9. Cardinality(Behind) >= Keep + 1 - Batch
  BY <1>3, <1>4, <1>8, MoverAssumption
<1> QED
  BY <1>9 DEF Behind

\* Images are created and never uncreated.
LEMMA CreatedGrows ==
  ASSUME TypeOK, [Next]_vars
  PROVE  Created \subseteq Created'
<1> USE MoverAssumption DEF TypeOK, Created, NoCopy, capture, mover, remover, history
<1>1. ASSUME NEW f \in Files, Create(f) \/ Write(f)
      PROVE  Created \subseteq Created'
  BY <1>1 DEF Create, Write
<1>2. CASE UNCHANGED size
  BY <1>2
<1>3. UNCHANGED size \/ \E f \in Files : Create(f) \/ Write(f)
  BY DEF Next, MoverStep, RmRemove, MvList, MvCheck, MvSkip, MvDone, MvOpen,
         MvBlock, MvEnd, MvCompare, MvRemove, MvFails, MvCrash, Stop, MvStart,
         RmList, vars
<1> QED
  BY <1>1, <1>2, <1>3

LEMMA EnoughStays ==
  ASSUME TypeOK, TypeOK', [Next]_vars, NEW f \in Files, Enough(f)
  PROVE  Enough(f)'
<1>1. NewerThan(f) \in SUBSET NewerThan(f)'
  BY CreatedGrows DEF NewerThan
<1>2. IsFiniteSet(NewerThan(f)')
  <2>1. IsFiniteSet(Files) /\ NewerThan(f)' \in SUBSET Files
    BY MoverAssumption, FS_Interval DEF Files, NewerThan, Created
  <2> QED
    BY <2>1, FS_Subset
<1>3. Cardinality(NewerThan(f)) <= Cardinality(NewerThan(f)')
  BY <1>1, <1>2, FS_Subset
<1>4. Cardinality(NewerThan(f)) \in Nat /\ Cardinality(NewerThan(f)') \in Nat
  BY <1>2, NewerFinite, FS_CardinalityType
<1> QED
  BY <1>3, <1>4, MoverAssumption DEF Enough

LEMMA OldStep == TypeOK /\ TypeOK' /\ OldInv /\ [Next]_vars => OldInv'
<1> SUFFICES ASSUME TypeOK, TypeOK', OldInv, [Next]_vars
             PROVE  OldInv'
  OBVIOUS
<1> USE MoverAssumption DEF capture, mover, remover, history
<1>1. live' \subseteq Created'
  <2>1. ASSUME NEW f \in Files, Create(f)
        PROVE  live' \subseteq Created'
    BY <2>1, CreatedGrows DEF Create, OldInv, Created, TypeOK, NoCopy
  <2>2. CASE live' \subseteq live
    BY <2>2, CreatedGrows DEF OldInv
  <2>3. live' \subseteq live \/ \E f \in Files : Create(f)
    BY DEF Next, MoverStep, Write, RmRemove, MvList, MvCheck, MvSkip, MvDone,
           MvOpen, MvBlock, MvEnd, MvCompare, MvRemove, MvFails, MvCrash, Stop,
           MvStart, RmList, vars
  <2> QED
    BY <2>1, <2>2, <2>3
<1>m. \A f \in Created' : f \in Raw \/ f + 1 \in Raw \intersect Created'
  <2>1. ASSUME NEW f \in Files, Create(f)
        PROVE  f \in Raw \/ f + 1 \in Raw \intersect Created
    <3>1. CASE NextImage(f)
      BY <3>1 DEF NextImage
    <3>2. CASE NextMeta(f)
      <4>1. PICK g \in Raw : f = g - 1 /\ size[g] = Size /\ g \in live
        BY <3>2 DEF NextMeta, Meta
      <4>2. g \in Files /\ f + 1 = g
        BY <4>1 DEF TypeOK, Files
      <4> QED
        BY <4>1, <4>2 DEF Created, NoCopy
    <3> QED
      BY <2>1, <3>1, <3>2 DEF Create
  <2>2. ASSUME NEW f \in Files, Create(f)
        PROVE  Created' \subseteq Created \union {f}
    BY <2>2 DEF Create, Created, TypeOK
  <2>3. ASSUME NEW f \in Files, Write(f)
        PROVE  Created' \subseteq Created
    BY <2>3 DEF Write, Created, TypeOK, NoCopy
  <2>4. CASE UNCHANGED size
    BY <2>4 DEF Created, OldInv
  <2>5. UNCHANGED size \/ \E f \in Files : Create(f) \/ Write(f)
    BY DEF Next, MoverStep, RmRemove, MvList, MvCheck, MvSkip, MvDone, MvOpen,
           MvBlock, MvEnd, MvCompare, MvRemove, MvFails, MvCrash, Stop, MvStart,
           RmList, vars
  <2>6. Created \subseteq Created'
    BY CreatedGrows
  <2> QED
    BY <2>1, <2>2, <2>3, <2>4, <2>5, <2>6 DEF OldInv
<1>2. CASE rlist' \union dropped' \subseteq rlist \union dropped
  <2>1. \A f \in rlist' \union dropped' : f \in Files /\ Enough(f)'
    BY <1>2, EnoughStays DEF OldInv
  <2> QED
    BY <1>1, <1>m, <2>1 DEF OldInv, Enough, NewerThan
<1>3. CASE RmList
  <2>1. ASSUME NEW f \in rlist'
        PROVE  f \in Files /\ Enough(f)
    <3>1. f \in Oldest(live) /\ Cardinality(live) > Keep /\ live \in SUBSET Files
      BY <1>3 DEF RmList, TypeOK
    <3>2. Cardinality({g \in live : g > f}) >= Keep + 1 - Batch
      BY <3>1, OldestLeavesEnough
    <3>3. {g \in live : g > f} \in SUBSET NewerThan(f)
      BY DEF OldInv, NewerThan
    <3>4. Cardinality({g \in live : g > f}) <= Cardinality(NewerThan(f))
      BY <3>3, NewerFinite, FS_Subset
    <3>5. IsFiniteSet({g \in live : g > f})
      BY <3>3, NewerFinite, FS_Subset
    <3>6. /\ Cardinality({g \in live : g > f}) \in Nat
          /\ Cardinality(NewerThan(f)) \in Nat
      BY <3>5, NewerFinite, FS_CardinalityType
    <3>7. Enough(f)
      BY <3>2, <3>4, <3>6 DEF Enough
    <3> QED
      BY <3>1, <3>7 DEF Oldest
  <2>2. dropped' = dropped
    BY <1>3 DEF RmList
  <2>3. \A f \in rlist' \union dropped' : f \in Files /\ Enough(f)'
    BY <2>1, <2>2, EnoughStays DEF OldInv
  <2> QED
    BY <1>1, <1>m, <2>3 DEF OldInv, Enough, NewerThan
<1>4. RmList \/ rlist' \union dropped' \subseteq rlist \union dropped
  BY DEF Next, MoverStep, Create, Write, RmRemove, MvList, MvCheck, MvSkip, MvDone,
         MvOpen, MvBlock, MvEnd, MvCompare, MvRemove, MvFails, MvCrash, Stop,
         MvStart, vars
<1> QED
  BY <1>2, <1>3, <1>4

\* Each .meta file that is newer has its image, which is newer too.
LEMMA HalfAreImages ==
  ASSUME OldInv, NEW f \in Files
  PROVE  Cardinality(NewerThan(f)) <= 2 * Cardinality(NewerImages(f))
<1> DEFINE Images_ == NewerImages(f)
           Metas   == NewerThan(f) \ Images_
           image   == [g \in Metas |-> g + 1]
<1>1. /\ IsFiniteSet(Images_) /\ IsFiniteSet(Metas)
      /\ Cardinality(Images_) \in Nat /\ Cardinality(Metas) \in Nat
  BY NewerFinite, FS_Subset, FS_CardinalityType DEF NewerImages
<1>2. \A g \in Metas : g \in Int /\ g + 1 \in Images_
  <2>1. ASSUME NEW g \in Metas PROVE g \in Int /\ g + 1 \in Images_
    <3>1. g \in Created /\ g \in Files /\ g > f /\ g \notin Raw
      BY DEF NewerImages, NewerThan, Created
    <3>2. g + 1 \in Raw \intersect Created
      BY <3>1 DEF OldInv
    <3>3. g \in Int /\ f \in Int
      BY <3>1 DEF Files
    <3> QED
      BY <3>1, <3>2, <3>3 DEF NewerImages, NewerThan
  <2> QED
    BY <2>1
<1>3. image \in Injection(Metas, Images_)
  <2>1. image \in [Metas -> Images_]
    BY <1>2
  <2>2. \A g, h \in Metas : image[g] = image[h] => g = h
    BY <1>2
  <2> QED
    BY <2>1, <2>2 DEF Injection, IsInjective
<1>4. Cardinality(Metas) <= Cardinality(Images_)
  <2> HIDE DEF Metas, Images_, image
  <2> QED
    BY <1>1, <1>3, FS_Injection
<1>5. NewerThan(f) = Images_ \union Metas /\ Images_ \cap Metas = {}
  BY DEF NewerImages
<1>6. Cardinality(NewerThan(f)) = Cardinality(Images_) + Cardinality(Metas) - 0
  <2> HIDE DEF Metas, Images_
  <2>1. Cardinality(Images_ \union Metas)
          = Cardinality(Images_) + Cardinality(Metas) - Cardinality(Images_ \cap Metas)
    BY <1>1, FS_Union
  <2> QED
    BY <2>1, <1>5, FS_EmptySet
<1> HIDE DEF Metas, Images_
<1>7. Cardinality(NewerThan(f)) <= 2 * Cardinality(Images_)
  BY <1>1, <1>4, <1>6
<1> QED
  BY <1>7 DEF Images_

(* removefiles.py counts every file and takes images only: whatever the      *)
(* mover does to the directory between its listing and each removal, at      *)
(* least half of Keep + 1 - Batch newer images were created, for any number  *)
(* of images and of missing .meta files.                                     *)
THEOREM RemoverTakesOldest == Spec => []NewestSurvive
<1>1. Init => OldInv
  BY MoverAssumption DEF Init, OldInv, Created, NoCopy
<1>2. OldInv => NewestSurvive
  <2> SUFFICES ASSUME OldInv, NEW f \in dropped
               PROVE  2 * Cardinality(NewerImages(f)) >= Keep + 1 - Batch
    BY DEF NewestSurvive
  <2>1. f \in Files /\ Enough(f)
    BY DEF OldInv
  <2>2. /\ Cardinality(NewerThan(f)) \in Nat
        /\ Cardinality(NewerImages(f)) \in Nat
    BY NewerFinite, FS_Subset, FS_CardinalityType DEF NewerImages
  <2> QED
    BY <2>1, <2>2, HalfAreImages, MoverAssumption DEF Enough
<1> QED
  BY <1>1, <1>2, TypeInit, TypeStep, OldStep, PTL DEF Spec

------------------------------------------------------------------------------
(* A round of copyfile ends, and the second visit to a file is the last.       *)

\* How far the mover is from the end of its visit to cur.
Left ==
  CASE mv = "copy"               -> Size + 5
    [] mv = "copying"            -> Size - copy[cur] + 4
    [] mv = "compare"            -> 3
    [] mv \in {"remove", "drop"} -> 2
    [] mv = "next"               -> 1
    [] OTHER                     -> 0

\* The files still to visit, each by Size + 6 steps at most.
Visits(n) == n * (Size + 6)
Rank == Visits(Cardinality(todo)) + Left

RoundInv ==
  /\ mv \in {"idle", "dead"} => todo = {}
  /\ mv \in {"copying", "compare", "remove"} => copy[cur] # NoCopy

RankInv == Rank \in Nat

RoundShrinks ==
  mv \notin {"idle", "dead"} => Rank' < Rank \/ UNCHANGED <<mover, copy>>

LEMMA VisitsGrow ==
  /\ \A n \in Nat : Visits(n) \in Nat
  /\ \A n \in Nat \ {0} : Visits(n) = Visits(n - 1) + Size + 6
<1>1. Size \in Nat
  BY MoverAssumption
<1>2. ASSUME NEW n \in Nat PROVE Visits(n) \in Nat
  BY <1>1 DEF Visits
<1>3. ASSUME NEW n \in Nat \ {0} PROVE Visits(n) = Visits(n - 1) + Size + 6
  BY <1>1 DEF Visits
<1> QED
  BY <1>2, <1>3

LEMMA LeftType ==
  TypeOK /\ RoundInv => Left \in 0..(Size + 5)
  BY MoverAssumption DEF TypeOK, RoundInv, Left, NoCopy

LEMMA TodoFinite ==
  ASSUME TypeOK
  PROVE  /\ IsFiniteSet(todo) /\ Cardinality(todo) \in Nat
         /\ \A f \in todo : /\ Cardinality(todo \ {f}) = Cardinality(todo) - 1
                            /\ Cardinality(todo) \in Nat \ {0}
<1>1. IsFiniteSet(Files)
  BY MoverAssumption, FS_Interval DEF Files
<1>2. IsFiniteSet(todo) /\ Cardinality(todo) \in Nat
  BY <1>1, FS_Subset, FS_CardinalityType DEF TypeOK
<1>3. ASSUME NEW f \in todo
      PROVE  /\ Cardinality(todo \ {f}) = Cardinality(todo) - 1
             /\ Cardinality(todo) \in Nat \ {0}
  BY <1>2, FS_RemoveElement, FS_EmptySet
<1> QED
  BY <1>2, <1>3

LEMMA RoundStep == TypeOK /\ RoundInv /\ [Next]_vars => RoundInv'
<1> SUFFICES ASSUME TypeOK, RoundInv, [Next]_vars PROVE RoundInv'
  OBVIOUS
<1> USE MoverAssumption DEF TypeOK, RoundInv, NoCopy, mover, remover, history
<1>1. CASE MvList \/ MvDone \/ MvOpen \/ MvBlock
  BY <1>1 DEF MvList, MvDone, MvOpen, MvBlock
<1>2. CASE MvEnd \/ MvCompare \/ MvRemove
  BY <1>2 DEF MvEnd, MvCompare, MvRemove
<1>3. CASE MvFails \/ MvCrash \/ MvStart
  BY <1>3 DEF MvFails, MvCrash, MvStart, Stop
<1>4. ASSUME NEW f \in Files, MvCheck(f) \/ MvSkip(f) PROVE RoundInv'
  BY <1>4 DEF MvCheck, MvSkip
<1>5. CASE UNCHANGED <<copy, mover>>
  BY <1>5
<1> QED
  BY <1>1, <1>2, <1>3, <1>4, <1>5
     DEF Next, MoverStep, Create, Write, RmRemove, RmList, vars

LEMMA ShrinkStep ==
  ASSUME TypeOK, TypeOK', RoundInv, RoundInv', [Next]_vars
  PROVE  RoundShrinks
<1>0. PICK v \in Nat, l \in 0..(Size + 5), k \in 0..(Size + 5) :
        v = Visits(Cardinality(todo)) /\ l = Left /\ k = Left'
  <2>1. Left' \in 0..(Size + 5)
    BY MoverAssumption DEF TypeOK, RoundInv, Left, NoCopy
  <2> QED
    BY <2>1, TodoFinite, VisitsGrow, LeftType
<1>1. ASSUME todo' = todo, Left' < Left PROVE Rank' < Rank
  <2>1. Rank = v + l /\ Rank' = v + k
    BY <1>0, <1>1 DEF Rank, Visits
  <2> QED
    BY <2>1, <1>0, <1>1, MoverAssumption
<1>2. ASSUME NEW f \in todo, todo' = todo \ {f}, mv = "next" PROVE Rank' < Rank
  <2>1. PICK w \in Nat : w = Visits(Cardinality(todo')) /\ v = w + Size + 6
    BY <1>0, <1>2, TodoFinite, VisitsGrow
  <2>2. Rank = v + 1 /\ Rank' = w + k
    BY <1>0, <1>2, <2>1 DEF Rank, Left, Visits
  <2> QED
    BY <2>1, <2>2, <1>0, MoverAssumption
<1>3. ASSUME todo' = {}, Left' = 0, Left > 0 PROVE Rank' < Rank
  <2>1. Cardinality({}) = 0 /\ Visits(0) = 0
    BY FS_EmptySet, MoverAssumption DEF Visits
  <2>2. Rank = v + l /\ Rank' = 0 + k /\ k = 0
    BY <1>0, <1>3, <2>1 DEF Rank, Visits
  <2> QED
    BY <2>2, <1>0, <1>3, MoverAssumption
<1>4. CASE MvList \/ MvStart
  BY <1>4 DEF MvList, MvStart, RoundShrinks
<1>5. ASSUME NEW f \in Files, MvCheck(f) \/ MvSkip(f) PROVE RoundShrinks
  BY <1>2, <1>5 DEF MvCheck, MvSkip, RoundShrinks
<1>6. CASE MvOpen \/ MvBlock \/ MvEnd \/ MvCompare \/ MvRemove \/ MvDone
  <2>1. todo' = todo
    BY <1>6 DEF MvOpen, MvBlock, MvEnd, MvCompare, MvRemove, MvDone, mover
  <2>2. Left' < Left
    <3> USE MoverAssumption DEF Left, TypeOK, RoundInv, NoCopy
    <3>1. CASE MvOpen
      BY <3>1 DEF MvOpen
    <3>2. CASE MvBlock
      <4>1. mv = "copying" /\ mv' = "copying" /\ cur' = cur
        BY <3>2 DEF MvBlock, mover
      <4>2. copy[cur] \in Nat /\ copy'[cur] = copy[cur] + 1
        BY <3>2, <4>1 DEF MvBlock
      <4> QED
        BY <4>1, <4>2
    <3>3. CASE MvEnd
      <4>1. Size - copy[cur] \in Nat
        BY <3>3 DEF MvEnd
      <4> QED
        BY <3>3, <4>1 DEF MvEnd
    <3>4. CASE MvCompare \/ MvRemove \/ MvDone
      BY <3>4 DEF MvCompare, MvRemove, MvDone
    <3> QED
      BY <1>6, <3>1, <3>2, <3>3, <3>4
  <2> QED
    BY <1>1, <2>1, <2>2 DEF RoundShrinks
<1>7. CASE MvFails \/ MvCrash
  <2>1. todo' = {} /\ Left' = 0
    BY <1>7 DEF MvFails, MvCrash, Stop, Left
  <2>2. mv \notin {"idle", "dead"} => Left > 0
    BY MoverAssumption DEF Left, TypeOK, RoundInv, NoCopy
  <2> QED
    BY <1>3, <2>1, <2>2 DEF RoundShrinks
<1>8. CASE UNCHANGED <<mover, copy>>
  BY <1>8 DEF RoundShrinks
<1> QED
  BY <1>4, <1>5, <1>6, <1>7, <1>8
     DEF Next, MoverStep, Create, Write, RmRemove, RmList, vars

LEMMA RoundAlways == Spec => [](TypeOK /\ RoundInv)
<1>1. Init => RoundInv
  BY DEF Init, RoundInv
<1> QED
  BY <1>1, TypeInit, TypeStep, RoundStep, PTL DEF Spec

(* A round of copyfile ends: until the mover sleeps again each of its steps    *)
(* brings it nearer, and nothing the capture program or the remover does       *)
(* meanwhile takes it back, also when a file grows under copy2 or goes.        *)
THEOREM RoundsEnd == Spec => []RankInv /\ [][RoundShrinks]_vars
<1>1. TypeOK /\ RoundInv => RankInv
  <2> SUFFICES ASSUME TypeOK, RoundInv PROVE Rank \in Nat
    BY DEF RankInv
  <2>1. Visits(Cardinality(todo)) \in Nat /\ Left \in 0..(Size + 5) /\ Size \in Nat
    BY TodoFinite, VisitsGrow, LeftType, MoverAssumption
  <2> QED
    BY <2>1 DEF Rank
<1>2. TypeOK /\ TypeOK' /\ RoundInv /\ RoundInv' /\ [Next]_vars => RoundShrinks
  BY ShrinkStep
<1> QED
  BY <1>1, <1>2, RoundAlways, PTL DEF Spec

VisitSettles ==
  /\ mv \in Holding /\ mv' = "next" => cur \notin live' \/ copy'[cur] # NoCopy
  /\ \A f \in Files : copy[f] # NoCopy => copy'[f] # NoCopy
  /\ mv = "next" /\ mv' = "copy" => copy[cur'] = NoCopy

(* A visit ends with the file removed or with a copy of it, copies stay, and   *)
(* only a file without one is copied: whatever the hashes say, the next visit  *)
(* to a file that was left removes it, so none is copied for ever.             *)
THEOREM VisitsSettle == Spec => [][VisitSettles]_vars
<1>1. ASSUME TypeOK, RoundInv, [Next]_vars PROVE VisitSettles
  <2> USE <1>1, MoverAssumption
      DEF TypeOK, RoundInv, NoCopy, Holding, VisitSettles, mover, remover, history
  <2>1. CASE MvList \/ MvDone \/ MvOpen \/ MvBlock
    BY <2>1 DEF MvList, MvDone, MvOpen, MvBlock
  <2>2. CASE MvEnd \/ MvCompare \/ MvRemove
    BY <2>2 DEF MvEnd, MvCompare, MvRemove
  <2>3. CASE MvFails \/ MvCrash \/ MvStart
    BY <2>3 DEF MvFails, MvCrash, MvStart, Stop
  <2>4. ASSUME NEW f \in Files, MvCheck(f) \/ MvSkip(f) PROVE VisitSettles
    BY <2>4 DEF MvCheck, MvSkip
  <2>5. CASE UNCHANGED <<copy, mover>>
    BY <2>5
  <2> QED
    BY <2>1, <2>2, <2>3, <2>4, <2>5
       DEF Next, MoverStep, Create, Write, RmRemove, RmList, vars
<1> QED
  BY <1>1, RoundAlways, PTL DEF Spec
==============================================================================
