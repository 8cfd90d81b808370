------------------------------- MODULE Mover -------------------------------
(***************************************************************************)
(* The directory of live images, the two programs that fill it and the two *)
(* that empty it:                                                          *)
(*                                                                         *)
(*   - the capture program writes the images, and the watchdog a .meta     *)
(*     file for each that was closed (watchdog.py, lines 165 to 169);      *)
(*   - the mover, copyfile() of utils/copyfiles_BB_South.py (and _North),  *)
(*     which copies every file to the directory of its hour, compares the  *)
(*     hashes and removes the original;                                    *)
(*   - the remover, utils/removefiles.py, which looks at the Batch first   *)
(*     names whenever it lists more than Keep files, and removes those of  *)
(*     them that are images.                                               *)
(*                                                                         *)
(* A file is the place of its name in a sorted listing: names are a time,  *)
(* and "meta" sorts before "raw".  Files are created with their names in   *)
(* order, written block by block, and seen by both programs from their     *)
(* creation.  A file's contents are the number of its blocks: it is        *)
(* written and copied from the front, so two copies differ when their      *)
(* lengths do.  The directory of a file is that of one hour: a file that   *)
(* is still written when the hour changes would be copied twice.           *)
(***************************************************************************)
EXTENDS Integers, FiniteSets

CONSTANTS Images,      \* how many images the capture program writes
          Size,        \* blocks of a complete file
          Keep, Batch, \* 20 and 5 in removefiles.py
          MaxCrashes   \* bound: how often the mover is interrupted

ASSUME MoverAssumption ==
  /\ Images \in Nat /\ Size \in Nat \ {0}
  /\ Keep \in Nat /\ Batch \in Nat \ {0} /\ MaxCrashes \in Nat

Raw    == {2 * i : i \in 1..Images}   \* an image ...
Meta(f) == f - 1                       \* ... and its .meta file
Files  == 1..(2 * Images)
NoCopy == -1

VARIABLES
  live,            \* the files in the live directory
  size,            \* blocks written to a file, also after it was removed
  copy,            \* blocks of its copy in the archive, or NoCopy
  mv, cur, todo,   \* mover: program counter, file, rest of its listing
  rm, rlist,       \* remover: running or dead, rest of its listing
  crashes,
  early, torn, dropped   \* history: taken before they were whole, copies cut
                         \* short, removed by the remover
capture == <<size>>
mover   == <<mv, cur, todo>>
remover == <<rm, rlist>>
history == <<early, torn, dropped>>
vars    == <<live, capture, copy, mover, remover, crashes, history>>

Created == {f \in Files : size[f] > NoCopy}

-----------------------------------------------------------------------------
(* The capture program and the watchdog.                                    *)

\* The names are times: an image is newer than those before it.
NextImage(f) ==
  f \in Raw /\ \A g \in Raw : IF g < f THEN size[g] > NoCopy ELSE size[g] = NoCopy

\* process_IN_CLOSE_WRITE: an image was closed, and is there when its time is
\* read.  The events come in order; one may be missed, or its image be gone.
NextMeta(f) ==
  \E g \in Raw : /\ f = Meta(g) /\ size[g] = Size /\ g \in live
                 /\ \A h \in Raw : h >= g => size[Meta(h)] = NoCopy

Create(f) ==
  /\ NextImage(f) \/ NextMeta(f)
  /\ size' = [size EXCEPT ![f] = 0]
  /\ live' = live \union {f}
  /\ UNCHANGED <<copy, mover, remover, crashes, history>>

Write(f) ==
  /\ size[f] \in 0..(Size - 1)
  /\ size' = [size EXCEPT ![f] = @ + 1]
  /\ UNCHANGED <<live, copy, mover, remover, crashes, history>>

-----------------------------------------------------------------------------
(* The mover.                                                               *)

\* The periodic scheduler calls copyfile, which lists the directory.
MvList ==
  /\ mv = "idle"
  /\ mv' = "next" /\ todo' = live
  /\ UNCHANGED <<live, capture, copy, cur, remover, crashes, history>>

MvCheckInverted(f) ==   \* mutant: line 49 without its "not"
  /\ mv = "next" /\ f \in todo /\ f \in live
  /\ todo' = todo \ {f} /\ cur' = f
  /\ mv' = IF copy[f] = NoCopy THEN "drop" ELSE "copy"
  /\ early' = IF size[f] < Size THEN early \union {f} ELSE early
  /\ UNCHANGED <<live, capture, copy, remover, crashes, torn, dropped>>

MvCheckLeaves(f) ==   \* mutant: lines 59 to 62 missing, as in copyfiles_HTI.py
  /\ mv = "next" /\ f \in todo /\ f \in live
  /\ todo' = todo \ {f} /\ cur' = f
  /\ mv' = IF copy[f] = NoCopy THEN "copy" ELSE "next"
  /\ early' = IF size[f] < Size THEN early \union {f} ELSE early
  /\ UNCHANGED <<live, capture, copy, remover, crashes, torn, dropped>>

\* The next file: copy it, or remove it when there is a copy.
MvCheck(f) ==
  /\ mv = "next" /\ f \in todo /\ f \in live
  /\ todo' = todo \ {f} /\ cur' = f
  /\ mv' = IF copy[f] = NoCopy THEN "copy" ELSE "drop"
  /\ early' = IF size[f] < Size THEN early \union {f} ELSE early
  /\ UNCHANGED <<live, capture, copy, remover, crashes, torn, dropped>>

\* isfile() is false for a file the remover took.
MvSkip(f) ==
  /\ mv = "next" /\ f \in todo /\ f \notin live
  /\ todo' = todo \ {f}
  /\ UNCHANGED <<live, capture, copy, mv, cur, remover, crashes, history>>

MvDone ==
  /\ mv = "next" /\ todo = {}
  /\ mv' = "idle"
  /\ UNCHANGED <<live, capture, copy, cur, todo, remover, crashes, history>>

\* shutil.copy2 opens the original and makes an empty copy ...
MvOpen ==
  /\ mv = "copy" /\ cur \in live
  /\ mv' = "copying" /\ copy' = [copy EXCEPT ![cur] = 0]
  /\ UNCHANGED <<live, capture, cur, todo, remover, crashes, history>>

\* ... writes it block by block ...
MvBlock ==
  /\ mv = "copying" /\ copy[cur] < size[cur]
  /\ copy' = [copy EXCEPT ![cur] = @ + 1]
  /\ UNCHANGED <<live, capture, mover, remover, crashes, history>>

\* ... to the end of what the original has now.
MvEnd ==
  /\ mv = "copying" /\ copy[cur] = size[cur]
  /\ mv' = "compare"
  /\ UNCHANGED <<live, capture, copy, cur, todo, remover, crashes, history>>

\* The two hashes are equal: remove the original, or else leave it for now.
MvCompare ==
  /\ mv = "compare" /\ cur \in live
  /\ mv' = IF copy[cur] = size[cur] THEN "remove" ELSE "next"
  /\ UNCHANGED <<live, capture, copy, cur, todo, remover, crashes, history>>

MvRemove ==
  /\ mv \in {"remove", "drop"} /\ cur \in live
  /\ live' = live \ {cur}
  /\ mv' = "next"
  /\ UNCHANGED <<capture, copy, cur, todo, remover, crashes, history>>

Stop ==
  /\ mv' = "dead" /\ todo' = {}
  /\ torn' = IF mv = "copying" THEN torn \union {cur} ELSE torn
  /\ UNCHANGED <<live, capture, copy, cur, remover, early, dropped>>

\* Nothing catches the exception of a file that is there no more.
MvFails ==
  /\ mv \in {"copy", "compare", "remove", "drop"} /\ cur \notin live
  /\ Stop
  /\ UNCHANGED crashes

\* An error of the volume or a kill; and somebody starts the mover again.
MvCrash ==
  /\ mv # "dead" /\ crashes < MaxCrashes
  /\ crashes' = crashes + 1
  /\ Stop

MvStart ==
  /\ mv = "dead"
  /\ mv' = "idle"
  /\ UNCHANGED <<live, capture, copy, cur, todo, remover, crashes, history>>

MoverStep ==
  \/ MvList \/ \E f \in Files : MvCheck(f) \/ MvSkip(f)
  \/ MvDone \/ MvOpen \/ MvBlock \/ MvEnd \/ MvCompare \/ MvRemove \/ MvFails

-----------------------------------------------------------------------------
(* The remover.                                                             *)

\* Of the first Batch names of a sorted listing, which have fewer than Batch
\* before them, the images.
Oldest(L) == {f \in L \intersect Raw : Cardinality({g \in L : g < f}) < Batch}

RmListNewest ==   \* mutant: the listing is not sorted by age
  /\ rm = "up" /\ rlist = {} /\ Cardinality(live) > Keep
  /\ rlist' = {f \in live \intersect Raw : Cardinality({g \in live : g > f}) < Batch}
  /\ UNCHANGED <<live, capture, copy, mover, rm, crashes, history>>

\* With Batch .meta files in front it finds nothing to remove.
RmList ==
  /\ rm = "up" /\ rlist = {} /\ Cardinality(live) > Keep
  /\ rlist' = Oldest(live)
  /\ UNCHANGED <<live, capture, copy, mover, rm, crashes, history>>

\* os.remove; it ends the program when the mover was faster.
RmRemove(f) ==
  /\ rm = "up" /\ f \in rlist /\ \A g \in rlist : g >= f
  /\ \/ f \in live /\ rlist' = rlist \ {f} /\ dropped' = dropped \union {f}
                   /\ UNCHANGED rm
     \/ f \notin live /\ rm' = "dead" /\ rlist' = {} /\ UNCHANGED dropped
  /\ live' = live \ {f}
  /\ UNCHANGED <<capture, copy, mover, crashes, early, torn>>

-----------------------------------------------------------------------------
Init ==
  /\ live = {} /\ size = [f \in Files |-> NoCopy] /\ copy = [f \in Files |-> NoCopy]
  /\ mv = "idle" /\ cur = 0 /\ todo = {}
  /\ rm = "up" /\ rlist = {}
  /\ crashes = 0
  /\ early = {} /\ torn = {} /\ dropped = {}

Next ==
  \/ \E f \in Files : Create(f) \/ Write(f) \/ RmRemove(f)
  \/ MoverStep \/ MvCrash \/ MvStart \/ RmList

Spec == Init /\ [][Next]_vars

\* The mover's loop runs: it sleeps fifteen minutes and never waits otherwise.
FairSpec == Spec /\ WF_vars(MoverStep)

-----------------------------------------------------------------------------
(* Every variable has its type, and the mover holds a file whenever it is   *)
(* past the check of line 49.                                               *)
TypeOK ==
  /\ live \subseteq Files
  /\ size \in [Files -> NoCopy..Size] /\ copy \in [Files -> NoCopy..Size]
  /\ mv \in {"idle", "next", "copy", "copying", "compare", "remove", "drop",
             "dead"}
  /\ mv \in {"copy", "copying", "compare", "remove", "drop"} => cur \in Files
  /\ todo \subseteq Files
  /\ rm \in {"up", "dead"} /\ rlist \subseteq Files
  /\ crashes \in 0..MaxCrashes
  /\ early \subseteq Files /\ torn \subseteq Files /\ dropped \subseteq Files

Lost(f) == size[f] > NoCopy /\ f \notin live /\ copy[f] # Size

(* A file is lost in three ways only: the remover took it, the mover took it *)
(* before its program had closed it, or the mover died while it copied it.  *)
(* A complete file and an undisturbed mover lose nothing.                   *)
LossHasCause == \A f \in Files : Lost(f) => f \in early \union torn \union dropped

(* A complete copy stays complete: no later run of copyfile opens it again. *)
CopiesStay == [][\A f \in Files : copy[f] = Size => copy'[f] = Size]_vars

(* removefiles.py counts every file and takes images only when more than    *)
(* Keep files are there, the oldest first.  A .meta file comes after its    *)
(* image was closed, so half of the files behind the one taken, at least    *)
(* Keep + 1 - Batch, are images that are newer.                             *)
NewerThan(f)   == {g \in Created : g > f}
NewerImages(f) == NewerThan(f) \intersect Raw
NewestSurvive ==
  \A f \in dropped : 2 * Cardinality(NewerImages(f)) >= Keep + 1 - Batch

(* The live directory empties: every file that stays is moved, its copy     *)
(* complete or not, as long as the mover lives.                             *)
LiveEmpties == \A f \in Files : f \in live ~> f \notin live \/ mv = "dead"

(* "Removing file because it has already been moved" (line 61)              *)
AlreadyMoved == [][mv = "drop" /\ mv' = "next" => copy[cur] = size[cur]]_vars
=============================================================================
