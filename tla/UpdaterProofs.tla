----------------------------- MODULE UpdaterProofs -----------------------------
(***************************************************************************)
(* Proofs about Updater: that updates, however they are interrupted, keep a *)
(* whole build and put it back, and that their outcomes are true, for any   *)
(* number of launchers that follow one another and any releases.            *)
(***************************************************************************)
EXTENDS Updater, FiniteSetTheorems, TLAPS

Builds == [v : Nat, whole : BOOLEAN]
Staging == Names \ {Slot}
Installing == {"fetch", "clear", "create", "write", "swap", "exchanged", "aside",
               "place", "putback", "clean", "tidy"}
States == {"Idle", "Checking", "UpToDate", "Found", "Downloading", "Installed", "Failed"}
Messages == {"none", "uptodate", "found", "installed", "handedoff", "failed", "dropped"}
Sweeping == {"look", "move", "delete"}
Release == [v : Nat, asset : {"none", "archive", "installer"}, blocked : BOOLEAN]
Leftover == [rest : Seq(Staging), all : SUBSET Staging]
Up(p) == proc[p] = "up"

(* What the proof needs of the types.                                       *)
DiskOK == disk \in [Names -> Builds]

DataOK ==
  /\ shape \in AllShapes
  /\ found \in [Launchers -> Release]
  /\ running \in [Launchers -> Nat]
  /\ proc \in [Launchers -> {"unborn", "up", "gone"}]
  /\ from \in [Launchers -> Names]
  /\ sw \in [Launchers -> {"read", "done"} \cup Sweeping]
  /\ todo \in [Launchers -> Leftover]
  /\ wk \in [Launchers -> {"none", "check"} \cup Installing]
  /\ faults \in 0..MaxFaults
  /\ together \in BOOLEAN

TalkOK == st \in [Launchers -> States] /\ mail \in [Launchers -> Messages]

(* Only a launcher that is up sweeps, and only one past its sweep, started   *)
(* from the application's own name, replaces it, with the release it found.  *)
Phase(p) ==
  /\ ~Up(p) => wk[p] = "none" /\ sw[p] = "read"
  /\ wk[p] # "none" => sw[p] = "done"
  /\ wk[p] # "none" => Busy(p) /\ mail[p] = "none"
  /\ sw[p] = "move" => todo[p].rest # <<>>
  /\ ~InPlace(p) => sw[p] \notin Sweeping
  /\ ~found[p].blocked => found[p].v # 0
  /\ wk[p] \in Installing => ~found[p].blocked /\ from[p] = Slot
  /\ wk[p] \in Installing \ {"fetch"} => shape # "installer"
  /\ wk[p] = "swap" => IsDir
  /\ wk[p] \in {"aside", "putback"} => shape # "binary"
PhaseOK == \A p \in Launchers : Phase(p)

AloneOK == ~together => \A p, q \in Launchers : Up(p) /\ Up(q) => p = q

(* The new build between its first byte and its place.                      *)
Building(p) ==
  /\ wk[p] = "write" => disk[New(p)] = Half(found[p].v)
  /\ wk[p] \in {"swap", "aside", "place"} => disk[New(p)] = Whole(found[p].v)
  /\ wk[p] \in {"exchanged", "tidy"} => disk[Slot] = Whole(found[p].v)
BuildingOK == ~together => \A p \in Launchers : Building(p)

Empty == disk[Slot] = Nothing
WholeAt(n) == disk[n].whole
Tight == ~together /\ Spent <= 1

(* While nothing is at the application's name all there is is whole, and     *)
(* there is a build for every rename that may fail, and one more.           *)
Kept ==
  /\ ~Empty => WholeAt(Slot)
  /\ Empty => /\ \A n \in Names : disk[n] # Nothing => WholeAt(n)
              /\ \E a \in Staging : WholeAt(a)
              /\ Spent = 0 => \E a, b \in Staging : a # b /\ WholeAt(a) /\ WholeAt(b)
KeptOK == Tight => Kept

(* Where a launcher may leave the application's name empty, and what is      *)
(* under its staging names then; half a build is only in its own hands.     *)
Between(p) == wk[p] = "putback" \/ (wk[p] = "place" /\ shape # "binary")

Swapping(p) ==
  /\ Up(p) /\ (from[p] = Slot \/ (sw[p] = "done" /\ InPlace(p))) => (Empty <=> Between(p))
  /\ Between(p) => WholeAt(Old(p))
  /\ wk[p] = "putback" => Spent = 1
  /\ Up(p) /\ sw[p] = "done" /\ InPlace(p) =>
       \A n \in Names : disk[n] # Nothing /\ ~WholeAt(n) =>
         n = New(p) /\ wk[p] \in {"none", "check", "fetch", "clear", "create", "write"}
SwappingOK == Tight => \A p \in Launchers : Swapping(p)

(* A sweep has seen all there is, and before it deletes anything it has      *)
(* found or put something in place.                                         *)
Swept(p) ==
  /\ sw[p] \in Sweeping => \A n \in Staging : disk[n] # Nothing => n \in todo[p].all
  /\ sw[p] \in {"look", "move"} /\ Empty =>
       /\ \A n \in Range(todo[p].rest) : WholeAt(n)
       /\ todo[p].rest # <<>>
       /\ Spent = 0 => \E a, b \in Range(todo[p].rest) : a # b
  /\ sw[p] = "move" => Empty
  /\ sw[p] = "delete" => ~Empty
SweptOK == Tight => \A p \in Launchers : Swept(p)

Inv ==
  /\ DiskOK /\ DataOK /\ TalkOK /\ PhaseOK /\ AloneOK
  /\ BuildingOK /\ KeptOK /\ SwappingOK /\ SweptOK

-----------------------------------------------------------------------------
(* Names, builds and deletions.                                              *)

(* The application's name and the staging names are apart.                  *)
LEMMA NamesApart ==
  /\ Slot \in Names
  /\ \A p \in Launchers : New(p) \in Staging /\ Old(p) \in Staging
  /\ \A p, q \in Launchers : New(p) # Old(q)
  /\ \A n \in Staging : n[1] \in {"new", "old"}
  /\ Slot[1] = "slot"
BY DEF Slot, Names, Staging, New, Old

(* A build is whole or half, and neither is nothing.                         *)
LEMMA BuildFacts ==
  /\ Nothing \in Builds /\ ~Nothing.whole
  /\ \A b \in Builds : b.whole => b # Nothing
  /\ \A v \in Nat : /\ Whole(v) \in Builds /\ Whole(v).whole
                    /\ Half(v) \in Builds /\ ~Half(v).whole
                    /\ v # 0 => Half(v) # Nothing
BY DEF Nothing, Whole, Half, Builds

(* The records releases and leftovers are kept in.                           *)
LEMMA RecordFacts ==
  /\ NoRelease \in Release /\ NoRelease.blocked
  /\ NoLeftovers \in Leftover
  /\ \A t \in Leftover :
       /\ t.rest \in Seq(Staging) /\ t.all \in SUBSET Staging
       /\ [t EXCEPT !.all = {}] \in Leftover
       /\ t.rest # <<>> => /\ Head(t.rest) \in Staging
                          /\ [t EXCEPT !.rest = Tail(@)] \in Leftover
<1>1. NoRelease \in Release /\ NoRelease.blocked
  BY DEF NoRelease, Release
<1>2. NoLeftovers \in Leftover
  BY DEF NoLeftovers, Leftover
<1>3. ASSUME NEW t \in Leftover
      PROVE  /\ t.rest \in Seq(Staging) /\ t.all \in SUBSET Staging
             /\ [t EXCEPT !.all = {}] \in Leftover
  BY DEF Leftover
<1>4. ASSUME NEW t \in Leftover, t.rest # <<>>
      PROVE  Head(t.rest) \in Staging /\ [t EXCEPT !.rest = Tail(@)] \in Leftover
  <2>1. Head(t.rest) \in Staging /\ Tail(t.rest) \in Seq(Staging)
    BY <1>4 DEF Leftover
  <2>q. QED
    BY <2>1 DEF Leftover
<1>q. QED
  BY <1>1, <1>2, <1>3, <1>4

(* A rename moves one build, over another if need be.                       *)
LEMMA RenamedIs ==
  ASSUME DiskOK, NEW a \in Names, NEW b \in Names, a # b
  PROVE  LET d == Renamed(a, b) IN
           /\ d \in [Names -> Builds]
           /\ d[b] = disk[a] /\ d[a] = Nothing
           /\ \A n \in Names \ {a, b} : d[n] = disk[n]
BY BuildFacts DEF DiskOK, Renamed

(* A deletion empties names among those it is of, and leaves none with half  *)
(* a build.                                                                 *)
LEMMA DeletedIs ==
  ASSUME DiskOK, NEW S \in SUBSET Names, NEW d \in Deletions(disk, S)
  PROVE  /\ d \in [Names -> Builds]
         /\ \A n \in Names \ S : d[n] = disk[n]
         /\ \A n \in S : d[n] = Nothing \/ (d[n] = disk[n] /\ disk[n].whole)
<1>1. PICK R \in SUBSET S : d = Removed(disk, R) /\ \A n \in S \ R : MayBeLocked(n)
  BY DEF Deletions
<1>2. \A n \in Names : d[n] = IF n \in R THEN Nothing ELSE disk[n]
  BY <1>1 DEF Removed
<1>3. d \in [Names -> Builds]
  BY <1>1, BuildFacts DEF Removed, DiskOK
<1>4. \A n \in S \ R : disk[n].whole
  BY <1>1 DEF MayBeLocked
<1>q. QED
  BY <1>2, <1>3, <1>4

(* There are as many names as launchers to make them.                        *)
LEMMA NamesFinite == IsFiniteSet(Names)
<1>1. IsFiniteSet({"new", "old"} \X Launchers)
  <2>1. IsFiniteSet({"new"} \cup {"old"})
    BY FS_Singleton, FS_Union
  <2>q. QED
    BY <2>1, UpdaterAssumption, FS_Product DEF UpdaterAssumption
<1>2. {<<k, p>> : k \in {"new", "old"}, p \in Launchers} = {"new", "old"} \X Launchers
  OBVIOUS
<1>q. QED
  <2>1. IsFiniteSet({Slot} \cup ({"new", "old"} \X Launchers))
    BY <1>1, FS_Singleton, FS_Union
  <2>q. QED
    BY <1>2, <2>1 DEF Names

(* The orders of a set are sequences of all its elements.                   *)
LEMMA OrdersOnto ==
  ASSUME NEW S, IsFiniteSet(S), NEW f \in SetToSeqs(S)
  PROVE  f \in Seq(S) /\ Range(f) = S
<1> DEFINE n == Cardinality(S)
<1>1. n \in Nat
  BY FS_CardinalityType
<1>2. f \in [1..n -> S] /\ \A i, j \in 1..n : i # j => f[i] # f[j]
  BY DEF SetToSeqs
<1>3. IsFiniteSet(1..n) /\ Cardinality(1..n) = n
  BY <1>1, FS_Interval
<1>4. f \in Injection(1..n, S)
  BY <1>2 DEF Injection, IsInjective
<1>5. f \in Surjection(1..n, S)
  BY <1>3, <1>4, FS_Injection
<1>q. QED
  BY <1>1, <1>2, <1>5 DEF Surjection, Range

(* Two sequences joined have the elements of both.                           *)
LEMMA RangeJoined ==
  ASSUME NEW T, NEW a \in Seq(T), NEW b \in Seq(T)
  PROVE  a \o b \in Seq(T) /\ Range(a \o b) = Range(a) \cup Range(b)
<1>1. a \o b \in Seq(T) /\ Len(a \o b) = Len(a) + Len(b)
  OBVIOUS
<1>2. \A i \in 1..Len(a) : (a \o b)[i] = a[i]
  OBVIOUS
<1>3. \A i \in 1..Len(b) : (a \o b)[Len(a) + i] = b[i]
  OBVIOUS
<1>4. \A i \in 1..(Len(a) + Len(b)) :
        i \in 1..Len(a) \/ (i - Len(a) \in 1..Len(b) /\ i = Len(a) + (i - Len(a)))
  OBVIOUS
<1>5. Range(a) \cup Range(b) \subseteq Range(a \o b)
  <2>1. ASSUME NEW i \in 1..Len(a) PROVE a[i] \in Range(a \o b)
    <3>1. i \in 1..(Len(a) + Len(b))
      OBVIOUS
    <3>q. QED
      BY <1>1, <1>2, <3>1 DEF Range
  <2>2. ASSUME NEW i \in 1..Len(b) PROVE b[i] \in Range(a \o b)
    <3>1. Len(a) + i \in 1..(Len(a) + Len(b))
      OBVIOUS
    <3>q. QED
      BY <1>1, <1>3, <3>1 DEF Range
  <2>3. DOMAIN a = 1..Len(a) /\ DOMAIN b = 1..Len(b)
    OBVIOUS
  <2>q. QED
    BY <2>1, <2>2, <2>3 DEF Range
<1>6. Range(a \o b) \subseteq Range(a) \cup Range(b)
  BY <1>1, <1>2, <1>3, <1>4 DEF Range
<1>q. QED
  BY <1>1, <1>5, <1>6

(* What a sweep reads: all there is under staging names, in some order.      *)
LEMMA SweepReads ==
  ASSUME DataOK, NEW p \in Launchers, SweepRead(p)
  PROVE  LET all == IF InPlace(p) THEN {n \in Staging : disk[n] # Nothing} ELSE {} IN
           /\ todo'[p].all = all /\ todo'[p] \in Leftover
           /\ Range(todo'[p].rest) = all
           /\ todo' = [todo EXCEPT ![p] = todo'[p]]
           /\ sw' = [sw EXCEPT ![p] = IF all = {} THEN "done" ELSE "look"]
           /\ sw' = [sw EXCEPT ![p] = sw'[p]] /\ sw'[p] \in {"done", "look"}
           /\ ~InPlace(p) => sw'[p] = "done"
<1> DEFINE all == IF InPlace(p) THEN {n \in Staging : disk[n] # Nothing} ELSE {}
           news == IF InPlace(p) THEN Leftovers("new") ELSE {}
           olds == IF InPlace(p) THEN Leftovers("old") ELSE {}
<1>1. news \cup olds = all
  BY NamesApart DEF Leftovers, Staging
<1>2. news \subseteq Staging /\ olds \subseteq Staging
  BY <1>1
<1>3. IsFiniteSet(news) /\ IsFiniteSet(olds)
  BY NamesFinite, FS_Subset, FS_EmptySet DEF Leftovers
<1>4. PICK a \in SetToSeqs(news), b \in SetToSeqs(olds) :
        todo' = [todo EXCEPT ![p] = [rest |-> a \o b, all |-> news \cup olds]]
  BY DEF SweepRead
<1>5. a \in Seq(news) /\ Range(a) = news /\ b \in Seq(olds) /\ Range(b) = olds
  BY <1>3, OrdersOnto
<1>6. a \in Seq(Staging) /\ b \in Seq(Staging)
  BY <1>2, <1>5
<1>7. a \o b \in Seq(Staging) /\ Range(a \o b) = all
  BY <1>1, <1>5, <1>6, RangeJoined
<1>8. todo'[p] = [rest |-> a \o b, all |-> all] /\ todo' = [todo EXCEPT ![p] = todo'[p]]
  BY <1>1, <1>4 DEF DataOK
<1>9. sw' = [sw EXCEPT ![p] = IF all = {} THEN "done" ELSE "look"]
  BY <1>1 DEF SweepRead
<1>10. todo'[p] \in Leftover
  <2>1. all \subseteq Staging
    OBVIOUS
  <2>q. QED
    BY <1>7, <1>8, <2>1 DEF Leftover
<1>11. /\ sw' = [sw EXCEPT ![p] = sw'[p]] /\ sw'[p] \in {"done", "look"}
       /\ ~InPlace(p) => sw'[p] = "done"
  BY <1>9 DEF DataOK
<1>q. QED
  BY <1>7, <1>8, <1>9, <1>10, <1>11


-----------------------------------------------------------------------------
(* The invariant, a conjunct at a time.                                      *)

(* Every step leaves builds, or nothing, under the names.                    *)
LEMMA DiskStep == ASSUME Inv, Next PROVE DiskOK'
<1> USE BuildFacts DEF Inv, window
<1>1. ASSUME NEW p \in Launchers,
             Start(p) \/ Close(p) \/ HandedOff(p) \/ Restart(p)
      PROVE  DiskOK'
  BY <1>1 DEF Start, Close, HandedOff, Restart, DiskOK, Ends, Drawing
<1>2. ASSUME NEW p \in Launchers,
             Check(p) \/ Install(p) \/ Poll(p) \/ Connect(p) \/ SessionEnds(p)
      PROVE  DiskOK'
  BY <1>2 DEF Check, Install, Poll, Connect, SessionEnds, Drawing, Busy, DiskOK,
              MayInstall
<1>3. ASSUME NEW p \in Launchers,
             Checked(p) \/ Unanswered(p) \/ Fetched(p)
      PROVE  DiskOK'
  BY <1>3 DEF Checked, Unanswered, Fetched, At, Says, Goes, Fault, RenameFails,
              DiskOK
<1>4. ASSUME NEW p \in Launchers, Clear(p) PROVE DiskOK'
  <2>1. /\ New(p) \in Names /\ Old(p) \in Names /\ Slot \in Names
        /\ New(p) # Slot /\ Old(p) # Slot /\ New(p) # Old(p)
    BY NamesApart DEF Staging
  <2>2. \A d \in Deletions(disk, {New(p), Old(p)}) : d \in [Names -> Builds]
    <3>1. {New(p), Old(p)} \in SUBSET Names
      BY <2>1
    <3>q. QED
      BY <3>1, DeletedIs
  <2>q. QED
    BY <1>4, <2>2 DEF Clear, DiskOK
<1>5. ASSUME NEW p \in Launchers, Create(p) PROVE DiskOK'
  <2>1. Half(found[p].v) \in Builds
    BY DEF DataOK, Release
  <2>q. QED
    BY <1>5, <2>1 DEF Create, DiskOK
<1>6. ASSUME NEW p \in Launchers, Written(p) PROVE DiskOK'
  <2>1. Half(found[p].v) \in Builds /\ Whole(found[p].v) \in Builds
    BY DEF DataOK, Release
  <2>q. QED
    BY <1>6, <2>1 DEF Written, DiskOK
<1>7. ASSUME NEW p \in Launchers, WriteFails(p) PROVE DiskOK'
  <2>1. Removed(disk, {New(p)}) \in [Names -> Builds]
    BY DEF Removed, DiskOK
  <2>q. QED
    BY <1>7, <2>1 DEF WriteFails, DiskOK
<1>8. ASSUME NEW p \in Launchers, Exchange(p) PROVE DiskOK'
  <2>1. /\ New(p) \in Names /\ Old(p) \in Names /\ Slot \in Names
        /\ New(p) # Slot /\ Old(p) # Slot /\ New(p) # Old(p)
    BY NamesApart DEF Staging
  <2>q. QED
    BY <1>8, <2>1 DEF Exchange, DiskOK
<1>9. ASSUME NEW p \in Launchers, Aside(p) PROVE DiskOK'
  <2>1. /\ New(p) \in Names /\ Old(p) \in Names /\ Slot \in Names
        /\ New(p) # Slot /\ Old(p) # Slot /\ New(p) # Old(p)
    BY NamesApart DEF Staging
  <2>2. Renamed(Slot, Old(p)) \in [Names -> Builds]
    BY <2>1, RenamedIs
  <2>q. QED
    BY <1>9, <2>2 DEF Aside, DiskOK
<1>10. ASSUME NEW p \in Launchers, Place(p) PROVE DiskOK'
  <2>1. /\ New(p) \in Names /\ Old(p) \in Names /\ Slot \in Names
        /\ New(p) # Slot /\ Old(p) # Slot /\ New(p) # Old(p)
    BY NamesApart DEF Staging
  <2>2. Renamed(New(p), Slot) \in [Names -> Builds]
    BY <2>1, RenamedIs
  <2>q. QED
    BY <1>10, <2>2 DEF Place, DiskOK
<1>11. ASSUME NEW p \in Launchers, PutBack(p) PROVE DiskOK'
  <2>1. /\ New(p) \in Names /\ Old(p) \in Names /\ Slot \in Names
        /\ New(p) # Slot /\ Old(p) # Slot /\ New(p) # Old(p)
    BY NamesApart DEF Staging
  <2>2. Renamed(Old(p), Slot) \in [Names -> Builds]
    BY <2>1, RenamedIs
  <2>q. QED
    BY <1>11, <2>2 DEF PutBack, DiskOK
<1>12. ASSUME NEW p \in Launchers, Clean(p) PROVE DiskOK'
  <2>1. /\ New(p) \in Names /\ Old(p) \in Names /\ Slot \in Names
        /\ New(p) # Slot /\ Old(p) # Slot /\ New(p) # Old(p)
    BY NamesApart DEF Staging
  <2>2. \A d \in Deletions(disk, {New(p)}) : d \in [Names -> Builds]
    <3>1. {New(p)} \in SUBSET Names
      BY <2>1
    <3>q. QED
      BY <3>1, DeletedIs
  <2>q. QED
    BY <1>12, <2>2 DEF Clean, DiskOK
<1>13. ASSUME NEW p \in Launchers, Tidy(p) PROVE DiskOK'
  <2>1. /\ New(p) \in Names /\ Old(p) \in Names /\ Slot \in Names
        /\ New(p) # Slot /\ Old(p) # Slot /\ New(p) # Old(p)
    BY NamesApart DEF Staging
  <2>2. {New(p)} \in SUBSET Names /\ {Old(p)} \in SUBSET Names
    BY <2>1
  <2>3. /\ \A d \in Deletions(disk, {New(p)}) : d \in [Names -> Builds]
        /\ \A d \in Deletions(disk, {Old(p)}) : d \in [Names -> Builds]
    BY <2>2, DeletedIs
  <2>q. QED
    BY <1>13, <2>3 DEF Tidy, DiskOK
<1>14. ASSUME NEW p \in Launchers, SweepRead(p) PROVE DiskOK'
  BY <1>14 DEF SweepRead, DiskOK
<1>15. ASSUME NEW p \in Launchers, SweepMove(p) PROVE DiskOK'
  <2> DEFINE n == Head(todo[p].rest)
  <2>1. n \in Names /\ Slot \in Names /\ n # Slot
    <3>1. n \in Staging
      BY <1>15, RecordFacts DEF SweepMove, DataOK, PhaseOK, Phase
    <3>q. QED
      BY <3>1, NamesApart DEF Staging
  <2>2. Renamed(n, Slot) \in [Names -> Builds]
    BY <2>1, RenamedIs
  <2>q. QED
    BY <1>15, <2>2 DEF SweepMove, DiskOK
<1>16. ASSUME NEW p \in Launchers, SweepDelete(p) PROVE DiskOK'
  <2>1. todo[p].all \in SUBSET Names
    BY RecordFacts DEF DataOK, Staging
  <2>2. \A d \in Deletions(disk, todo[p].all) : d \in [Names -> Builds]
    BY <2>1, DeletedIs
  <2>q. QED
    BY <1>16, <2>2 DEF SweepDelete, DiskOK
<1>17. ASSUME NEW p \in Launchers, SweepLook(p) PROVE DiskOK'
  BY <1>17 DEF SweepLook, DiskOK
<1>q. QED
  BY <1>1, <1>2, <1>3, <1>4, <1>5, <1>6, <1>7, <1>8, <1>9, <1>10, <1>11, <1>12,
     <1>13, <1>14, <1>15, <1>16, <1>17
     DEF Next, User, Sweep, Thread, Swap

(* And what the launchers and threads hold keeps its type.                   *)
LEMMA DataStep == ASSUME Inv, Next PROVE DataOK'
<1> USE UpdaterAssumption, RecordFacts
    DEF Inv, DataOK, PhaseOK, Installing, Sweeping, window, thread,
        UpdaterAssumption, Up
<1>1. ASSUME NEW p \in Launchers, Start(p) PROVE DataOK'
  <2>1. PICK n \in Names : /\ from' = [from EXCEPT ![p] = n]
                            /\ running' = [running EXCEPT ![p] = disk[n].v]
    BY <1>1 DEF Start
  <2>2. disk[n].v \in Nat
    BY DEF DiskOK, Builds
  <2>3. together' \in BOOLEAN
    BY <1>1 DEF Start
  <2>q. QED
    BY <1>1, <2>1, <2>2, <2>3 DEF Start
<1>2. ASSUME NEW p \in Launchers, Close(p) PROVE DataOK'
  BY <1>2 DEF Close, Ends, Drawing
<1>3. ASSUME NEW p \in Launchers, HandedOff(p) PROVE DataOK'
  BY <1>3 DEF HandedOff, Ends, Drawing
<1>4. ASSUME NEW p \in Launchers, Restart(p) PROVE DataOK'
  BY <1>4 DEF Restart, Ends, Drawing
<1>5. ASSUME NEW p \in Launchers, Check(p) PROVE DataOK'
  BY <1>5 DEF Check, Drawing, Busy
<1>6. ASSUME NEW p \in Launchers, Install(p) PROVE DataOK'
  BY <1>6 DEF Install, Drawing, MayInstall
<1>7. ASSUME NEW p \in Launchers, Poll(p) PROVE DataOK'
  BY <1>7 DEF Poll, Drawing
<1>8. ASSUME NEW p \in Launchers, Connect(p) \/ SessionEnds(p) PROVE DataOK'
  BY <1>8 DEF Connect, SessionEnds, Drawing
<1>9. ASSUME NEW p \in Launchers, Checked(p) PROVE DataOK'
  <2>1. wk' = [wk EXCEPT ![p] = "none"]
    BY <1>9 DEF Checked, Says
  <2>2. \A listing \in Listings : \A r \in listing : OfferFor(r) \in Release
    BY DEF OfferFor, FlavourFor, Release
  <2>3. found' \in [Launchers -> Release]
    <3>1. PICK listing \in Listings, prereleases \in BOOLEAN :
            \/ UNCHANGED found
            \/ \E r \in Pick(listing, running[p], prereleases) :
                 found' = [found EXCEPT ![p] = OfferFor(r)]
      BY <1>9 DEF Checked
    <3>2. Pick(listing, running[p], prereleases) \subseteq listing
      BY DEF Pick, Candidates
    <3>3. \A r \in Pick(listing, running[p], prereleases) : OfferFor(r) \in Release
      BY <2>2, <3>2
    <3>q. QED
      BY ZenonT(60), <3>1, <3>3
  <2>q. QED
    BY <1>9, <2>1, <2>3 DEF Checked
<1>10. ASSUME NEW p \in Launchers, Unanswered(p) PROVE DataOK'
  <2>1. faults' \in 0..MaxFaults
    BY <1>10 DEF Unanswered, Fault
  <2>q. QED
    BY <1>10, <2>1 DEF Unanswered, Says
<1>11. ASSUME NEW p \in Launchers, Fetched(p) PROVE DataOK'
  <2>1. wk' \in [Launchers -> {"none", "check"} \cup Installing]
    BY <1>11 DEF Fetched, Says, Goes
  <2>q. QED
    BY <1>11, <2>1 DEF Fetched
<1>12. ASSUME NEW p \in Launchers, Clear(p) PROVE DataOK'
  BY <1>12 DEF Clear, At, Says, Goes, Fault, RenameFails
<1>13. ASSUME NEW p \in Launchers, Create(p) PROVE DataOK'
  BY <1>13 DEF Create, At, Says, Goes, Fault, RenameFails
<1>14. ASSUME NEW p \in Launchers, Written(p) PROVE DataOK'
  BY <1>14 DEF Written, At, Says, Goes, Fault, RenameFails
<1>15. ASSUME NEW p \in Launchers, WriteFails(p) PROVE DataOK'
  <2>1. faults' \in 0..MaxFaults
    BY <1>15 DEF WriteFails, Fault
  <2>q. QED
    BY <1>15, <2>1 DEF WriteFails, Says
<1>16. ASSUME NEW p \in Launchers, Exchange(p) PROVE DataOK'
  BY <1>16 DEF Exchange, At, Says, Goes, Fault, RenameFails
<1>17. ASSUME NEW p \in Launchers, Aside(p) PROVE DataOK'
  <2>1. faults' \in 0..MaxFaults
    BY <1>17 DEF Aside, RenameFails, Fault
  <2>2. wk' \in [Launchers -> {"none", "check"} \cup Installing]
    BY <1>17 DEF Aside, Says, Goes
  <2>q. QED
    BY <1>17, <2>1, <2>2 DEF Aside
<1>18. ASSUME NEW p \in Launchers, Place(p) PROVE DataOK'
  <2>1. faults' \in 0..MaxFaults
    BY <1>18 DEF Place, RenameFails, Fault
  <2>2. wk' \in [Launchers -> {"none", "check"} \cup Installing]
    BY <1>18 DEF Place, Says, Goes
  <2>q. QED
    BY <1>18, <2>1, <2>2 DEF Place
<1>19. ASSUME NEW p \in Launchers, PutBack(p) PROVE DataOK'
  <2>1. faults' \in 0..MaxFaults
    BY <1>19 DEF PutBack, RenameFails, Fault
  <2>q. QED
    BY <1>19, <2>1 DEF PutBack, Goes
<1>20. ASSUME NEW p \in Launchers, Clean(p) \/ Tidy(p) PROVE DataOK'
  BY <1>20 DEF Clean, Tidy, At, Says, Goes, Fault, RenameFails
<1>21. ASSUME NEW p \in Launchers, SweepRead(p) PROVE DataOK'
  <2>1. todo' \in [Launchers -> Leftover]
    <3>1. todo'[p] \in Leftover /\ todo' = [todo EXCEPT ![p] = todo'[p]]
      BY <1>21, SweepReads
    <3>q. QED
      BY <3>1
  <2>q. QED
    BY <1>21, <2>1 DEF SweepRead
<1>22. ASSUME NEW p \in Launchers, SweepLook(p) PROVE DataOK'
  <2>1. todo' \in [Launchers -> Leftover]
    <3>1. CASE UNCHANGED todo
      BY <3>1
    <3>2. CASE todo' = [todo EXCEPT ![p].rest = Tail(@)] /\ todo[p].rest # <<>>
      BY <3>2
    <3>q. QED
      BY <1>22, <3>1, <3>2 DEF SweepLook
  <2>2. sw' \in [Launchers -> {"read", "done"} \cup Sweeping]
    BY ZenonT(60), <1>22 DEF SweepLook
  <2>q. QED
    BY <1>22, <2>1, <2>2 DEF SweepLook
<1>23. ASSUME NEW p \in Launchers, SweepMove(p) PROVE DataOK'
  <2>1. todo' \in [Launchers -> Leftover]
    BY <1>23 DEF SweepMove, Phase
  <2>2. faults' \in 0..MaxFaults
    BY <1>23 DEF SweepMove, RenameFails, Fault
  <2>q. QED
    BY <1>23, <2>1, <2>2 DEF SweepMove
<1>24. ASSUME NEW p \in Launchers, SweepDelete(p) PROVE DataOK'
  <2>1. todo' \in [Launchers -> Leftover]
    BY <1>24 DEF SweepDelete
  <2>q. QED
    BY <1>24, <2>1 DEF SweepDelete
<1>q. QED
  BY <1>1, <1>2, <1>3, <1>4, <1>5, <1>6, <1>7, <1>8, <1>9, <1>10, <1>11, <1>12,
     <1>13, <1>14, <1>15, <1>16, <1>17, <1>18, <1>19, <1>20, <1>21, <1>22, <1>23,
     <1>24
     DEF Next, User, Sweep, Thread, Swap

(* So does what a thread and its window say to each other.                    *)
LEMMA TalkStep == ASSUME Inv, Next PROVE TalkOK'
<1> USE UpdaterAssumption, NamesApart
    DEF Inv, DataOK, TalkOK, States, Messages, window, thread,
        UpdaterAssumption, Up
<1>1. ASSUME NEW p \in Launchers,
             Start(p) \/ Close(p) \/ HandedOff(p) \/ Restart(p)
      PROVE  TalkOK'
  BY <1>1 DEF Start, Close, HandedOff, Restart, Ends, Drawing
<1>2. ASSUME NEW p \in Launchers, Poll(p) PROVE TalkOK'
  <2>1. CASE mail[p] = "uptodate" /\ st' = [st EXCEPT ![p] = "UpToDate"]
    BY <1>2, <2>1 DEF Poll
  <2>2. CASE mail[p] = "found" /\ st' = [st EXCEPT ![p] = "Found"]
    BY <1>2, <2>2 DEF Poll
  <2>3. CASE mail[p] = "installed" /\ st' = [st EXCEPT ![p] = "Installed"]
    BY <1>2, <2>3 DEF Poll
  <2>4. CASE st' = [st EXCEPT ![p] = "Failed"]
    BY <1>2, <2>4 DEF Poll
  <2>q. QED
    BY <1>2, <2>1, <2>2, <2>3, <2>4 DEF Poll
<1>3. ASSUME NEW p \in Launchers,
             Check(p) \/ Install(p) \/ Connect(p) \/ SessionEnds(p)
      PROVE  TalkOK'
  BY <1>3 DEF Check, Install, Connect, SessionEnds, Drawing, Busy, MayInstall
<1>4. ASSUME NEW p \in Launchers, Checked(p) PROVE TalkOK'
  BY <1>4 DEF Checked, At, Says, Goes, Fault, RenameFails
<1>5. ASSUME NEW p \in Launchers, Fetched(p) PROVE TalkOK'
  BY <1>5 DEF Fetched, At, Says, Goes
<1>6. ASSUME NEW p \in Launchers, Unanswered(p) PROVE TalkOK'
  BY <1>6 DEF Unanswered, At, Says, Goes, Fault, RenameFails
<1>7. ASSUME NEW p \in Launchers,
             Clear(p) \/ Create(p) \/ Written(p) \/ WriteFails(p) \/ Exchange(p)
      PROVE  TalkOK'
  BY <1>7 DEF Clear, Create, Written, WriteFails, Exchange, At, Says, Goes, Fault,
              RenameFails
<1>8. ASSUME NEW p \in Launchers, Aside(p) PROVE TalkOK'
  BY <1>8 DEF Aside, At, Says, Goes, Fault, RenameFails
<1>9. ASSUME NEW p \in Launchers, Place(p) PROVE TalkOK'
  BY <1>9 DEF Place, At, Says, Goes, Fault, RenameFails
<1>10. ASSUME NEW p \in Launchers, PutBack(p) \/ Clean(p) \/ Tidy(p) PROVE TalkOK'
  BY <1>10 DEF PutBack, Clean, Tidy, At, Says, Goes, Fault, RenameFails
<1>11. ASSUME NEW p \in Launchers,
              SweepRead(p) \/ SweepLook(p) \/ SweepMove(p) \/ SweepDelete(p)
       PROVE  TalkOK'
  BY <1>11 DEF SweepRead, SweepLook, SweepMove, SweepDelete, RenameFails, Fault
<1>q. QED
  BY <1>1, <1>2, <1>3, <1>4, <1>5, <1>6, <1>7, <1>8, <1>9, <1>10, <1>11
     DEF Next, User, Sweep, Thread, Swap

(* Who does what when.                                                       *)
LEMMA PhaseStep == ASSUME Inv, Next PROVE PhaseOK'
<1> USE UpdaterAssumption, RecordFacts
    DEF Inv, DataOK, TalkOK, PhaseOK, Phase, Busy, Installing, Sweeping,
        InPlace, IsDir, window, thread, UpdaterAssumption, Up
<1>1. ASSUME NEW p \in Launchers, Start(p) PROVE PhaseOK'
  BY <1>1 DEF Start
<1>2. ASSUME NEW p \in Launchers, Close(p) PROVE PhaseOK'
  BY <1>2 DEF Close, Ends, Drawing
<1>3. ASSUME NEW p \in Launchers, HandedOff(p) PROVE PhaseOK'
  BY <1>3 DEF HandedOff, Ends, Drawing
<1>4. ASSUME NEW p \in Launchers, Restart(p) PROVE PhaseOK'
  BY <1>4 DEF Restart, Ends, Drawing
<1>5. ASSUME NEW p \in Launchers, Check(p) PROVE PhaseOK'
  BY <1>5 DEF Check, Drawing
<1>6. ASSUME NEW p \in Launchers, Install(p) PROVE PhaseOK'
  BY <1>6 DEF Install, Drawing, MayInstall
<1>7. ASSUME NEW p \in Launchers, Poll(p) PROVE PhaseOK'
  BY <1>7 DEF Poll, Drawing
<1>8. ASSUME NEW p \in Launchers, Connect(p) \/ SessionEnds(p) PROVE PhaseOK'
  BY <1>8 DEF Connect, SessionEnds, Drawing
<1>9. ASSUME NEW p \in Launchers, Checked(p) PROVE PhaseOK'
  <2>1. PICK listing \in Listings, prereleases \in BOOLEAN :
          \/ UNCHANGED found
          \/ \E r \in Pick(listing, running[p], prereleases) :
               found' = [found EXCEPT ![p] = OfferFor(r)]
    BY <1>9 DEF Checked
  <2>2. ASSUME NEW r \in Pick(listing, running[p], prereleases)
        PROVE  OfferFor(r).v # 0
    <3>1. r.v \in Nat /\ r.v > running[p]
      BY DEF Pick, Candidates
    <3>q. QED
      BY <3>1 DEF OfferFor
  <2>3. \A q \in Launchers : ~found'[q].blocked => found'[q].v # 0
    <3>1. CASE UNCHANGED found
      BY <3>1
    <3>2. ASSUME NEW r \in Pick(listing, running[p], prereleases),
                 found' = [found EXCEPT ![p] = OfferFor(r)]
          PROVE  \A q \in Launchers : ~found'[q].blocked => found'[q].v # 0
      BY <2>2, <3>2
    <3>q. QED
      BY <2>1, <3>1, <3>2
  <2>q. QED
    BY <1>9, <2>3 DEF Checked, At, Says
<1>10. ASSUME NEW p \in Launchers, Unanswered(p) PROVE PhaseOK'
  BY <1>10 DEF Unanswered, At, Says, Goes, Fault, RenameFails
<1>11. ASSUME NEW p \in Launchers, Fetched(p) PROVE PhaseOK'
  BY <1>11 DEF Fetched, At, Says, Goes
<1>12. ASSUME NEW p \in Launchers, Clear(p) PROVE PhaseOK'
  BY <1>12 DEF Clear, At, Says, Goes, Fault, RenameFails
<1>13. ASSUME NEW p \in Launchers, Create(p) PROVE PhaseOK'
  BY <1>13 DEF Create, At, Says, Goes, Fault, RenameFails
<1>14. ASSUME NEW p \in Launchers, Written(p) PROVE PhaseOK'
  <2>1. /\ wk' = [wk EXCEPT ![p] = wk'[p]]
        /\ wk'[p] \in {"place", "aside", "swap", "clean"}
        /\ wk'[p] = "swap" => shape \notin {"binary", "exe"}
        /\ wk'[p] = "aside" => shape = "exe"
    BY <1>14 DEF Written, Goes
  <2>2. /\ wk[p] = "write"
        /\ UNCHANGED <<shape, proc, from, sw, todo, found, st, mail>>
    BY <1>14 DEF Written, At, Goes
  <2>3. shape \in {"binary", "bundle", "volume", "exe"}
    BY <2>2 DEF AllShapes
  <2>q. QED
    BY <2>1, <2>2, <2>3
<1>15. ASSUME NEW p \in Launchers, WriteFails(p) PROVE PhaseOK'
  BY <1>15 DEF WriteFails, At, Says, Goes, Fault, RenameFails
<1>16. ASSUME NEW p \in Launchers, Exchange(p) PROVE PhaseOK'
  BY <1>16 DEF Exchange, At, Says, Goes, Fault, RenameFails
<1>17. ASSUME NEW p \in Launchers, Aside(p) PROVE PhaseOK'
  BY <1>17 DEF Aside, At, Says, Goes, Fault, RenameFails
<1>18. ASSUME NEW p \in Launchers, Place(p) PROVE PhaseOK'
  BY <1>18 DEF Place, At, Says, Goes, Fault, RenameFails
<1>19. ASSUME NEW p \in Launchers, PutBack(p) PROVE PhaseOK'
  BY <1>19 DEF PutBack, At, Says, Goes, Fault, RenameFails
<1>20. ASSUME NEW p \in Launchers, Clean(p) PROVE PhaseOK'
  BY <1>20 DEF Clean, At, Says, Goes, Fault, RenameFails
<1>21. ASSUME NEW p \in Launchers, Tidy(p) PROVE PhaseOK'
  BY <1>21 DEF Tidy, At, Says, Goes, Fault, RenameFails
<1>22. ASSUME NEW p \in Launchers, SweepRead(p) PROVE PhaseOK'
  <2>1. /\ sw' = [sw EXCEPT ![p] = sw'[p]] /\ sw'[p] \in {"done", "look"}
        /\ ~InPlace(p) => sw'[p] = "done"
    BY <1>22, SweepReads
  <2>2. /\ sw[p] = "read" /\ proc[p] = "up"
        /\ UNCHANGED <<shape, proc, from, wk, found, st, mail>>
        /\ \A q \in Launchers : q # p => todo'[q] = todo[q]
    BY <1>22 DEF SweepRead
  <2>3. Phase(p)'
    BY <2>1, <2>2
  <2>4. ASSUME NEW q \in Launchers, q # p PROVE Phase(q)'
    BY <2>1, <2>2, <2>4
  <2>q. QED
    BY ONLY <2>3, <2>4 DEF PhaseOK
<1>23. ASSUME NEW p \in Launchers, SweepLook(p) PROVE PhaseOK'
  BY <1>23 DEF SweepLook
<1>24. ASSUME NEW p \in Launchers, SweepMove(p) PROVE PhaseOK'
  BY <1>24 DEF SweepMove, RenameFails, Fault
<1>25. ASSUME NEW p \in Launchers, SweepDelete(p) PROVE PhaseOK'
  BY <1>25 DEF SweepDelete
<1>q. QED
  BY <1>1, <1>2, <1>3, <1>4, <1>5, <1>6, <1>7, <1>8, <1>9, <1>10, <1>11, <1>12,
     <1>13, <1>14, <1>15, <1>16, <1>17, <1>18, <1>19, <1>20, <1>21, <1>22, <1>23,
     <1>24, <1>25
     DEF Next, User, Sweep, Thread, Swap

(* Two launchers up at once is remembered.                                   *)
LEMMA AloneStep == ASSUME Inv, Next PROVE AloneOK'
<1> USE UpdaterAssumption
    DEF Inv, DataOK, AloneOK, window, thread, UpdaterAssumption, Up
<1>1. ASSUME NEW p \in Launchers,
             Start(p) \/ Close(p) \/ HandedOff(p) \/ Restart(p)
      PROVE  AloneOK'
  BY ZenonT(60), <1>1 DEF Start, Close, HandedOff, Restart, Ends, Drawing
<1>2. ASSUME NEW p \in Launchers,
             Check(p) \/ Install(p) \/ Poll(p) \/ Connect(p) \/ SessionEnds(p)
      PROVE  AloneOK'
  BY <1>2 DEF Check, Install, Poll, Connect, SessionEnds, Drawing, Busy, MayInstall
<1>3. ASSUME NEW p \in Launchers,
             Checked(p) \/ Unanswered(p) \/ Fetched(p)
      PROVE  AloneOK'
  BY <1>3 DEF Checked, Unanswered, Fetched, At, Says, Goes, Fault, RenameFails
<1>4. ASSUME NEW p \in Launchers,
             Clear(p) \/ Create(p) \/ Written(p) \/ WriteFails(p) \/ Exchange(p)
      PROVE  AloneOK'
  BY <1>4 DEF Clear, Create, Written, WriteFails, Exchange, At, Says, Goes, Fault,
              RenameFails
<1>5. ASSUME NEW p \in Launchers,
             Aside(p) \/ Place(p) \/ PutBack(p) \/ Clean(p) \/ Tidy(p)
      PROVE  AloneOK'
  BY <1>5 DEF Aside, Place, PutBack, Clean, Tidy, At, Says, Goes, Fault, RenameFails
<1>6. ASSUME NEW p \in Launchers,
             SweepRead(p) \/ SweepLook(p) \/ SweepMove(p) \/ SweepDelete(p)
      PROVE  AloneOK'
  BY <1>6 DEF SweepRead, SweepLook, SweepMove, SweepDelete, RenameFails, Fault
<1>q. QED
  BY <1>1, <1>2, <1>3, <1>4, <1>5, <1>6
     DEF Next, User, Sweep, Thread, Swap

(* What is left of a number after one more or none is taken from it.        *)
LEMMA Minus ==
  ASSUME NEW m \in Nat, NEW f \in 0..m, NEW g \in 0..m, g = f \/ (f > 0 /\ g = f - 1)
  PROVE  /\ m - f \in 0..m /\ m - g \in 0..m
         /\ m - g = m - f \/ m - g = m - f + 1
OBVIOUS

(* While launchers follow one another, faults are spent one by one.          *)
LEMMA Spending ==
  ASSUME DataOK, DataOK', Next
  PROVE  /\ together => together'
         /\ Spent \in 0..MaxFaults /\ Spent' \in 0..MaxFaults
         /\ Spent' = Spent \/ Spent' = Spent + 1
         /\ Tight' => Tight
<1>1. together => together'
  BY ZenonT(60) DEF Next, User, Sweep, Thread, Swap, Start, Close, HandedOff, Restart, Ends, Check,
         Install, Poll, Connect, SessionEnds, Checked, Unanswered, Fetched, Clear, Create,
         Written, WriteFails, Exchange, Aside, Place, PutBack, Clean, Tidy, SweepRead,
         SweepLook, SweepMove, SweepDelete, window
<1>2. faults' = faults \/ (faults > 0 /\ faults' = faults - 1)
  BY DEF Next, User, Sweep, Thread, Swap, Start, Close, HandedOff, Restart, Ends, Check,
         Install, Poll, Connect, SessionEnds, Checked, Unanswered, Fetched, Clear, Create,
         Written, WriteFails, Exchange, Aside, Place, PutBack, Clean, Tidy, SweepRead,
         SweepLook, SweepMove, SweepDelete, RenameFails, Fault
<1>3. faults \in 0..MaxFaults /\ faults' \in 0..MaxFaults
  BY DEF DataOK
<1>4. /\ Spent \in 0..MaxFaults /\ Spent' \in 0..MaxFaults
      /\ Spent' = Spent \/ Spent' = Spent + 1
  <2>1. MaxFaults \in Nat
    BY UpdaterAssumption DEF UpdaterAssumption
  <2>q. QED
    BY <1>2, <1>3, <2>1, Minus DEF Spent
<1>q. QED
  BY <1>1, <1>4 DEF Tight

Fine(p) == Building(p) /\ (Tight => Kept /\ Swapping(p) /\ Swept(p))
Steady == DiskOK /\ DataOK /\ TalkOK /\ PhaseOK /\ AloneOK

(* While a launcher is up, and alone, the others are not.                    *)
LEMMA OthersFine ==
  ASSUME Steady', ~together', NEW p \in Launchers, Up(p)', NEW q \in Launchers, q # p
  PROVE  Building(q)' /\ Swapping(q)' /\ Swept(q)'
<1>1. ~Up(q)'
  BY DEF Steady, AloneOK
<1>2. wk'[q] = "none" /\ sw'[q] = "read"
  BY <1>1 DEF Steady, PhaseOK, Phase
<1>q. QED
  BY <1>1, <1>2 DEF Building, Swapping, Swept, Between, Sweeping

(* What is said of a launcher that is not up.                               *)
LEMMA RestFine ==
  ASSUME PhaseOK', NEW p \in Launchers, ~Up(p)'
  PROVE  Building(p)' /\ Swapping(p)' /\ Swept(p)'
<1>1. wk'[p] = "none" /\ sw'[p] = "read"
  BY DEF PhaseOK, Phase
<1>q. QED
  BY <1>1 DEF Building, Swapping, Swept, Between, Sweeping

(* What a launcher that installs can rely on.                               *)
LEMMA Installs ==
  ASSUME Inv, ~together, NEW p \in Launchers, wk[p] \in Installing
  PROVE  /\ Up(p) /\ sw[p] = "done" /\ from[p] = Slot /\ InPlace(p)
         /\ found[p].v \in Nat /\ found[p].v # 0
         /\ Building(p)
         /\ wk[p] \in {"swap", "aside", "putback"} => shape # "binary"
         /\ Tight => /\ Kept
                     /\ Empty <=> Between(p)
                     /\ Between(p) => WholeAt(Old(p))
                     /\ wk[p] = "putback" => Spent = 1
                     /\ \A n \in Names : disk[n] # Nothing /\ ~WholeAt(n) =>
                          n = New(p) /\ wk[p] \in {"fetch", "clear", "create", "write"}
<1>1. Phase(p) /\ wk[p] # "none"
  BY DEF Inv, PhaseOK, Installing
<1>2. sw[p] = "done" /\ from[p] = Slot /\ ~found[p].blocked /\ found[p].v # 0
  BY <1>1 DEF Phase
<1>3. Up(p) /\ InPlace(p)
  BY <1>1, <1>2 DEF Phase, InPlace
<1>4. found[p].v \in Nat
  BY DEF Inv, DataOK, Release
<1>5. wk[p] \in {"swap", "aside", "putback"} => shape # "binary"
  BY <1>1 DEF Phase, IsDir
<1>6. Building(p)
  BY DEF Inv, BuildingOK
<1>7. Tight => Kept /\ Swapping(p)
  BY DEF Inv, KeptOK, SwappingOK
<1>8. wk[p] \notin {"none", "check"}
  BY DEF Installing
<1>q. QED
  BY <1>2, <1>3, <1>4, <1>5, <1>6, <1>7, <1>8 DEF Swapping


(* The threads that do not touch the disk.                                  *)
LEMMA QuietFine ==
  ASSUME Inv, Steady', Next, ~together', NEW p \in Launchers,
         Check(p) \/ Install(p) \/ Poll(p) \/ Checked(p) \/ Unanswered(p) \/ Fetched(p)
  PROVE  Fine(p)'
<1>1. /\ Up(p) /\ UNCHANGED <<shape, disk, proc, from, sw, todo>>
      /\ wk[p] \in {"none", "check", "fetch"}
      /\ wk'[p] \in {"none", "check", "fetch", "clear", "create"}
      \/ /\ Up(p) /\ UNCHANGED <<shape, disk, proc, from, sw, todo, wk, found>>
  <2>1. wk[p] \in {"none", "check"} \cup Installing
    BY DEF Inv, DataOK
  <2>2. wk \in [Launchers -> {"none", "check"} \cup Installing]
    BY DEF Inv, DataOK
  <2>0. wk[p] # "none" => st[p] \in {"Checking", "Downloading"} /\ mail[p] = "none"
    BY DEF Inv, PhaseOK, Phase, Busy
  <2>3. CASE Check(p)
    BY <2>2, <2>3 DEF Up, Check, Drawing, window
  <2>4. CASE Install(p)
    BY <2>0, <2>2, <2>4 DEF Up, Install, Drawing, MayInstall, window
  <2>5. CASE Poll(p)
    BY <2>5 DEF Up, Poll, Drawing, window
  <2>6. CASE Checked(p)
    BY <2>2, <2>6 DEF Up, Checked, At, Says, window
  <2>7. CASE Unanswered(p)
    BY <2>2, <2>7 DEF Up, Unanswered, Says, window
  <2>8. CASE Fetched(p)
    BY <2>2, <2>8 DEF Up, Fetched, At, Says, Goes
  <2>q. QED
    BY <2>3, <2>4, <2>5, <2>6, <2>7, <2>8
<1>2. /\ ~together /\ (Tight' => Tight)
      /\ Spent \in 0..MaxFaults /\ (Spent' = Spent \/ Spent' = Spent + 1)
  BY Spending DEF Inv, Steady
<1>3. Building(p)'
  BY <1>1, <1>2 DEF Inv, BuildingOK, Building
<1>4. ASSUME Tight' PROVE Kept'
  BY <1>1, <1>2, <1>4 DEF Inv, KeptOK, Kept, Empty, WholeAt
<1>5. ASSUME Tight' PROVE Swapping(p)'
  <2>1. Swapping(p) /\ Tight
    BY <1>2, <1>5 DEF Inv, SwappingOK
  <2>2. Empty' = Empty /\ (\A n : WholeAt(n)' = WholeAt(n)) /\ disk' = disk
    BY <1>1 DEF Empty, WholeAt
  <2>3. CASE wk' = wk
    <3>1. wk[p] = "putback" => Spent = 1 /\ Spent' = 1
      <4>1. wk[p] = "putback" => Spent = 1
        BY <2>1 DEF Swapping
      <4>2. Spent' <= 1
        BY <1>5 DEF Tight
      <4>q. QED
        BY <1>2, <4>1, <4>2
    <3>q. QED
      BY <1>1, <2>1, <2>2, <2>3, <3>1 DEF Swapping, Between, Up, InPlace, IsDir
  <2>4. CASE /\ wk[p] \in {"none", "check", "fetch"}
             /\ wk'[p] \in {"none", "check", "fetch", "clear", "create"}
    <3>1. Between(p)' = FALSE /\ Between(p) = FALSE
      BY <2>4 DEF Between
    <3>2. wk'[p] # "putback"
      BY <2>4
    <3>q. QED
      BY <1>1, <2>1, <2>2, <2>4, <3>1, <3>2 DEF Swapping, Up, InPlace, IsDir
  <2>q. QED
    BY <1>1, <2>3, <2>4
<1>6. ASSUME Tight' PROVE Swept(p)'
  BY <1>1, <1>2, <1>6 DEF Inv, SweptOK, Swept, Empty, WholeAt
<1>q. QED
  BY <1>3, <1>4, <1>5, <1>6 DEF Fine

(* The names an installing launcher works on.                               *)
LEMMA Apart ==
  ASSUME NEW p \in Launchers
  PROVE  /\ New(p) \in Names /\ Old(p) \in Names /\ Slot \in Names
         /\ New(p) # Slot /\ Old(p) # Slot /\ New(p) # Old(p)
         /\ Slot \notin Staging /\ Names = Staging \cup {Slot}
         /\ New(p) \in Staging /\ Old(p) \in Staging
BY NamesApart DEF Staging

(* A thread at work on the disk, with nothing in the application's place     *)
(* when, and only when, it is between the two renames.                      *)
LEMMA Settled ==
  ASSUME DiskOK', ~Empty', WholeAt(Slot)', NEW p \in Launchers, ~Between(p)', sw'[p] = "done",
         \A n \in Names : disk'[n] # Nothing /\ ~WholeAt(n)' =>
           n = New(p) /\ wk'[p] \in {"none", "check", "fetch", "clear", "create", "write"}
  PROVE  Kept' /\ Swapping(p)' /\ Swept(p)'
BY DEF Kept, Swapping, Swept, Between, Sweeping

(* The staging names emptied, before the new build or after it.             *)
LEMMA DeletesFine ==
  ASSUME Inv, Steady', Next, ~together', NEW p \in Launchers, Clear(p) \/ Clean(p) \/ Tidy(p)
  PROVE  Fine(p)'
<1> USE Apart
<1>1. ~together /\ (Tight' => Tight)
  BY Spending DEF Inv, Steady
<1>2. /\ wk[p] \in {"clear", "clean", "exchanged", "tidy"} /\ sw' = sw
      /\ wk'[p] \in {"create", "none"} /\ UNCHANGED <<shape, from, found>>
  BY DEF Clear, Clean, Tidy, At, Goes, Says, Inv, DataOK, window
<1>3. wk[p] \in Installing
  BY <1>2 DEF Installing
<1>4. PICK S \in SUBSET {New(p), Old(p)} : disk' \in Deletions(disk, S)
  BY DEF Clear, Clean, Tidy
<1>5. /\ \A n \in Names \ S : disk'[n] = disk[n]
      /\ \A n \in S : disk'[n] = Nothing \/ (disk'[n] = disk[n] /\ disk[n].whole)
  <2>1. S \in SUBSET Names
    OBVIOUS
  <2>q. QED
    BY <1>4, <2>1, DeletedIs DEF Inv
<1>6. Building(p)'
  BY <1>2 DEF Building
<1>7. ASSUME Tight' PROVE Kept' /\ Swapping(p)' /\ Swept(p)'
  <2>1. ~Empty /\ Kept /\ (\A n \in Names : disk[n] # Nothing /\ ~WholeAt(n) => n = New(p))
    BY <1>1, <1>2, <1>3, <1>7, Installs DEF Between
  <2>2. ~Empty' /\ WholeAt(Slot)'
    BY <1>5, <2>1 DEF Empty, Kept, WholeAt
  <2>3. \A n \in Names : disk'[n] # Nothing /\ ~WholeAt(n)' => n = New(p)
    BY <1>5, <2>1 DEF WholeAt
  <2>4. sw'[p] = "done"
    BY <1>1, <1>2, <1>3, Installs
  <2>5. ~Between(p)'
    BY <1>2 DEF Between
  <2>q. QED
    BY <1>2, <2>2, <2>3, <2>4, <2>5, Settled DEF Steady
<1>q. QED
  BY <1>6, <1>7 DEF Fine

(* The new build written, or not.                                           *)
LEMMA WritesFine ==
  ASSUME Inv, Steady', Next, ~together', NEW p \in Launchers,
         Create(p) \/ Written(p) \/ WriteFails(p)
  PROVE  Fine(p)'
<1> USE Apart
<1>1. ~together /\ (Tight' => Tight)
  BY Spending DEF Inv, Steady
<1>2. wk[p] \in {"create", "write"} /\ sw' = sw /\ UNCHANGED <<shape, from, found>>
  BY DEF Create, Written, WriteFails, At, Goes, Says, window
<1>3. wk[p] \in Installing
  BY <1>2 DEF Installing
<1>4. sw'[p] = "done" /\ Building(p) /\ found[p].v \in Nat /\ found[p].v # 0
  BY <1>1, <1>2, <1>3, Installs
<1>5. /\ disk \in [Names -> Builds] /\ wk \in [Launchers -> {"none", "check"} \cup Installing]
  BY DEF Inv, DiskOK, DataOK
<1>6. ASSUME Tight
      PROVE  /\ ~Empty /\ WholeAt(Slot)
             /\ \A n \in Names : disk[n] # Nothing /\ ~WholeAt(n) => n = New(p)
  BY <1>1, <1>2, <1>3, <1>6, Installs DEF Between, Kept
<1>7. CASE Create(p)
  <2>1. disk' = [disk EXCEPT ![New(p)] = Half(found[p].v)] /\ wk'[p] = "write"
    BY <1>5, <1>7 DEF Create, Goes
  <2>2. Building(p)'
    BY <1>2, <1>5, <2>1 DEF Building
  <2>3. ASSUME Tight' PROVE Kept' /\ Swapping(p)' /\ Swept(p)'
    <3>1. /\ ~Empty' /\ WholeAt(Slot)'
          /\ \A n \in Names : disk'[n] # Nothing /\ ~WholeAt(n)' => n = New(p)
      BY <1>1, <1>5, <1>6, <2>1, <2>3 DEF Empty, WholeAt
    <3>2. ~Between(p)'
      BY <2>1 DEF Between
    <3>q. QED
      BY <1>4, <2>1, <3>1, <3>2, Settled DEF Steady
  <2>q. QED
    BY <2>2, <2>3 DEF Fine
<1>8. CASE WriteFails(p)
  <2>1. /\ \A n \in Names \ {New(p)} : disk'[n] = disk[n]
        /\ disk'[New(p)] = disk[New(p)] \/ disk'[New(p)] = Nothing
        /\ wk'[p] = "none"
    BY <1>5, <1>8 DEF WriteFails, Says, Removed
  <2>2. Building(p)'
    BY <2>1 DEF Building
  <2>3. ASSUME Tight' PROVE Kept' /\ Swapping(p)' /\ Swept(p)'
    <3>1. /\ ~Empty' /\ WholeAt(Slot)'
          /\ \A n \in Names : disk'[n] # Nothing /\ ~WholeAt(n)' => n = New(p)
      BY <1>1, <1>5, <1>6, <2>1, <2>3 DEF Empty, WholeAt
    <3>2. ~Between(p)'
      BY <2>1 DEF Between
    <3>q. QED
      BY <1>4, <2>1, <3>1, <3>2, Settled DEF Steady
  <2>q. QED
    BY <2>2, <2>3 DEF Fine
<1>9. CASE Written(p)
  <2>0. disk[New(p)] # Nothing
    <3>1. wk[p] = "write"
      BY <1>9 DEF Written, At
    <3>q. QED
      BY <1>4, <3>1, BuildFacts DEF Building
  <2>1. /\ disk' = [disk EXCEPT ![New(p)] = Whole(found[p].v)]
        /\ wk'[p] \in {"place", "aside", "swap"} /\ (wk'[p] = "place" => shape = "binary")
    BY <1>5, <1>9, <2>0 DEF Written, Goes
  <2>2. Building(p)'
    BY <1>2, <1>5, <2>1 DEF Building
  <2>3. ASSUME Tight' PROVE Kept' /\ Swapping(p)' /\ Swept(p)'
    <3>0. Whole(found[p].v).whole
      BY <1>4, BuildFacts
    <3>1. ~Empty' /\ WholeAt(Slot)' /\ (\A n \in Names : disk'[n] # Nothing => WholeAt(n)')
      BY <1>1, <1>5, <1>6, <2>1, <2>3, <3>0 DEF Empty, WholeAt
    <3>2. ~Between(p)'
      BY <1>2, <2>1 DEF Between
    <3>q. QED
      BY <1>4, <2>1, <3>1, <3>2, Settled DEF Steady
  <2>q. QED
    BY <2>2, <2>3 DEF Fine
<1>q. QED
  BY <1>7, <1>8, <1>9

(* The exchange in one step.                                                *)
LEMMA ExchangeFine ==
  ASSUME Inv, Steady', Next, ~together', NEW p \in Launchers, Exchange(p)
  PROVE  Fine(p)'
<1> USE Apart
<1>1. ~together /\ (Tight' => Tight)
  BY Spending DEF Inv, Steady
<1>2. wk[p] = "swap" /\ sw' = sw /\ UNCHANGED <<shape, from, found>>
  BY DEF Exchange, At, Goes, window
<1>3. wk[p] \in Installing
  BY <1>2 DEF Installing
<1>4. /\ sw'[p] = "done" /\ found[p].v \in Nat
      /\ disk[New(p)] = Whole(found[p].v) /\ Whole(found[p].v).whole
  BY <1>1, <1>2, <1>3, Installs, BuildFacts DEF Building
<1>5. /\ disk \in [Names -> Builds] /\ wk \in [Launchers -> {"none", "check"} \cup Installing]
  BY DEF Inv, DiskOK, DataOK
<1>6. ASSUME Tight
      PROVE  /\ ~Empty /\ WholeAt(Slot)
             /\ \A n \in Names : disk[n] # Nothing => WholeAt(n)
  BY <1>1, <1>2, <1>3, <1>6, Installs DEF Between, Kept
<1>7. CASE UNCHANGED disk /\ Goes(p, "aside")
  <2>1. wk'[p] = "aside"
    BY <1>5, <1>7 DEF Goes
  <2>2. Building(p)'
    BY <1>2, <1>4, <1>7, <2>1 DEF Building
  <2>3. ASSUME Tight' PROVE Kept' /\ Swapping(p)' /\ Swept(p)'
    <3>1. ~Empty' /\ WholeAt(Slot)' /\ (\A n \in Names : disk'[n] # Nothing => WholeAt(n)')
      BY <1>1, <1>6, <1>7, <2>3 DEF Empty, WholeAt
    <3>2. ~Between(p)'
      BY <2>1 DEF Between
    <3>q. QED
      BY <1>4, <2>1, <3>1, <3>2, Settled DEF Steady
  <2>q. QED
    BY <2>2, <2>3 DEF Fine
<1>8. CASE /\ disk' = [disk EXCEPT ![Slot] = disk[New(p)], ![New(p)] = disk[Slot]]
           /\ Goes(p, "exchanged")
  <2>1. wk'[p] = "exchanged"
    BY <1>5, <1>8 DEF Goes
  <2>2. Building(p)'
    BY <1>2, <1>4, <1>5, <1>8, <2>1 DEF Building
  <2>3. ASSUME Tight' PROVE Kept' /\ Swapping(p)' /\ Swept(p)'
    <3>1. /\ disk'[Slot] = disk[New(p)] /\ disk'[New(p)] = disk[Slot]
          /\ \A n \in Names \ {Slot, New(p)} : disk'[n] = disk[n]
      BY <1>5, <1>8
    <3>2. Whole(found[p].v) # Nothing
      BY <1>4, BuildFacts
    <3>3. ~Empty' /\ WholeAt(Slot)' /\ (\A n \in Names : disk'[n] # Nothing => WholeAt(n)')
      BY <1>1, <1>4, <1>6, <2>3, <3>1, <3>2 DEF Empty, WholeAt
    <3>4. ~Between(p)'
      BY <2>1 DEF Between
    <3>q. QED
      BY <1>4, <2>1, <3>3, <3>4, Settled DEF Steady
  <2>q. QED
    BY <2>2, <2>3 DEF Fine
<1>q. QED
  BY <1>7, <1>8 DEF Exchange

(* A build that is there can be moved to where nothing is, or onto a file.  *)
LEMMA RenameFailing ==
  ASSUME DataOK, DataOK', NEW a \in Names, NEW b \in Names, RenameFails(a, b),
         disk[a] # Nothing, disk[b] = Nothing
  PROVE  Spent' = Spent + 1
<1>1. RenameCan(a, b) /\ ~MayBeLocked(b)
  BY BuildFacts DEF RenameCan, MayBeLocked
<1>2. faults > 0 /\ faults' = faults - 1
  BY <1>1 DEF RenameFails, Fault
<1>3. MaxFaults \in Nat /\ faults \in 0..MaxFaults /\ faults' \in 0..MaxFaults
  BY UpdaterAssumption DEF UpdaterAssumption, DataOK
<1>4. ASSUME NEW m \in Nat, NEW f \in 0..m, f > 0 PROVE m - (f - 1) = m - f + 1
  BY <1>4
<1>q. QED
  BY <1>2, <1>3, <1>4 DEF Spent

(* The running build out of the way.                                        *)
LEMMA AsideFine ==
  ASSUME Inv, Steady', Next, ~together', NEW p \in Launchers, Aside(p)
  PROVE  Fine(p)'
<1> USE Apart
<1>1. ~together /\ (Tight' => Tight)
  BY Spending DEF Inv, Steady
<1>2. wk[p] = "aside" /\ sw' = sw /\ UNCHANGED <<shape, from, found>>
  BY DEF Aside, At, window
<1>3. wk[p] \in Installing
  BY <1>2 DEF Installing
<1>4. /\ sw'[p] = "done" /\ found[p].v \in Nat /\ shape # "binary"
      /\ disk[New(p)] = Whole(found[p].v) /\ Whole(found[p].v).whole
  BY <1>1, <1>2, <1>3, Installs, BuildFacts DEF Building
<1>5. /\ disk \in [Names -> Builds] /\ wk \in [Launchers -> {"none", "check"} \cup Installing]
  BY DEF Inv, DiskOK, DataOK
<1>6. ASSUME Tight
      PROVE  /\ ~Empty /\ WholeAt(Slot)
             /\ \A n \in Names : disk[n] # Nothing => WholeAt(n)
  BY <1>1, <1>2, <1>3, <1>6, Installs DEF Between, Kept
<1>7. CASE UNCHANGED disk /\ (Goes(p, "clean") \/ Says(p, "failed"))
  <2>1. wk'[p] \in {"clean", "none"}
    BY <1>5, <1>7 DEF Goes, Says
  <2>2. Building(p)'
    BY <2>1 DEF Building
  <2>3. ASSUME Tight' PROVE Kept' /\ Swapping(p)' /\ Swept(p)'
    <3>1. ~Empty' /\ WholeAt(Slot)' /\ (\A n \in Names : disk'[n] # Nothing => WholeAt(n)')
      BY <1>1, <1>6, <1>7, <2>3 DEF Empty, WholeAt
    <3>2. ~Between(p)'
      BY <2>1 DEF Between
    <3>q. QED
      BY <1>4, <2>1, <3>1, <3>2, Settled DEF Steady
  <2>q. QED
    BY <2>2, <2>3 DEF Fine
<1>8. CASE disk' = Renamed(Slot, Old(p)) /\ Goes(p, "place")
  <2>1. wk'[p] = "place"
    BY <1>5, <1>8 DEF Goes
  <2>2. /\ disk'[Old(p)] = disk[Slot] /\ disk'[Slot] = Nothing
        /\ \A n \in Names \ {Slot, Old(p)} : disk'[n] = disk[n]
    BY <1>8, RenamedIs DEF Inv
  <2>3. Building(p)'
    BY <1>2, <1>4, <2>1, <2>2 DEF Building
  <2>4. ASSUME Tight' PROVE Kept' /\ Swapping(p)' /\ Swept(p)'
    <3>1. /\ Empty' /\ WholeAt(Old(p))' /\ WholeAt(New(p))'
          /\ \A n \in Names : disk'[n] # Nothing => WholeAt(n)'
      BY <1>1, <1>4, <1>6, <2>2, <2>4 DEF Empty, WholeAt
    <3>2. Between(p)'
      BY <1>2, <1>4, <2>1 DEF Between
    <3>3. Kept'
      BY <3>1 DEF Kept
    <3>4. Swapping(p)'
      BY <2>1, <3>1, <3>2 DEF Swapping
    <3>5. Swept(p)'
      BY <1>4 DEF Swept, Sweeping
    <3>q. QED
      BY <3>3, <3>4, <3>5
  <2>q. QED
    BY <2>3, <2>4 DEF Fine
<1>q. QED
  BY <1>7, <1>8 DEF Aside

(* The new build into the application's place.                              *)
LEMMA PlaceFine ==
  ASSUME Inv, Steady', Next, ~together', NEW p \in Launchers, Place(p)
  PROVE  Fine(p)'
<1> USE Apart
<1>1. ~together /\ (Tight' => Tight)
  BY Spending DEF Inv, Steady
<1>2. wk[p] = "place" /\ sw' = sw /\ UNCHANGED <<shape, from, found>>
  BY DEF Place, At, window
<1>3. wk[p] \in Installing
  BY <1>2 DEF Installing
<1>4. /\ sw'[p] = "done" /\ found[p].v \in Nat
      /\ disk[New(p)] = Whole(found[p].v) /\ Whole(found[p].v).whole /\ Whole(found[p].v) # Nothing
  BY <1>1, <1>2, <1>3, Installs, BuildFacts DEF Building
<1>5. /\ disk \in [Names -> Builds] /\ wk \in [Launchers -> {"none", "check"} \cup Installing]
  BY DEF Inv, DiskOK, DataOK
<1>6. ASSUME Tight
      PROVE  /\ Empty <=> shape # "binary"
             /\ Kept /\ (shape # "binary" => WholeAt(Old(p)))
             /\ \A n \in Names : disk[n] # Nothing => WholeAt(n)
  BY <1>1, <1>2, <1>3, <1>6, Installs DEF Between
<1>7. CASE disk' = Renamed(New(p), Slot) /\ (Goes(p, "tidy") \/ Says(p, "installed"))
  <2>1. wk'[p] \in {"tidy", "none"}
    BY <1>5, <1>7 DEF Goes, Says
  <2>2. /\ disk'[Slot] = disk[New(p)] /\ disk'[New(p)] = Nothing
        /\ \A n \in Names \ {Slot, New(p)} : disk'[n] = disk[n]
    BY <1>7, RenamedIs DEF Inv
  <2>3. Building(p)'
    BY <1>2, <1>4, <2>1, <2>2 DEF Building
  <2>4. ASSUME Tight' PROVE Kept' /\ Swapping(p)' /\ Swept(p)'
    <3>1. ~Empty' /\ WholeAt(Slot)' /\ (\A n \in Names : disk'[n] # Nothing => WholeAt(n)')
      BY <1>1, <1>4, <1>6, <2>2, <2>4 DEF Empty, WholeAt
    <3>2. ~Between(p)'
      BY <2>1 DEF Between
    <3>q. QED
      BY <1>4, <2>1, <3>1, <3>2, Settled DEF Steady
  <2>q. QED
    BY <2>3, <2>4 DEF Fine
<1>8. CASE /\ RenameFails(New(p), Slot) /\ UNCHANGED disk
           /\ Goes(p, IF shape = "binary" THEN "clean" ELSE "putback")
  <2>1. wk'[p] = IF shape = "binary" THEN "clean" ELSE "putback"
    BY <1>5, <1>8 DEF Goes
  <2>2. Building(p)'
    BY <2>1 DEF Building
  <2>3. ASSUME Tight', shape = "binary" PROVE Kept' /\ Swapping(p)' /\ Swept(p)'
    <3>1. ~Empty' /\ WholeAt(Slot)' /\ (\A n \in Names : disk'[n] # Nothing => WholeAt(n)')
      BY <1>1, <1>6, <1>8, <2>3 DEF Empty, WholeAt, Kept
    <3>2. ~Between(p)'
      BY <2>1, <2>3 DEF Between
    <3>q. QED
      BY <1>4, <3>1, <3>2, Settled DEF Steady
  <2>4. ASSUME Tight', shape # "binary" PROVE Kept' /\ Swapping(p)' /\ Swept(p)'
    <3>1. Empty /\ disk[New(p)] # Nothing
      BY <1>1, <1>4, <1>6, <2>4
    <3>2. Spent' = Spent + 1
      BY <1>8, <3>1, RenameFailing DEF Empty, Inv, Steady
    <3>3. Spent' = 1 /\ Spent' # 0
      <4>1. Spent' <= 1
        BY <2>4 DEF Tight
      <4>2. Spent \in 0..MaxFaults
        BY Spending DEF Inv, Steady
      <4>q. QED
        BY <3>2, <4>1, <4>2
    <3>4. /\ Empty' /\ WholeAt(Old(p))'
          /\ \A n \in Names : disk'[n] # Nothing => WholeAt(n)'
      BY <1>1, <1>6, <1>8, <2>4, <3>1 DEF Empty, WholeAt
    <3>5. Between(p)'
      BY <2>1, <2>4 DEF Between
    <3>6. Kept'
      BY <3>3, <3>4 DEF Kept
    <3>7. Swapping(p)'
      BY <3>3, <3>4, <3>5 DEF Swapping
    <3>8. Swept(p)'
      BY <1>4 DEF Swept, Sweeping
    <3>q. QED
      BY <3>6, <3>7, <3>8
  <2>q. QED
    BY <2>2, <2>3, <2>4 DEF Fine
<1>q. QED
  BY <1>7, <1>8 DEF Place

(* The old build back.                                                      *)
LEMMA PutBackFine ==
  ASSUME Inv, Steady', Next, ~together', NEW p \in Launchers, PutBack(p)
  PROVE  Fine(p)'
<1> USE Apart
<1>1. ~together /\ (Tight' => Tight)
  BY Spending DEF Inv, Steady
<1>2. wk[p] = "putback" /\ sw' = sw /\ UNCHANGED <<shape, from, found>>
  BY DEF PutBack, At, Goes, window
<1>3. wk[p] \in Installing
  BY <1>2 DEF Installing
<1>4. sw'[p] = "done"
  BY <1>1, <1>2, <1>3, Installs
<1>5. wk'[p] = "clean"
  BY DEF PutBack, Goes, Inv, DataOK
<1>6. ASSUME Tight
      PROVE  /\ Empty /\ WholeAt(Old(p)) /\ Spent = 1
             /\ \A n \in Names : disk[n] # Nothing => WholeAt(n)
  BY <1>1, <1>2, <1>3, <1>6, Installs DEF Between
<1>7. Building(p)'
  BY <1>5 DEF Building
<1>8. ASSUME Tight' PROVE Kept' /\ Swapping(p)' /\ Swept(p)'
  <2>1. disk[Old(p)] # Nothing
    BY <1>1, <1>6, <1>8, BuildFacts DEF WholeAt
  <2>2. ~RenameFails(Old(p), Slot)
    <3>1. ASSUME RenameFails(Old(p), Slot) PROVE Spent' = 2
      BY <1>1, <1>6, <1>8, <2>1, <3>1, RenameFailing DEF Empty, Inv, Steady
    <3>2. Spent' <= 1
      BY <1>8 DEF Tight
    <3>q. QED
      BY <3>1, <3>2
  <2>3. disk' = Renamed(Old(p), Slot)
    BY <2>2 DEF PutBack
  <2>4. /\ disk'[Slot] = disk[Old(p)] /\ disk'[Old(p)] = Nothing
        /\ \A n \in Names \ {Slot, Old(p)} : disk'[n] = disk[n]
    BY <2>3, RenamedIs DEF Inv
  <2>5. ~Empty' /\ WholeAt(Slot)' /\ (\A n \in Names : disk'[n] # Nothing => WholeAt(n)')
    BY <1>1, <1>6, <1>8, <2>1, <2>4 DEF Empty, WholeAt
  <2>6. ~Between(p)'
    BY <1>5 DEF Between
  <2>q. QED
    BY <1>4, <2>5, <2>6, Settled DEF Steady
<1>q. QED
  BY <1>7, <1>8 DEF Fine

-----------------------------------------------------------------------------
(* The sweep.                                                                *)

(* What is left of a sweep's list once its first name has been dealt with.   *)
LEMMA TailRange ==
  ASSUME NEW T, NEW s \in Seq(T), s # <<>>
  PROVE  /\ Head(s) \in Range(s) /\ Range(Tail(s)) \subseteq Range(s)
         /\ (\E a, b \in Range(s) : a # b) => Tail(s) # <<>>
<1>1. /\ Len(s) \in Nat /\ Len(s) > 0 /\ DOMAIN s = 1..Len(s) /\ Head(s) = s[1]
      /\ Tail(s) \in Seq(T) /\ Len(Tail(s)) = Len(s) - 1
      /\ \A i \in 1..(Len(s) - 1) : Tail(s)[i] = s[i + 1]
  OBVIOUS
<1>2. Head(s) \in Range(s)
  BY <1>1 DEF Range
<1>3. Range(Tail(s)) \subseteq Range(s)
  BY <1>1 DEF Range
<1>4. ASSUME Tail(s) = <<>>, NEW a \in Range(s), NEW b \in Range(s) PROVE a = b
  <2>1. Len(s) = 1
    <3>1. Len(<<>>) = 0
      OBVIOUS
    <3>2. Len(Tail(s)) = 0
      BY <1>4, <3>1
    <3>3. Len(s) \in Nat /\ Len(s) - 1 = 0
      BY <1>1, <3>2
    <3>q. QED
      BY <3>3
  <2>q. QED
    BY <1>1, <2>1 DEF Range
<1>q. QED
  BY <1>2, <1>3, <1>4

(* A launcher that sweeps installs nothing.                                  *)
LEMMA Sweeps ==
  ASSUME Inv, ~together, NEW p \in Launchers, sw[p] # "done", Up(p)
  PROVE  /\ wk[p] = "none" /\ ~Between(p) /\ (~InPlace(p) => sw[p] = "read")
         /\ todo[p] \in Leftover
         /\ Tight => /\ Kept /\ Swept(p)
                     /\ from[p] = Slot => ~Empty
<1>1. Phase(p) /\ sw[p] \in {"read", "done"} \cup Sweeping
  BY DEF Inv, PhaseOK, DataOK
<1>2. wk[p] = "none" /\ (~InPlace(p) => sw[p] = "read")
  BY <1>1 DEF Phase
<1>3. ~Between(p)
  BY <1>2 DEF Between
<1>4. Tight => Kept /\ Swept(p) /\ Swapping(p)
  BY DEF Inv, KeptOK, SweptOK, SwappingOK
<1>5. todo[p] \in Leftover
  BY DEF Inv, DataOK
<1>q. QED
  BY <1>2, <1>3, <1>4, <1>5 DEF Swapping

(* The directory read.                                                      *)
LEMMA SweepReadFine ==
  ASSUME Inv, Steady', Next, ~together', NEW p \in Launchers, SweepRead(p)
  PROVE  Fine(p)'
<1> USE Apart
<1> DEFINE all == IF InPlace(p) THEN {n \in Staging : disk[n] # Nothing} ELSE {}
<1>1. ~together /\ (Tight' => Tight)
  BY Spending DEF Inv, Steady
<1>2. Up(p) /\ sw[p] = "read" /\ UNCHANGED <<shape, disk, proc, from, wk, faults>>
  BY DEF SweepRead, Up, window, thread
<1>3. /\ todo'[p].all = all /\ todo'[p] \in Leftover /\ Range(todo'[p].rest) = all
      /\ sw'[p] = IF all = {} THEN "done" ELSE "look"
  <2>1. sw \in [Launchers -> {"read", "done"} \cup Sweeping]
    BY DEF Inv, DataOK
  <2>q. QED
    BY <2>1, SweepReads DEF Inv
<1>4. wk'[p] = "none" /\ ~Between(p)' /\ (Tight => Kept /\ (from[p] = Slot => ~Empty))
  BY <1>1, <1>2, Sweeps DEF Between
<1>5. Building(p)'
  BY <1>4 DEF Building
<1>6. /\ UNCHANGED <<Empty, Kept, Spent>> /\ (\A n : WholeAt(n)' = WholeAt(n))
      /\ InPlace(p)' = InPlace(p)
  BY <1>2 DEF Empty, Kept, Spent, WholeAt, InPlace, IsDir
<1>7. ASSUME Tight' PROVE Kept' /\ Swapping(p)' /\ Swept(p)'
  <2>1. Kept' /\ Kept /\ (from[p] = Slot => ~Empty)
    BY <1>1, <1>4, <1>6, <1>7
  <2>2. CASE sw'[p] = "done" /\ InPlace(p)
    <3>1. \A n \in Staging : disk[n] = Nothing
      BY <1>3, <2>2
    <3>2. ~Empty
      BY <2>1, <3>1, BuildFacts DEF Kept, WholeAt
    <3>3. ~Empty' /\ WholeAt(Slot)' /\ (\A n \in Names : disk'[n] # Nothing => WholeAt(n)')
      BY <1>2, <1>6, <2>1, <3>1, <3>2 DEF Kept
    <3>q. QED
      BY <1>4, <2>2, <3>3, Settled DEF Steady
  <2>3. CASE sw'[p] = "look" \/ ~InPlace(p)
    <3>1. sw'[p] \in {"look", "done"}
      BY <1>3
    <3>2. Swapping(p)'
      BY <1>2, <1>4, <1>6, <2>1, <2>3, <3>1 DEF Swapping
    <3>3. CASE sw'[p] = "look"
      <4>1. InPlace(p) /\ all # {} /\ all = {n \in Staging : disk[n] # Nothing}
        BY <1>3, <3>3
      <4>2. \A n \in Staging : disk'[n] # Nothing => n \in todo'[p].all
        BY <1>2, <1>3, <4>1
      <4>3. ASSUME Empty'
            PROVE  /\ \A n \in Range(todo'[p].rest) : WholeAt(n)'
                   /\ todo'[p].rest # <<>>
                   /\ Spent' = 0 => \E a, b \in Range(todo'[p].rest) : a # b
        <5>1. Range(todo'[p].rest) = {n \in Staging : disk[n] # Nothing}
          BY <1>3, <4>1
        <5>2. \A n \in Staging : disk[n] # Nothing <=> WholeAt(n)
          BY <1>6, <2>1, <4>3, BuildFacts DEF Kept, WholeAt
        <5>3. todo'[p].rest # <<>>
          BY <1>3, <4>1 DEF Range
        <5>4. Spent = 0 => \E a, b \in Staging : a # b /\ WholeAt(a) /\ WholeAt(b)
          BY <1>6, <2>1, <4>3 DEF Kept
        <5>q. QED
          BY <1>6, <5>1, <5>2, <5>3, <5>4
      <4>q. QED
        BY <2>1, <3>2, <3>3, <4>2, <4>3 DEF Swept
    <3>4. CASE sw'[p] = "done"
      BY <2>1, <3>2, <3>4 DEF Swept, Sweeping
    <3>q. QED
      BY <3>1, <3>3, <3>4
  <2>q. QED
    BY <1>3, <2>2, <2>3
<1>q. QED
  BY <1>5, <1>7 DEF Fine

(* One after the other looked at.                                           *)
LEMMA SweepLookFine ==
  ASSUME Inv, Steady', Next, ~together', NEW p \in Launchers, SweepLook(p)
  PROVE  Fine(p)'
<1> USE Apart
<1>1. ~together /\ (Tight' => Tight)
  BY Spending DEF Inv, Steady
<1>2. Up(p) /\ sw[p] = "look" /\ UNCHANGED <<shape, disk, proc, from, wk, faults>>
  BY DEF SweepLook, Up, window, thread
<1>3. /\ wk'[p] = "none" /\ ~Between(p)' /\ ~Between(p) /\ InPlace(p)
      /\ Tight => Kept /\ (from[p] = Slot => ~Empty) /\ Swept(p)
  BY <1>1, <1>2, Sweeps DEF Between
<1>4. Building(p)'
  BY <1>3 DEF Building
<1>5. /\ UNCHANGED <<Empty, Kept, Spent>> /\ (\A n : WholeAt(n)' = WholeAt(n))
      /\ InPlace(p)' = InPlace(p)
  BY <1>2 DEF Empty, Kept, Spent, WholeAt, InPlace, IsDir
<1>6. /\ sw \in [Launchers -> {"read", "done"} \cup Sweeping]
      /\ todo \in [Launchers -> Leftover] /\ todo[p].all = todo[p].all
  BY DEF Inv, DataOK
<1>7. ASSUME Tight' PROVE Kept' /\ Swapping(p)' /\ Swept(p)'
  <2>1. Kept' /\ (from[p] = Slot => ~Empty) /\ Swept(p)
    BY <1>1, <1>3, <1>5, <1>7
  <2>2. sw'[p] \in {"look", "move", "delete"}
    BY <1>2, <1>6 DEF SweepLook
  <2>3. Swapping(p)'
    BY <1>2, <1>3, <1>5, <2>1, <2>2 DEF Swapping
  <2>4. \A n \in Staging : disk'[n] # Nothing => n \in todo[p].all
    BY <1>2, <2>1 DEF Swept, Sweeping
  <2>5. CASE UNCHANGED todo /\ sw'[p] = "delete" /\ todo[p].rest = <<>>
    <3>1. ~Empty'
      BY <1>2, <1>5, <2>1, <2>5 DEF Swept
    <3>q. QED
      BY <2>1, <2>3, <2>4, <2>5, <3>1 DEF Swept
  <2>6. CASE UNCHANGED todo /\ sw'[p] = "move" /\ Empty
    BY <1>2, <1>5, <2>1, <2>3, <2>4, <2>6 DEF Swept
  <2>7. CASE sw' = sw /\ ~Empty /\ todo' = [todo EXCEPT ![p].rest = Tail(@)]
    <3>1. sw'[p] = "look" /\ ~Empty' /\ todo'[p].all = todo[p].all
      BY <1>2, <1>5, <1>6, <2>7, RecordFacts DEF Leftover
    <3>q. QED
      BY <2>1, <2>3, <2>4, <3>1 DEF Swept
  <2>8. \/ UNCHANGED todo /\ sw'[p] = "delete" /\ todo[p].rest = <<>>
        \/ UNCHANGED todo /\ sw'[p] = "move" /\ Empty
        \/ sw' = sw /\ ~Empty /\ todo' = [todo EXCEPT ![p].rest = Tail(@)]
    BY <1>6 DEF SweepLook, Empty
  <2>q. QED
    BY <2>5, <2>6, <2>7, <2>8
<1>q. QED
  BY <1>4, <1>7 DEF Fine

(* One of them put in the application's place.                              *)
LEMMA SweepMoveFine ==
  ASSUME Inv, Steady', Next, ~together', NEW p \in Launchers, SweepMove(p)
  PROVE  Fine(p)'
<1> USE Apart
<1> DEFINE n == Head(todo[p].rest)
<1>1. /\ ~together /\ (Tight' => Tight)
      /\ Spent \in 0..MaxFaults /\ Spent' \in 0..MaxFaults
  BY Spending DEF Inv, Steady
<1>2. Up(p) /\ sw[p] = "move" /\ UNCHANGED <<shape, proc, from, wk>>
  BY DEF SweepMove, Up, window, thread
<1>3. /\ wk'[p] = "none" /\ ~Between(p)' /\ ~Between(p) /\ todo[p] \in Leftover
      /\ Tight => Kept /\ (from[p] = Slot => ~Empty) /\ Swept(p)
  BY <1>1, <1>2, Sweeps DEF Between
<1>4. Building(p)'
  BY <1>3 DEF Building
<1>5. todo[p].rest \in Seq(Staging) /\ todo[p].rest # <<>>
  BY <1>2, <1>3, RecordFacts DEF Inv, PhaseOK, Phase
<1>6. sw'[p] = "look" /\ todo'[p].all = todo[p].all /\ todo'[p].rest = Tail(todo[p].rest)
  <2>1. /\ sw \in [Launchers -> {"read", "done"} \cup Sweeping]
        /\ todo \in [Launchers -> Leftover]
    BY DEF Inv, DataOK
  <2>q. QED
    BY <2>1 DEF SweepMove, Leftover
<1>7. n \in Names /\ n # Slot /\ n \in Staging
  BY <1>5
<1>8. ASSUME Tight' PROVE Kept' /\ Swapping(p)' /\ Swept(p)'
  <2>1. Empty /\ Kept /\ Swept(p) /\ from[p] # Slot
    BY <1>1, <1>2, <1>3, <1>8 DEF Swept
  <2>2. /\ \A m \in Range(todo[p].rest) : WholeAt(m)
        /\ Spent = 0 => \E a, b \in Range(todo[p].rest) : a # b
        /\ \A m \in Staging : disk[m] # Nothing => m \in todo[p].all
    BY <1>2, <2>1 DEF Swept, Sweeping
  <2>3. WholeAt(n) /\ disk[n] # Nothing
    BY <1>5, <2>2, TailRange, BuildFacts DEF WholeAt
  <2>4. Swapping(p)'
    BY <1>2, <1>3, <1>6, <2>1 DEF Swapping
  <2>5. CASE disk' = Renamed(n, Slot)
    <3>1. /\ disk'[Slot] = disk[n] /\ disk'[n] = Nothing
          /\ \A m \in Names \ {Slot, n} : disk'[m] = disk[m]
      BY <1>7, <2>5, RenamedIs DEF Inv
    <3>2. ~Empty' /\ WholeAt(Slot)'
      BY <2>3, <3>1 DEF Empty, WholeAt
    <3>3. \A m \in Staging : disk'[m] # Nothing => m \in todo'[p].all
      BY <1>6, <2>2, <3>1
    <3>q. QED
      BY <1>6, <2>4, <3>2, <3>3 DEF Kept, Swept
  <2>6. CASE UNCHANGED disk /\ RenameFails(n, Slot)
    <3>1. Spent' = Spent + 1
      BY <1>7, <2>1, <2>3, <2>6, RenameFailing DEF Empty, Inv, Steady
    <3>2. Spent = 0 /\ Spent' # 0
      <4>1. Spent' <= 1
        BY <1>8 DEF Tight
      <4>q. QED
        BY <1>1, <3>1, <4>1
    <3>3. Kept'
      BY <2>1, <2>6, <3>2 DEF Kept, Empty, WholeAt
    <3>4. /\ todo'[p].rest # <<>>
          /\ \A m \in Range(todo'[p].rest) : WholeAt(m)'
      BY <1>5, <1>6, <2>2, <2>6, <3>2, TailRange DEF WholeAt
    <3>5. \A m \in Staging : disk'[m] # Nothing => m \in todo'[p].all
      BY <1>6, <2>2, <2>6
    <3>q. QED
      BY <1>6, <2>4, <3>2, <3>3, <3>4, <3>5 DEF Swept
  <2>q. QED
    BY <2>5, <2>6 DEF SweepMove
<1>q. QED
  BY <1>4, <1>8 DEF Fine

(* And the others removed.                                                  *)
LEMMA SweepDeleteFine ==
  ASSUME Inv, Steady', Next, ~together', NEW p \in Launchers, SweepDelete(p)
  PROVE  Fine(p)'
<1> USE Apart
<1>1. ~together /\ (Tight' => Tight)
  BY Spending DEF Inv, Steady
<1>2. Up(p) /\ sw[p] = "delete" /\ UNCHANGED <<shape, proc, from, wk>>
  BY DEF SweepDelete, Up, window, thread
<1>3. /\ wk'[p] = "none" /\ ~Between(p)' /\ todo[p].all \in SUBSET Staging
      /\ Tight => Kept /\ Swept(p)
  BY <1>1, <1>2, Sweeps, RecordFacts DEF Between
<1>4. Building(p)'
  BY <1>3 DEF Building
<1>5. sw'[p] = "done"
  BY DEF SweepDelete, Inv, DataOK
<1>6. /\ \A n \in Names \ todo[p].all : disk'[n] = disk[n]
      /\ \A n \in todo[p].all : disk'[n] = Nothing \/ (disk'[n] = disk[n] /\ disk[n].whole)
  <2>1. disk' \in Deletions(disk, todo[p].all) /\ todo[p].all \in SUBSET Names
    BY <1>3 DEF SweepDelete
  <2>q. QED
    BY <2>1, DeletedIs DEF Inv
<1>7. ASSUME Tight' PROVE Kept' /\ Swapping(p)' /\ Swept(p)'
  <2>1. /\ ~Empty /\ WholeAt(Slot)
        /\ \A n \in Staging : disk[n] # Nothing => n \in todo[p].all
    BY <1>1, <1>2, <1>3, <1>7 DEF Swept, Kept, Sweeping
  <2>2. ~Empty' /\ WholeAt(Slot)'
    BY <1>3, <1>6, <2>1 DEF Empty, WholeAt
  <2>3. \A n \in Names : disk'[n] # Nothing => WholeAt(n)'
    BY <1>3, <1>6, <2>1, <2>2 DEF WholeAt
  <2>q. QED
    BY <1>3, <1>5, <2>2, <2>3, Settled DEF Steady
<1>q. QED
  BY <1>4, <1>7 DEF Fine

-----------------------------------------------------------------------------
(* The launchers that come and go.                                           *)

(* A launcher started, after the others have gone.                          *)
LEMMA StartFine ==
  ASSUME Inv, Steady', Next, ~together', NEW p \in Launchers, Start(p)
  PROVE  Fine(p)'
<1>1. ~together /\ (Tight' => Tight)
  BY Spending DEF Inv, Steady
<1>2. PICK n \in Names : /\ disk[n].whole /\ from' = [from EXCEPT ![p] = n]
                        /\ UNCHANGED <<disk, sw, wk, faults>> /\ ~Up(p)
  BY DEF Start, Up, thread
<1>3. wk'[p] = "none" /\ sw'[p] = "read" /\ from'[p] = n
  BY <1>2 DEF Inv, PhaseOK, Phase, DataOK
<1>4. Building(p)' /\ Swept(p)' /\ ~Between(p)'
  BY <1>3 DEF Building, Swept, Sweeping, Between
<1>5. ASSUME Tight' PROVE Kept' /\ Swapping(p)'
  <2>1. Kept'
    BY <1>1, <1>2, <1>5 DEF Inv, KeptOK, Kept, Empty, WholeAt, Spent
  <2>2. n = Slot => ~Empty'
    BY <1>2, BuildFacts DEF Empty
  <2>q. QED
    BY <1>3, <1>4, <2>1, <2>2 DEF Swapping
<1>q. QED
  BY <1>4, <1>5 DEF Fine

(* A session more or less, or a launcher that has gone, changes no build.    *)
LEMMA RestsFine ==
  ASSUME Inv, Steady', Next, ~together', NEW p \in Launchers,
         Close(p) \/ HandedOff(p) \/ Restart(p) \/ Connect(p) \/ SessionEnds(p)
  PROVE  /\ Tight' => Kept'
         /\ \A q \in Launchers : Building(q)' /\ (Tight' => Swapping(q)' /\ Swept(q)')
<1>1. ~together /\ (Tight' => Tight)
  BY Spending DEF Inv, Steady
<1>2. /\ UNCHANGED <<shape, disk, from, faults>>
      /\ \/ UNCHANGED <<proc, sw, todo, wk, found>>
         \/ /\ ~Up(p)'
            /\ \A q \in Launchers : q # p => UNCHANGED <<proc[q], sw[q], todo[q], wk[q], found[q]>>
  BY DEF Close, HandedOff, Restart, Ends, Connect, SessionEnds, Inv, DataOK, Up, thread
<1>3. UNCHANGED <<Empty, Kept, Spent>> /\ (\A n : WholeAt(n)' = WholeAt(n))
  BY <1>2 DEF Empty, Kept, Spent, WholeAt
<1>4. Tight' => Kept'
  BY <1>1, <1>3 DEF Inv, KeptOK
<1>5. ASSUME NEW q \in Launchers PROVE Building(q)' /\ (Tight' => Swapping(q)' /\ Swept(q)')
  <2>1. CASE UNCHANGED <<proc[q], sw[q], todo[q], wk[q], found[q]>>
    <3>1. Building(q) /\ (Tight' => Swapping(q) /\ Swept(q))
      BY <1>1 DEF Inv, BuildingOK, SwappingOK, SweptOK
    <3>2. Building(q)'
      BY <1>2, <2>1, <3>1 DEF Building
    <3>3. Tight' => Swapping(q)'
      BY <1>2, <1>3, <2>1, <3>1 DEF Swapping, Between, Up, InPlace, IsDir
    <3>4. Tight' => Swept(q)'
      BY <1>2, <1>3, <2>1, <3>1 DEF Swept
    <3>q. QED
      BY <3>1, <3>2, <3>3, <3>4
  <2>2. CASE ~Up(q)'
    BY <2>2, RestFine DEF Steady
  <2>q. QED
    BY <1>2, <2>1, <2>2
<1>q. QED
  BY <1>4, <1>5

(* So every step of launchers that follow one another.                      *)
LEMMA StepFine ==
  ASSUME Inv, Steady', Next, ~together'
  PROVE  /\ Tight' => Kept'
         /\ \A q \in Launchers : Building(q)' /\ (Tight' => Swapping(q)' /\ Swept(q)')
<1>1. PICK p \in Launchers : User(p) \/ Poll(p) \/ HandedOff(p) \/ Sweep(p) \/ Thread(p)
  BY DEF Next
<1>2. CASE Close(p) \/ HandedOff(p) \/ Restart(p) \/ Connect(p) \/ SessionEnds(p)
  BY <1>2, RestsFine
<1>3. ASSUME Fine(p)', Up(p)'
      PROVE  /\ Tight' => Kept'
             /\ \A q \in Launchers : Building(q)' /\ (Tight' => Swapping(q)' /\ Swept(q)')
  BY <1>3, OthersFine DEF Fine
<1>4. CASE Start(p)
  BY <1>3, <1>4, StartFine DEF Start, Up, Inv, DataOK
<1>5. CASE Check(p) \/ Install(p) \/ Poll(p) \/ Checked(p) \/ Unanswered(p) \/ Fetched(p)
  <2>1. Up(p)'
    BY <1>5 DEF Check, Install, Poll, Checked, Unanswered, Fetched, Drawing, At, Up, window
  <2>q. QED
    BY <1>3, <1>5, <2>1, QuietFine
<1>6. CASE Sweep(p)
  <2>1. Up(p)'
    BY <1>6 DEF Sweep, SweepRead, SweepLook, SweepMove, SweepDelete, Up, window
  <2>2. Fine(p)'
    BY <1>6, SweepReadFine, SweepLookFine, SweepMoveFine, SweepDeleteFine DEF Sweep
  <2>q. QED
    BY <1>3, <2>1, <2>2
<1>7. CASE Swap(p)
  <2>1. Up(p)'
    BY <1>7 DEF Swap, Clear, Create, Written, WriteFails, Exchange, Aside, Place, PutBack,
                Clean, Tidy, At, Up, window
  <2>2. Fine(p)'
    BY <1>7, DeletesFine, WritesFine, ExchangeFine, AsideFine, PlaceFine, PutBackFine DEF Swap
  <2>q. QED
    BY <1>3, <2>1, <2>2
<1>q. QED
  BY <1>1, <1>2, <1>4, <1>5, <1>6, <1>7 DEF User, Thread

-----------------------------------------------------------------------------
(* The theorems.                                                             *)

(* At first there is the one build, and no launcher.                         *)
LEMMA Initially == Init => Inv
<1> SUFFICES ASSUME Init PROVE Inv
  OBVIOUS
<1> USE DEF Init
<1>1. DiskOK
  BY BuildFacts DEF DiskOK
<1>2. DataOK
  <2>1. MaxFaults \in Nat /\ Shapes \subseteq AllShapes
    BY UpdaterAssumption DEF UpdaterAssumption
  <2>2. faults \in 0..MaxFaults /\ shape \in AllShapes
    BY <2>1
  <2>q. QED
    BY <2>2, RecordFacts, NamesApart DEF DataOK, Sweeping
<1>3. TalkOK
  BY DEF TalkOK, States, Messages
<1>4. PhaseOK
  BY RecordFacts DEF PhaseOK, Phase, Up, Installing, Sweeping
<1>5. AloneOK
  BY DEF AloneOK, Up
<1>6. ~Empty /\ WholeAt(Slot)
  BY BuildFacts, NamesApart DEF Empty, WholeAt
<1>7. KeptOK
  BY <1>6 DEF KeptOK, Kept
<1>8. \A p \in Launchers : Building(p) /\ Swapping(p) /\ Swept(p)
  BY DEF Building, Swapping, Swept, Sweeping, Between, Up
<1>q. QED
  BY <1>1, <1>2, <1>3, <1>4, <1>5, <1>7, <1>8 DEF Inv, BuildingOK, SwappingOK, SweptOK

(* The invariant is kept,                                                   *)
LEMMA Stays == Inv /\ [Next]_vars => Inv'
<1>1. ASSUME Inv, Next PROVE Inv'
  <2>1. Steady'
    BY <1>1, DiskStep, DataStep, TalkStep, PhaseStep, AloneStep DEF Steady
  <2>2. ASSUME ~together'
        PROVE  /\ Tight' => Kept'
               /\ \A q \in Launchers : Building(q)' /\ (Tight' => Swapping(q)' /\ Swept(q)')
    BY <1>1, <2>1, <2>2, StepFine
  <2>3. Tight' => ~together'
    BY DEF Tight
  <2>q. QED
    BY <2>1, <2>2, <2>3 DEF Inv, Steady, BuildingOK, KeptOK, SwappingOK, SweptOK
<1>2. ASSUME Inv, UNCHANGED vars PROVE Inv'
  BY <1>2 DEF vars, thread, Inv, DiskOK, DataOK, TalkOK, PhaseOK, Phase, AloneOK,
              BuildingOK, Building, KeptOK, Kept, SwappingOK, Swapping, SweptOK, Swept,
              Tight, Spent, Empty, WholeAt, Between, Up, Busy, InPlace, IsDir
<1>q. QED
  BY <1>1, <1>2

(* and holds throughout.                                                    *)
LEMMA Always == Spec => []Inv
BY Initially, Stays, PTL DEF Spec

(* Whatever happens to launchers that follow one another, and though one     *)
(* file operation or request fails: no half a build is ever at the           *)
(* application's name, and a whole one always in its directory.              *)
THEOREM NeverWithoutABuild == Spec => []AloneKeepsABuild
<1>1. Inv => AloneKeepsABuild
  <2> SUFFICES ASSUME Inv, Tight PROVE NothingHalf /\ \E n \in Names : disk[n].whole
    BY DEF AloneKeepsABuild, Tight
  <2>1. Kept
    BY DEF Inv, KeptOK
  <2>2. Slot \in Names /\ Staging \subseteq Names
    BY NamesApart DEF Staging
  <2>q. QED
    BY <2>1, <2>2 DEF Kept, NothingHalf, Empty, WholeAt
<1>q. QED
  BY <1>1, Always, PTL

(* And when nothing failed, a launcher that is past its sweep has the        *)
(* application in its place.                                                 *)
THEOREM SweptInPlace == Spec => []SweptIsInPlace
<1>1. Inv => SweptIsInPlace
  <2> SUFFICES ASSUME Inv, ~together, Spent = 0, NEW p \in Launchers, Drawing(p), InPlace(p),
                      wk[p] # "place"
               PROVE  disk[Slot].whole
    BY DEF SweptIsInPlace
  <2>1. Tight /\ Up(p) /\ sw[p] = "done"
    BY DEF Tight, Drawing, Up
  <2>2. Kept /\ Swapping(p)
    BY <2>1 DEF Inv, KeptOK, SwappingOK
  <2>3. ~Between(p)
    BY <2>2 DEF Between, Swapping
  <2>q. QED
    BY <2>1, <2>2, <2>3 DEF Swapping, Kept, WholeAt
<1>q. QED
  BY <1>1, Always, PTL

(* Who says that an update is in, or that it failed.                         *)
LEMMA Speakers ==
  ASSUME Inv, Next, NEW p \in Launchers, mail'[p] # mail[p], mail'[p] \in {"installed", "failed"}
  PROVE  /\ Up(p)' /\ from'[p] = from[p] /\ wk'[p] = "none"
         /\ mail'[p] = "installed" => Place(p) \/ Tidy(p)
<1>1. mail \in [Launchers -> Messages] /\ wk \in [Launchers -> {"none", "check"} \cup Installing]
  BY DEF Inv, TalkOK, DataOK
<1>2. PICK q \in Launchers : User(q) \/ Poll(q) \/ HandedOff(q) \/ Sweep(q) \/ Thread(q)
  BY DEF Next
<1>3. /\ ~(Start(q) \/ Connect(q) \/ SessionEnds(q) \/ Sweep(q))
      /\ ~(Check(q) \/ Install(q) \/ Poll(q))
      /\ ~(Close(q) \/ HandedOff(q) \/ Restart(q))
  <2>1. ~(Start(q) \/ Connect(q) \/ SessionEnds(q) \/ Sweep(q))
    BY DEF Start, Connect, SessionEnds, Sweep, SweepRead, SweepLook, SweepMove, SweepDelete, thread
  <2>2. ~(Check(q) \/ Install(q) \/ Poll(q))
    BY <1>1 DEF Check, Install, Poll
  <2>3. ~(Close(q) \/ HandedOff(q) \/ Restart(q))
    BY <1>1 DEF Close, HandedOff, Restart, Ends
  <2>q. QED
    BY <2>1, <2>2, <2>3
<1>4. Thread(q)
  BY <1>2, <1>3 DEF User
<1>5. PICK what \in Messages : Says(q, what) /\ Up(q) /\ UNCHANGED <<proc, from>>
                              /\ (what = "installed" => Place(q) \/ Tidy(q))
  <2>1. CASE Checked(q)
    BY <2>1 DEF Checked, At, Up, window, Messages
  <2>2. CASE Unanswered(q)
    BY <2>2 DEF Unanswered, Up, window, Messages
  <2>3. CASE Fetched(q)
    BY <1>1, <2>3 DEF Fetched, Goes, At, Up, Messages
  <2>4. CASE Clear(q) \/ Create(q) \/ Written(q) \/ Exchange(q) \/ PutBack(q)
    BY <2>4 DEF Clear, Create, Written, Exchange, PutBack, Goes
  <2>5. CASE WriteFails(q) \/ Clean(q)
    BY <2>5 DEF WriteFails, Clean, At, Up, window, Messages
  <2>6. CASE Aside(q)
    BY <2>6 DEF Aside, At, Up, window, Messages, Goes
  <2>7. CASE Place(q) \/ Tidy(q)
    BY <2>7 DEF Place, Tidy, At, Up, window, Messages, Goes
  <2>q. QED
    BY <1>4, <2>1, <2>2, <2>3, <2>4, <2>5, <2>6, <2>7 DEF Thread, Swap
<1>6. q = p /\ what = mail'[p] /\ wk'[p] = "none"
  BY <1>1, <1>5 DEF Says
<1>q. QED
  BY <1>5, <1>6 DEF Up

(* What the thread reports is so: the found build in place, or the old one   *)
(* there still or again, one failed file operation notwithstanding.          *)
THEOREM Outcomes == Spec => OutcomeTrue
<1>1. ASSUME Inv, Inv', Next, NEW p \in Launchers, mail'[p] # mail[p], ~together',
             mail'[p] = "installed"
      PROVE  disk'[Slot] = Whole(found[p].v)
  <2> USE Apart
  <2>1. Place(p) \/ Tidy(p)
    BY <1>1, Speakers
  <2>2. wk[p] \in {"place", "exchanged", "tidy"}
    BY <2>1 DEF Place, Tidy, At
  <2>3. Building(p)
    <3>1. ~together
      BY <1>1, Spending DEF Inv
    <3>q. QED
      BY <1>1, <3>1 DEF Inv, BuildingOK
  <2>4. CASE Place(p)
    <3>1. mail' = [mail EXCEPT ![p] = "installed"]
      BY <1>1, <2>4 DEF Place, Says, Goes
    <3>2. disk' = Renamed(New(p), Slot)
      BY <1>1, <2>4 DEF Place, Says, Goes
    <3>3. disk'[Slot] = disk[New(p)]
      BY <1>1, <3>2, RenamedIs DEF Inv
    <3>4. disk[New(p)] = Whole(found[p].v)
      BY <2>3, <2>4 DEF Building, Place, At
    <3>q. QED
      BY <3>3, <3>4
  <2>5. CASE Tidy(p)
    <3>1. PICK n \in {New(p), Old(p)} : disk' \in Deletions(disk, {n})
      BY <2>5 DEF Tidy
    <3>2. {n} \in SUBSET Names /\ Slot \in Names \ {n}
      OBVIOUS
    <3>3. disk'[Slot] = disk[Slot]
      BY <1>1, <3>1, <3>2, DeletedIs DEF Inv
    <3>4. disk[Slot] = Whole(found[p].v)
      BY <2>3, <2>5 DEF Building, Tidy, At
    <3>q. QED
      BY <3>3, <3>4
  <2>q. QED
    BY <2>1, <2>4, <2>5
<1>2. ASSUME Inv, Inv', Next, NEW p \in Launchers, mail'[p] # mail[p], ~together',
             mail'[p] = "failed", from[p] = Slot, Spent' <= 1
      PROVE  disk'[Slot].whole
  <2>1. Up(p)' /\ from'[p] = Slot /\ wk'[p] = "none"
    BY <1>2, Speakers
  <2>2. Kept' /\ Swapping(p)'
    BY <1>2 DEF Inv, KeptOK, SwappingOK, Tight
  <2>3. ~Empty'
    BY <2>1, <2>2 DEF Swapping, Between
  <2>q. QED
    BY <2>2, <2>3 DEF Kept, WholeAt
<1>3. Inv /\ Inv' /\ [Next]_vars =>
        [\A p \in Launchers : mail'[p] # mail[p] /\ ~together' =>
           /\ mail'[p] = "installed" => disk'[Slot] = Whole(found[p].v)
           /\ mail'[p] = "failed" /\ from[p] = Slot /\ Spent' <= 1 => disk'[Slot].whole]_vars
  BY <1>1, <1>2
<1>q. QED
  BY <1>3, Always, PTL DEF Spec, OutcomeTrue

=============================================================================
