-------------------------------- MODULE Updater --------------------------------
(***************************************************************************)
(* The client's updater (client/update/): every launcher's check and       *)
(* install threads, the swap of the new build into the application's own   *)
(* place, the sweep a launcher makes when it starts, and the launcher      *)
(* window that starts the one, polls the other and opens sessions          *)
(* meanwhile.  Launchers are processes that share one directory; each may  *)
(* be closed or die between any two system calls.                          *)
(*                                                                         *)
(* A release is a version number with the facts pick reads; a build on     *)
(* disk is the version it is of and whether all of it is there.            *)
(***************************************************************************)
EXTENDS Naturals, Sequences, FiniteSets, SequencesExt, FiniteSetsExt

CONSTANTS
  Launchers,    \* processes (their pids), each started once
  Shapes,       \* the ways of replacing a build to consider
  Listings,     \* what the releases page may show: sets of [v, draft, pre, assets]
  MaxSessions,  \* bound: sessions a launcher starts
  MaxFaults     \* bound: file operations and requests that fail

AllShapes == {"binary", "bundle", "volume", "exe", "installer"}

ASSUME UpdaterAssumption ==
  /\ IsFiniteSet(Launchers)
  /\ Shapes \subseteq AllShapes
  /\ \A listing \in Listings : \A r \in listing : r.v \in Nat
  /\ MaxSessions \in Nat /\ MaxFaults \in Nat

VARIABLES
  shape,     \* the Plan of this installation (and whether its volume swaps)
  disk,      \* what is at the application's name and at every staging name
  proc,      \* launcher -> "unborn", "up" or "gone"
  from,      \* launcher -> the name it was started from
  running,   \* launcher -> the version it is
  sw,        \* launcher -> where its sweep stands
  todo,      \* launcher -> the leftovers its sweep still has to see
  st,        \* launcher -> Updater.state
  found,     \* launcher -> the release State::Found carries
  wk,        \* launcher -> the step its update thread is at
  mail,      \* launcher -> what the thread has sent and poll has not taken
  sessions,  \* launcher -> sessions it started that are still open
  asked,     \* launcher -> the installer it has started, if any
  together,  \* history: two launchers have been up at once
  faults     \* faults still to come

vars == <<shape, disk, proc, from, running, sw, todo, st, found, wk, mail,
          sessions, asked, together, faults>>
thread == <<st, found, wk, mail>>
window == <<shape, proc, from, running, sessions, asked, together>>

Slot == <<"slot", 0>>
New(p) == <<"new", p>>
Old(p) == <<"old", p>>
Names == {Slot} \cup {<<k, p>> : k \in {"new", "old"}, p \in Launchers}

Nothing == [v |-> 0, whole |-> FALSE]
Whole(n) == [v |-> n, whole |-> TRUE]
Half(n) == [v |-> n, whole |-> FALSE]
NoRelease == [v |-> 0, asset |-> "none", blocked |-> TRUE]

NoLeftovers == [rest |-> <<>>, all |-> {}]

Versions == {1} \cup {r.v : r \in UNION Listings}

TypeOK ==
  /\ shape \in AllShapes
  /\ disk \in [Names -> [v : {0} \cup Versions, whole : BOOLEAN]]
  /\ proc \in [Launchers -> {"unborn", "up", "gone"}]
  /\ from \in [Launchers -> Names]
  /\ running \in [Launchers -> {0} \cup Versions]
  /\ sw \in [Launchers -> {"read", "look", "move", "delete", "done"}]
  /\ \A p \in Launchers : Range(todo[p].rest) \cup todo[p].all \subseteq Names
  /\ st \in [Launchers -> {"Idle", "Checking", "UpToDate", "Found",
                           "Downloading", "Installed", "Failed"}]
  /\ wk \in [Launchers -> {"none", "check", "fetch", "clear", "create", "write",
                           "swap", "exchanged", "aside", "place", "putback",
                           "clean", "tidy"}]
  /\ mail \in [Launchers -> {"none", "uptodate", "found", "installed",
                             "handedoff", "failed", "dropped"}]
  /\ sessions \in [Launchers -> 0..MaxSessions]
  /\ asked \in [Launchers -> {"no", "clear", "busy"}]
  /\ together \in BOOLEAN
  /\ faults \in 0..MaxFaults

Init ==
  /\ shape \in Shapes
  /\ disk = [n \in Names |-> IF n = Slot THEN Whole(1) ELSE Nothing]
  /\ proc = [p \in Launchers |-> "unborn"]
  /\ from = [p \in Launchers |-> Slot]
  /\ running = [p \in Launchers |-> 0]
  /\ sw = [p \in Launchers |-> "read"]
  /\ todo = [p \in Launchers |-> NoLeftovers]
  /\ st = [p \in Launchers |-> "Idle"]
  /\ found = [p \in Launchers |-> NoRelease]
  /\ wk = [p \in Launchers |-> "none"]
  /\ mail = [p \in Launchers |-> "none"]
  /\ sessions = [p \in Launchers |-> 0]
  /\ asked = [p \in Launchers |-> "no"]
  /\ together = FALSE
  /\ faults = MaxFaults

-----------------------------------------------------------------------------
(* Files.                                                                    *)

(* A macOS application is a directory; everything else is one file.          *)
IsDir == shape \in {"bundle", "volume"}

(* Windows keeps the image of a running process from being deleted or        *)
(* written over.  Which copy of a version a process runs is not followed, so *)
(* a copy of a running version may or may not be the locked one; half of one *)
(* is never run.                                                             *)
MayBeLocked(n) ==
  /\ shape = "exe" /\ disk[n].whole
  /\ \E p \in Launchers : /\ proc[p] = "up" \/ sessions[p] > 0
                          /\ running[p] = disk[n].v

(* A rename replaces a file that is in its way, never a directory with       *)
(* something in it.                                                          *)
RenameCan(a, b) == disk[a] # Nothing /\ (disk[b] = Nothing \/ ~IsDir)
Renamed(a, b) == [disk EXCEPT ![b] = disk[a], ![a] = Nothing]

Fault == faults > 0 /\ faults' = faults - 1

RenameFails(a, b) ==
  \/ (~RenameCan(a, b) \/ MayBeLocked(b)) /\ UNCHANGED faults
  \/ RenameCan(a, b) /\ Fault

(* `let _ = remove`: what is left when the names in S have been removed.     *)
Removed(d, S) == [n \in Names |-> IF n \in S THEN Nothing ELSE d[n]]
Deletions(d, S) ==
  {Removed(d, R) : R \in {T \in SUBSET S : \A n \in S \ T : MayBeLocked(n)}}

-----------------------------------------------------------------------------
(* Choosing.                                                                 *)

(* candidates: newer than this build, published, of the wanted kind.         *)
Candidates(releases, current, prereleases) ==
  {r \in releases : ~r.draft /\ (prereleases \/ ~r.pre) /\ r.v > current}

(* pick: the newest of them that has an archive for this platform.           *)
Pick(releases, current, prereleases) ==
  LET S == {r \in Candidates(releases, current, prereleases) : "archive" \in r.assets}
  IN  {r \in S : \A q \in S : q.v <= r.v}

(* flavour_for: what this installation's plan unpacks or runs.               *)
FlavourFor == IF shape = "installer" THEN "installer" ELSE "archive"

(* offer_for: the asset of the plan's flavour, or the archive with a blocker.*)
OfferFor(r) ==
  IF FlavourFor \in r.assets
  THEN [v |-> r.v, asset |-> FlavourFor, blocked |-> FALSE]
  ELSE [v |-> r.v, asset |-> "archive", blocked |-> TRUE]

-----------------------------------------------------------------------------
(* The launcher's window.                                                    *)

Busy(p) == st[p] \in {"Checking", "Downloading"}

(* main and launcher::run up to the sweep: from the application's own name,  *)
(* or by hand from a leftover.  The sweep comes before the window.           *)
Start(p) ==
  \E n \in Names :
    /\ proc[p] = "unborn" /\ disk[n].whole
    /\ proc' = [proc EXCEPT ![p] = "up"]
    /\ from' = [from EXCEPT ![p] = n]
    /\ running' = [running EXCEPT ![p] = disk[n].v]
    /\ together' = (together \/ \E q \in Launchers : proc[q] = "up")
    /\ UNCHANGED <<shape, disk, sw, todo, thread, sessions, asked, faults>>

(* The process ends, and with it its threads and all it remembers.           *)
Ends(p) ==
  /\ proc' = [proc EXCEPT ![p] = "gone"]
  /\ wk' = [wk EXCEPT ![p] = "none"]
  /\ st' = [st EXCEPT ![p] = "Idle"]
  /\ found' = [found EXCEPT ![p] = NoRelease]
  /\ mail' = [mail EXCEPT ![p] = "none"]
  /\ sw' = [sw EXCEPT ![p] = "read"]
  /\ todo' = [todo EXCEPT ![p] = NoLeftovers]
  /\ UNCHANGED <<shape, disk, from, running, sessions, asked, together, faults>>

(* Quit, the window's close button, a crash, a power cut, at any moment.     *)
Close(p) == proc[p] = "up" /\ Ends(p)

Drawing(p) == proc[p] = "up" /\ sw[p] = "done"

(* start_check, from the menu or once a day: nothing while a thread is out.  *)
Check(p) ==
  /\ Drawing(p) /\ ~Busy(p) /\ wk[p] = "none"
  /\ st' = [st EXCEPT ![p] = "Checking"]
  /\ wk' = [wk EXCEPT ![p] = "check"]
  /\ mail' = [mail EXCEPT ![p] = "none"]
  /\ UNCHANGED <<window, disk, sw, todo, found, faults>>

(* Action::InstallUpdate behind `enabled`: an installable release, and no    *)
(* session open when it takes the Windows installer.  A launcher started by  *)
(* hand from a leftover is not followed past its sweep.                      *)
MayInstall(p) ==
  /\ st[p] = "Found" /\ ~found[p].blocked
  /\ found[p].asset = "installer" => sessions[p] = 0

Install(p) ==
  /\ Drawing(p) /\ MayInstall(p) /\ from[p] = Slot
  /\ st' = [st EXCEPT ![p] = "Downloading"]
  /\ wk' = [wk EXCEPT ![p] = "fetch"]
  /\ mail' = [mail EXCEPT ![p] = "none"]
  /\ UNCHANGED <<window, disk, sw, todo, found, faults>>

(* Fault: a thread that ends without a word is never noticed.                *)
PollDeaf(p) ==
  /\ Drawing(p) /\ mail[p] \in {"uptodate", "found", "installed", "failed"}
  /\ st' = [st EXCEPT ![p] = CASE mail[p] = "uptodate" -> "UpToDate"
                               [] mail[p] = "found" -> "Found"
                               [] mail[p] = "installed" -> "Installed"
                               [] OTHER -> "Failed"]
  /\ mail' = [mail EXCEPT ![p] = "none"]
  /\ UNCHANGED <<window, disk, sw, todo, found, wk, faults>>

(* Updater::poll and apply; after a hand-over on_update_change closes the    *)
(* window.                                                                   *)
Poll(p) ==
  /\ Drawing(p) /\ mail[p] \notin {"none", "handedoff"}
  /\ st' = [st EXCEPT ![p] = CASE mail[p] = "uptodate" -> "UpToDate"
                               [] mail[p] = "found" -> "Found"
                               [] mail[p] = "installed" -> "Installed"
                               [] OTHER -> "Failed"]
  /\ mail' = [mail EXCEPT ![p] = "none"]
  /\ UNCHANGED <<window, disk, sw, todo, found, wk, faults>>

HandedOff(p) == Drawing(p) /\ mail[p] = "handedoff" /\ Ends(p)

(* RestartForUpdate: the new build is spawned and this window closes; the    *)
(* new process is the next launcher's Start.                                 *)
Restart(p) == Drawing(p) /\ st[p] = "Installed" /\ Ends(p)

(* Connect and a session's end: nothing the updater is doing stops either.   *)
Connect(p) ==
  /\ Drawing(p) /\ sessions[p] < MaxSessions
  /\ sessions' = [sessions EXCEPT ![p] = @ + 1]
  /\ UNCHANGED <<shape, disk, proc, from, running, sw, todo, thread, asked,
                 together, faults>>

(* Fault: a session that has been reaped is counted out again.               *)
ReapedTwice(p) ==
  /\ proc[p] = "up"
  /\ sessions' = [sessions EXCEPT ![p] = @ - 1]
  /\ UNCHANGED <<shape, disk, proc, from, running, sw, todo, thread, asked,
                 together, faults>>

SessionEnds(p) ==
  /\ sessions[p] > 0
  /\ sessions' = [sessions EXCEPT ![p] = @ - 1]
  /\ UNCHANGED <<shape, disk, proc, from, running, sw, todo, thread, asked,
                 together, faults>>

-----------------------------------------------------------------------------
(* The update thread.                                                        *)

Says(p, what) ==
  /\ mail' = [mail EXCEPT ![p] = what]
  /\ wk' = [wk EXCEPT ![p] = "none"]
  /\ UNCHANGED st

Goes(p, next) ==
  /\ wk' = [wk EXCEPT ![p] = next]
  /\ UNCHANGED <<st, mail>>

At(p, step) == proc[p] = "up" /\ wk[p] = step

(* worker::check.                                                            *)
Checked(p) ==
  /\ At(p, "check")
  /\ \E listing \in Listings, prereleases \in BOOLEAN :
       LET best == Pick(listing, running[p], prereleases) IN
       \/ /\ best = {}
          /\ Says(p, "uptodate") /\ UNCHANGED found
       \/ \E r \in best :
          /\ found' = [found EXCEPT ![p] = OfferFor(r)]
          /\ Says(p, "found")
  /\ UNCHANGED <<window, disk, sw, todo, faults>>

(* A request that fails or a thread that ends without a word: poll turns     *)
(* either into Failed.                                                       *)
Unanswered(p) ==
  /\ wk[p] \in {"check", "fetch"} /\ proc[p] = "up" /\ Fault
  /\ \E how \in {"failed", "dropped"} : Says(p, how)
  /\ UNCHANGED <<window, disk, sw, todo, found>>

(* worker::install up to the plan's own work: the checksums, the download,   *)
(* verify.  It makes the plan again, which nothing here changes, so what was  *)
(* offered is of its flavour.  The installer is kept and started.            *)
Fetched(p) ==
  /\ At(p, "fetch")
  /\ IF shape = "installer"
     THEN /\ asked' = [asked EXCEPT ![p] = IF \E q \in Launchers : sessions[q] > 0
                                            THEN "busy" ELSE "clear"]
          /\ Says(p, "handedoff")
     ELSE Goes(p, IF shape = "binary" THEN "create" ELSE "clear") /\ UNCHANGED asked
  /\ UNCHANGED <<shape, proc, from, running, sessions, together, disk, sw, todo,
                 found, faults>>

(* replace_bundle, replace_windows_exe: this process's own staging names are *)
(* emptied first.                                                            *)
Clear(p) ==
  /\ At(p, "clear")
  /\ disk' \in Deletions(disk, {New(p), Old(p)})
  /\ Goes(p, "create")
  /\ UNCHANGED <<window, sw, todo, found, faults>>

(* The first bytes of the new build are under its staging name.              *)
Create(p) ==
  /\ At(p, "create")
  /\ disk' = [disk EXCEPT ![New(p)] = Half(found[p].v)]
  /\ Goes(p, "write")
  /\ UNCHANGED <<window, sw, todo, found, faults>>

(* The rest of it.  A file whose name has gone goes on being written where   *)
(* it is, and setting its mode then fails on Unix; a directory that has gone *)
(* is made again, create_dir_all before every entry, with only what is still *)
(* to be written in it.                                                      *)
Written(p) ==
  /\ At(p, "write")
  /\ \/ /\ disk[New(p)] # Nothing
        /\ disk' = [disk EXCEPT ![New(p)] = Whole(found[p].v)]
        /\ Goes(p, CASE shape = "binary" -> "place"
                     [] shape = "exe" -> "aside"
                     [] OTHER -> "swap")
     \/ /\ disk[New(p)] = Nothing
        /\ IF IsDir
           THEN disk' = [disk EXCEPT ![New(p)] = Half(found[p].v)]
           ELSE \/ UNCHANGED disk
                \/ /\ disk[Slot] = Half(found[p].v)
                   /\ disk' = [disk EXCEPT ![Slot] = Whole(found[p].v)]
        /\ Goes(p, CASE shape = "binary" -> "clean"
                     [] shape = "exe" -> "aside"
                     [] OTHER -> "swap")
  /\ UNCHANGED <<window, sw, todo, found, faults>>

(* The disk is full: a bundle's staging directory is removed again, a file's *)
(* first bytes stay where they are.                                          *)
WriteFails(p) ==
  /\ At(p, "write") /\ Fault
  /\ disk' = IF IsDir THEN Removed(disk, {New(p)}) ELSE disk
  /\ Says(p, "failed")
  /\ UNCHANGED <<window, sw, todo, found>>

(* unix::swap: the two exchanged in one step, where the filesystem can; or   *)
(* the two renames.                                                          *)
Exchange(p) ==
  /\ At(p, "swap")
  /\ \/ /\ shape = "bundle" /\ disk[New(p)] # Nothing /\ disk[Slot] # Nothing
        /\ disk' = [disk EXCEPT ![Slot] = disk[New(p)], ![New(p)] = disk[Slot]]
        /\ Goes(p, "exchanged")
     \/ /\ shape = "volume" \/ disk[New(p)] = Nothing \/ disk[Slot] = Nothing
        /\ Goes(p, "aside")
        /\ UNCHANGED disk
  /\ UNCHANGED <<window, sw, todo, found, faults>>

(* Fault: the update takes the new build for in place once it is aside.      *)
AsideOnly(p) ==
  /\ At(p, "aside")
  /\ RenameCan(Slot, Old(p)) /\ UNCHANGED faults
  /\ disk' = Renamed(Slot, Old(p))
  /\ Goes(p, "tidy")
  /\ UNCHANGED <<window, sw, todo, found>>

(* The running build out of the way.  When that fails, a Windows file's      *)
(* staging is removed and a bundle's is left.                                *)
Aside(p) ==
  /\ At(p, "aside")
  /\ \/ /\ RenameCan(Slot, Old(p)) /\ UNCHANGED faults
        /\ disk' = Renamed(Slot, Old(p))
        /\ Goes(p, "place")
     \/ /\ RenameFails(Slot, Old(p))
        /\ UNCHANGED disk
        /\ IF shape = "exe" THEN Goes(p, "clean") ELSE Says(p, "failed")
  /\ UNCHANGED <<window, sw, todo, found>>

(* The new build into the application's place: over the old file on Unix,    *)
(* into the empty slot elsewhere.                                            *)
Place(p) ==
  /\ At(p, "place")
  /\ \/ /\ RenameCan(New(p), Slot) /\ UNCHANGED faults
        /\ disk' = Renamed(New(p), Slot)
        /\ IF shape = "binary" THEN Says(p, "installed") ELSE Goes(p, "tidy")
     \/ /\ RenameFails(New(p), Slot)
        /\ UNCHANGED disk
        /\ Goes(p, IF shape = "binary" THEN "clean" ELSE "putback")
  /\ UNCHANGED <<window, sw, todo, found>>

(* Fault: the old build is not put back.                                     *)
PutBackNot(p) ==
  /\ At(p, "putback")
  /\ Goes(p, "clean")
  /\ UNCHANGED <<window, disk, sw, todo, found, faults>>

(* It did not go in: the old build back, as well as that can be done.        *)
PutBack(p) ==
  /\ At(p, "putback")
  /\ \/ /\ RenameCan(Old(p), Slot) /\ UNCHANGED faults
        /\ disk' = Renamed(Old(p), Slot)
     \/ RenameFails(Old(p), Slot) /\ UNCHANGED disk
  /\ Goes(p, "clean")
  /\ UNCHANGED <<window, sw, todo, found>>

Clean(p) ==
  /\ At(p, "clean")
  /\ disk' \in Deletions(disk, {New(p)})
  /\ Says(p, "failed")
  /\ UNCHANGED <<window, sw, todo, found, faults>>

(* The replaced build removed, as far as it can be; then the outcome is sent.*)
Tidy(p) ==
  /\ \/ At(p, "exchanged") /\ disk' \in Deletions(disk, {New(p)})
     \/ At(p, "tidy") /\ disk' \in Deletions(disk, {Old(p)})
  /\ Says(p, "installed")
  /\ UNCHANGED <<window, sw, todo, found, faults>>

-----------------------------------------------------------------------------
(* The sweep.                                                                *)

Leftovers(k) == {n \in Names : n[1] = k /\ disk[n] # Nothing}

(* install_dir: the directory the application is in, which for a launcher    *)
(* started from a bundle's staging name is one inside that bundle (bundle_of *)
(* wants the extension .app), where there is nothing of ours.                *)
InPlace(p) == from[p] = Slot \/ ~IsDir

(* read_dir, and the sort: the new builds before the old ones.               *)
SweepRead(p) ==
  /\ proc[p] = "up" /\ sw[p] = "read"
  /\ LET news == IF InPlace(p) THEN Leftovers("new") ELSE {}
         olds == IF InPlace(p) THEN Leftovers("old") ELSE {}
     IN  /\ \E a \in SetToSeqs(news), b \in SetToSeqs(olds) :
              todo' = [todo EXCEPT ![p] = [rest |-> a \o b, all |-> news \cup olds]]
         /\ sw' = [sw EXCEPT ![p] = IF news \cup olds = {} THEN "done" ELSE "look"]
  /\ UNCHANGED <<window, disk, thread, faults>>

(* Fault: the sweep only tidies; nothing is put back.                        *)
SweepLookNot(p) ==
  /\ proc[p] = "up" /\ sw[p] = "look"
  /\ sw' = [sw EXCEPT ![p] = "delete"]
  /\ UNCHANGED <<window, disk, todo, thread, faults>>

(* Each in turn takes the application's place if nothing is there when it is *)
(* looked at.                                                                *)
SweepLook(p) ==
  /\ proc[p] = "up" /\ sw[p] = "look"
  /\ IF todo[p].rest = <<>>
     THEN sw' = [sw EXCEPT ![p] = "delete"] /\ UNCHANGED todo
     ELSE IF disk[Slot] = Nothing
          THEN sw' = [sw EXCEPT ![p] = "move"] /\ UNCHANGED todo
          ELSE todo' = [todo EXCEPT ![p].rest = Tail(@)] /\ UNCHANGED sw
  /\ UNCHANGED <<window, disk, thread, faults>>

SweepMove(p) ==
  /\ proc[p] = "up" /\ sw[p] = "move"
  /\ LET n == Head(todo[p].rest) IN
       \/ RenameCan(n, Slot) /\ disk' = Renamed(n, Slot) /\ UNCHANGED faults
       \/ RenameFails(n, Slot) /\ UNCHANGED disk
  /\ todo' = [todo EXCEPT ![p].rest = Tail(@)]
  /\ sw' = [sw EXCEPT ![p] = "look"]
  /\ UNCHANGED <<window, thread>>

(* Whatever of them is still there goes.                                     *)
SweepDelete(p) ==
  /\ proc[p] = "up" /\ sw[p] = "delete"
  /\ disk' \in Deletions(disk, todo[p].all)
  /\ sw' = [sw EXCEPT ![p] = "done"]
  /\ todo' = [todo EXCEPT ![p].all = {}]
  /\ UNCHANGED <<window, thread, faults>>

-----------------------------------------------------------------------------
Sweep(p) == SweepRead(p) \/ SweepLook(p) \/ SweepMove(p) \/ SweepDelete(p)

Swap(p) ==
  \/ Clear(p) \/ Create(p) \/ Written(p) \/ WriteFails(p) \/ Exchange(p)
  \/ Aside(p) \/ Place(p) \/ PutBack(p) \/ Clean(p) \/ Tidy(p)

Thread(p) == Checked(p) \/ Unanswered(p) \/ Fetched(p) \/ Swap(p)

User(p) ==
  \/ Start(p) \/ Close(p) \/ Check(p) \/ Install(p) \/ Restart(p)
  \/ Connect(p) \/ SessionEnds(p)

Next == \E p \in Launchers : User(p) \/ Poll(p) \/ HandedOff(p) \/ Sweep(p) \/ Thread(p)

Spec == Init /\ [][Next]_vars

(* Every request has a deadline (fetch.rs) and every file operation returns; *)
(* the launcher repaints, and so polls, at least twice a second.             *)
Fairness == \A p \in Launchers : /\ WF_vars(Sweep(p)) /\ WF_vars(Poll(p) \/ HandedOff(p))
                                 /\ WF_vars(Thread(p))
FairSpec == Spec /\ Fairness

-----------------------------------------------------------------------------
(* Properties.                                                               *)

(* The file operations and requests that have failed.                        *)
Spent == MaxFaults - faults

(* Nothing is ever half an executable (install.rs:11): what is at the        *)
(* application's name is a whole build whenever anything is.                 *)
NothingHalf == disk[Slot] # Nothing => disk[Slot].whole

(* As long as only one launcher has been up at a time, wherever each of them *)
(* was closed or died and though one file operation failed, no part of a     *)
(* build is ever at the application's name and a whole build is always       *)
(* somewhere in its directory.  (Two renames that fail in one sweep leave    *)
(* nothing at all: it deletes what it could not put back.)                   *)
AloneKeepsABuild ==
  ~together /\ Spent <= 1 => NothingHalf /\ \E n \in Names : disk[n].whole

(* And then, with no file operation failing, the application is at its own   *)
(* name whenever a launcher that started in its directory is past its sweep  *)
(* and not between the two renames: what an interrupted update left out of   *)
(* place has been put back.                                                  *)
SweptIsInPlace ==
  ~together /\ Spent = 0 =>
    \A p \in Launchers : Drawing(p) /\ InPlace(p) /\ wk[p] # "place" => disk[Slot].whole

(* What the thread tells the window is so: "installed" with the found build  *)
(* in place, "failed" with a whole build still or again in place, one failed *)
(* file operation notwithstanding.                                           *)
OutcomeTrue ==
  [][\A p \in Launchers : mail'[p] # mail[p] /\ ~together' =>
       /\ mail'[p] = "installed" => disk'[Slot] = Whole(found[p].v)
       /\ mail'[p] = "failed" /\ from[p] = Slot /\ Spent' <= 1 =>
            disk'[Slot].whole]_vars

(* No spinner for ever: a check or an install ends in an answer, or the      *)
(* window is closed.                                                         *)
BusyEnds == \A p \in Launchers : Busy(p) ~> (~Busy(p) \/ proc[p] = "gone")

(* The refusal has to come first (launcher.rs:751-757): a Windows installer  *)
(* is not started while a session of the launcher that starts it is open.    *)
NoSessionAtHandOver == \A p \in Launchers : asked[p] # "busy"
=============================================================================
