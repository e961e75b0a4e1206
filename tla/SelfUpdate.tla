----------------------------- MODULE SelfUpdate -----------------------------
(***************************************************************************)
(* `toktop update` and the dashboard it updates (cmd/toktop/update.go,     *)
(* internal/selfupdate, internal/selfreload, runTUI in main.go).  Several  *)
(* updates may run, fail or be killed at any step; a dashboard polls the   *)
(* identity of its executable and runs the new image when it changes.      *)
(*                                                                         *)
(* A file is an inode with an image: the version it holds, or Corrupt.  On *)
(* Windows a file that some process runs cannot be removed or replaced,    *)
(* but can be renamed.  Names of assets, checksums and URLs are in         *)
(* Listings.                                                               *)
(***************************************************************************)
EXTENDS Integers, FiniteSets

CONSTANTS
  Systems,        \* runtime.GOOS: subset of {"unix", "windows"}
  Updaters,       \* processes that run `toktop update`
  MaxReleases,    \* bound: releases published
  MaxStarts       \* bound: commands started

ASSUME UpdateAssumption ==
  Systems \subseteq {"unix", "windows"} /\ IsFiniteSet(Updaters) /\ MaxReleases \in Nat /\ MaxStarts \in Nat

Corrupt == -1
Images == 0..MaxReleases
Nothing == [ino |-> 0, img |-> Corrupt]

VARIABLES
  os,
  latest,         \* version of the latest release
  self, old,      \* the files at self and self + ".old"
  made,           \* inodes given out
  starts,
  update,         \* updater -> where it is, what it runs from, what it installs
  dash            \* dashboard: where it is, what it runs, what Watch saw first

files == <<self, old, made>>
vars == <<os, latest, files, starts, update, dash>>

Windows == os = "windows"
Exists(f) == f # Nothing
Ended == [at |-> "ended", runs |-> Nothing, rel |-> 0, expect |-> 0, tmp |-> Nothing]

\* A running image: it cannot be unlinked on Windows.
Locked(f) ==
  /\ Windows
  /\ \/ \E u \in Updaters : update[u].runs = f
     \/ dash.at # "ended" /\ dash.runs = f

Goto(u, step) == update' = [update EXCEPT ![u].at = step]

\* The deferred cleanup of the temporary file, and the end of the process.
Exit(u) == update' = [update EXCEPT ![u] = Ended]

Publish ==
  /\ latest < MaxReleases
  /\ latest' = latest + 1
  /\ UNCHANGED <<os, files, starts, update, dash>>

(***************************************************************************)
(* runUpdate, Check, Apply                                                 *)
(***************************************************************************)
Start(u) ==
  /\ update[u] = Ended /\ starts < MaxStarts
  /\ Exists(self) /\ self.img # Corrupt
  /\ starts' = starts + 1
  /\ update' = [update EXCEPT ![u] = [Ended EXCEPT !.at = "check", !.runs = self]]
  /\ UNCHANGED <<os, latest, files, dash>>

\* A different version is applied, an older one too; --check stops here.
Check(u) ==
  /\ update[u].at = "check"
  /\ \/ /\ latest # update[u].runs.img
        /\ update' = [update EXCEPT ![u].at = "sums", ![u].rel = latest]
     \/ Exit(u)
  /\ UNCHANGED <<os, latest, files, starts, dash>>

\* A release without an asset or a listing for this platform, or one whose URLs are
\* not GitHub downloads, is refused; so is an archive that does not parse.
Sums(u) ==
  /\ update[u].at = "sums"
  /\ \/ update' = [update EXCEPT ![u].at = "current", ![u].expect = update[u].rel]
     \/ Exit(u)
  /\ UNCHANGED <<os, latest, files, starts, dash>>

\* fileChecksum: what another update installed meanwhile is not fetched again.
CurrentAlready(u) ==
  /\ update[u].at = "current"
  /\ IF Exists(self) /\ self.img = update[u].expect THEN Exit(u) ELSE Goto(u, "download")
  /\ UNCHANGED <<os, latest, files, starts, dash>>

\* Into a file beside self: whole, cut short, or not what the listing promised.
download(u) ==
  /\ update[u].at = "download"
  /\ \/ Exit(u) /\ UNCHANGED made
     \/ /\ made' = made + 1
        /\ \E img \in {update[u].rel, Corrupt} :
             update' = [update EXCEPT ![u].at = "verify", ![u].tmp = [ino |-> made + 1, img |-> img]]
  /\ UNCHANGED <<os, latest, self, old, starts, dash>>

\* A plausible bug: the asset and its checksum are compared only when both exist.
VerifiedUnread(u) == TRUE

Verified(u) == update[u].tmp.img = update[u].expect

verify(u) ==
  /\ update[u].at = "verify"
  /\ \/ Verified(u) /\ Goto(u, "install")
     \/ Exit(u)                              \* mismatch, or the file cannot be flushed
  /\ UNCHANGED <<os, latest, files, starts, dash>>

\* A plausible bug: the displaced file is replaced whoever runs it.
FreedByForce(u) == Nothing

\* os.Remove(displaced): left by a previous update, gone unless something runs it.
Freed(u) == IF Locked(old) THEN old ELSE Nothing

\* A plausible bug: the image is copied out of the way.
Stays == self

Vacated == Nothing

\* A rename that Unix does at once; Windows first moves the image out of the way.
install(u) ==
  /\ update[u].at = "install"
  /\ IF Windows
     THEN \/ /\ Exists(self) /\ ~Exists(Freed(u))
             /\ old' = self /\ self' = Vacated
             /\ Goto(u, "moved")
          \/ /\ old' = Freed(u) /\ UNCHANGED self
             /\ Exit(u)
     ELSE /\ self' = update[u].tmp \/ UNCHANGED self
          /\ Exit(u)
          /\ UNCHANGED old
  /\ UNCHANGED <<os, latest, made, starts, dash>>

\* The second rename, and the way back if it fails, which can fail as well.
InstallMoved(u) ==
  /\ update[u].at = "moved"
  /\ \/ /\ ~Exists(self)
        /\ self' = update[u].tmp /\ UNCHANGED old
        /\ Exit(u)
     \/ UNCHANGED <<self, old>> /\ Goto(u, "restore")
  /\ UNCHANGED <<os, latest, made, starts, dash>>

Restore(u) ==
  /\ update[u].at = "restore"
  /\ \/ /\ Exists(old) /\ ~Exists(self)
        /\ self' = old /\ old' = Nothing
     \/ UNCHANGED <<self, old>>
  /\ Exit(u)
  /\ UNCHANGED <<os, latest, made, starts, dash>>

\* Interrupted, or killed: the temporary file stays, under a name of its own.
Kill(u) ==
  /\ update[u] # Ended
  /\ Exit(u)
  /\ UNCHANGED <<os, latest, files, starts, dash>>

(***************************************************************************)
(* runTUI and selfreload.Watch                                             *)
(***************************************************************************)
\* A plausible bug: only a change of the size is seen.
SameSize(f, ino) == TRUE

SameIdentity(f, ino) == f.ino = ino

\* The first stat that works is what later ones are compared with.
Watch ==
  /\ dash.at = "watch"
  /\ Exists(self)
  /\ \/ /\ dash.base = 0
        /\ dash' = [dash EXCEPT !.base = self.ino]
     \/ /\ dash.base # 0 /\ ~SameIdentity(self, dash.base)
        /\ dash' = [dash EXCEPT !.at = "restart"]
  /\ UNCHANGED <<os, latest, files, starts, update>>

\* Unix runs what is there now, or exits; Windows asks the user to.
Restart ==
  /\ dash.at = "restart"
  /\ dash' = IF Windows \/ ~Exists(self) \/ self.img = Corrupt
             THEN [dash EXCEPT !.at = "ended", !.runs = Nothing]
             ELSE [at |-> "watch", runs |-> self, base |-> 0]
  /\ UNCHANGED <<os, latest, files, starts, update>>

Quit ==
  /\ dash.at = "watch"
  /\ dash' = [dash EXCEPT !.at = "ended", !.runs = Nothing]
  /\ UNCHANGED <<os, latest, files, starts, update>>

\* Started again by hand.
Run ==
  /\ dash.at = "ended" /\ starts < MaxStarts
  /\ Exists(self) /\ self.img # Corrupt
  /\ starts' = starts + 1
  /\ dash' = [at |-> "watch", runs |-> self, base |-> 0]
  /\ UNCHANGED <<os, latest, files, update>>

Init ==
  /\ os \in Systems
  /\ latest = 0
  /\ self = [ino |-> 1, img |-> 0] /\ old = Nothing /\ made = 1
  /\ starts = 0
  /\ update = [u \in Updaters |-> Ended]
  /\ dash = [at |-> "watch", runs |-> self, base |-> 0]

applyTo(u) ==
  Check(u) \/ Sums(u) \/ CurrentAlready(u) \/ download(u) \/ verify(u)
  \/ install(u) \/ InstallMoved(u) \/ Restore(u)

Next ==
  \/ Publish
  \/ \E u \in Updaters : Start(u) \/ applyTo(u) \/ Kill(u)
  \/ Watch \/ Restart \/ Quit \/ Run

\* The ticker of Watch, and the end of the program it stops.
Spec == Init /\ [][Next]_vars /\ WF_vars(Watch) /\ WF_vars(Restart)

(***************************************************************************)
(* Properties                                                              *)
(***************************************************************************)
File == [ino : 0..made, img : Images \cup {Corrupt}]
Process ==
  [at : {"ended", "check", "sums", "current", "download", "verify", "install", "moved", "restore"},
   runs : File, rel : Images, expect : Images, tmp : File]
TypeOK ==
  /\ os \in Systems /\ latest \in Images /\ starts \in 0..MaxStarts /\ made \in Nat
  /\ self \in File /\ old \in File
  /\ update \in [Updaters -> Process]
  /\ dash \in [at : {"watch", "restart", "ended"}, runs : File, base : 0..made]
  /\ Exists(self) => self.ino # old.ino

\* Nothing unverified is ever under the name that users run (applyTo: "a mismatch
\* leaves the running binary untouched"), and on Unix there always is something.
Runnable == /\ TypeOK
            /\ Exists(self) => self.img \in Images
            /\ Exists(self) \/ Windows

\* Whatever fails or is killed between the two renames, and however many updates run
\* at once, what is installed can be run, or what was moved away for it (install: "put the
\* running binary back rather than leaving nothing installed").
NeverBare == Runnable /\ (Exists(self) \/ (Exists(old) /\ old.img \in Images))

\* "An update applied in another terminal lands in the session already open" (update.go):
\* once Watch has seen the image it runs, a replacement is run, or ends the program.
Watching == dash.at = "watch" /\ dash.base = dash.runs.ino
LandsInSession == \A v \in 1..MaxStarts + 1 :
  (Watching /\ dash.base = v /\ Exists(self) /\ self.ino # v) ~> (dash.runs.ino # v \/ self.ino = v)
=============================================================================
