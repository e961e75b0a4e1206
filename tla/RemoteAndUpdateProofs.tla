----------------------- MODULE RemoteAndUpdateProofs -----------------------
(***************************************************************************)
(* What outlives a command.  Close, for any number of forwarded ports and  *)
(* outages: once it has returned nothing listens, is connected or probes,  *)
(* and a loss that is reported has its reason; both rest on what has to be *)
(* over before Close is called, since Close takes only one look at each    *)
(* thing.  And `toktop update`, for any number of updates and releases:    *)
(* nothing unverified is ever under the installed name, and the image that *)
(* was moved out of its way is there until it is replaced.                 *)
(***************************************************************************)
EXTENDS RemoteClient, SelfUpdate, TLAPS

(***************************************************************************)
(* The connection to a remote host: the inductive invariant                *)
(***************************************************************************)
\* Until the handshake is over there is nothing to keep alive.
Connecting ==
  /\ conn \in {"banner", "auth"} => attach = "connect"
  /\ attach = "connect" => keepalive = "none" /\ misses = 0

\* keepalive goes on only as long as it has not missed its third probe.
Counting == keepalive \in {"wait", "probe"} => misses < 3

\* Close is called when Forward has returned, so that no listener is added after it.
Over ==
  /\ closing # "no" => attach \in {"failed", "identify", "done"}
  /\ watcher # "none" => attach \in {"identify", "done"}

\* What each step of Close has achieved.
Achieved ==
  /\ closing \in {"hangup", "join", "done"} => bound = {}
  /\ closing \in {"join", "done"} => conn = "down"
  /\ closing = "done" => keepalive = "done"

\* The goroutine of attachRemote waits only before the first Close, and what closed the
\* client until then is a loss.
Explained ==
  /\ watcher = "wait" => closing = "no"
  /\ closed /\ closing = "no" => err = "lost"

ClientInv == ClientTypeOK /\ Connecting /\ Counting /\ Over /\ Achieved /\ Explained /\ LossIsExplained

(***************************************************************************)
(* The connection: every step keeps it                                     *)
(***************************************************************************)
LEMMA ClientStarts == ClientInit => ClientInv
<1> SUFFICES ASSUME ClientInit PROVE ClientInv
  OBVIOUS
<1>1. outages \in 0..MaxOutages /\ misses \in 0..3
  BY ClientAssumption DEF ClientAssumption, ClientInit
<1>2. bound \subseteq Ports /\ stray \subseteq Callers \cup {"probe"}
  BY DEF ClientInit
<1>3. run \in [Callers -> {"idle", "opening", "running"}]
  BY DEF ClientInit
<1>4. relay \in [Ports -> {"none", "dialing", "piped"}]
  BY DEF ClientInit
<1>5. ClientTypeOK
  BY <1>1, <1>2, <1>3, <1>4 DEF ClientInit, ClientTypeOK
<1> QED
  BY <1>5 DEF ClientInit, ClientInv, Connecting, Counting, Over, Achieved, Explained, LossIsExplained

\* Nothing the peer, the network or the user does breaks it.
LEMMA WorldKeeps == ClientInv /\ (Cancel \/ FallSilent \/ Recover \/ Drop) => ClientInv'
<1> SUFFICES ASSUME ClientInv, Cancel \/ FallSilent \/ Recover \/ Drop PROVE ClientInv'
  OBVIOUS
<1> USE ClientAssumption
        DEF ClientInv, ClientTypeOK, Connecting, Counting, Over, Achieved, Explained, LossIsExplained,
            program, calls, ports, state, loops
<1>1. CASE Cancel
  BY <1>1 DEF Cancel
<1>2. CASE FallSilent
  BY <1>2 DEF FallSilent
<1>3. CASE Recover
  BY <1>3 DEF Recover
<1>4. CASE Drop
  BY <1>4 DEF Drop
<1> QED
  BY <1>1, <1>2, <1>3, <1>4

\* Connect: the client exists only when the handshake has succeeded.
LEMMA ConnectKeeps == ClientInv /\ (Dial \/ BannerTimeout \/ Banner \/ Authenticate) => ClientInv'
<1> SUFFICES ASSUME ClientInv, Dial \/ BannerTimeout \/ Banner \/ Authenticate PROVE ClientInv'
  OBVIOUS
<1> USE DEF ClientInv, ClientTypeOK, Connecting, Counting, Over, Achieved, Explained, LossIsExplained,
            program, calls, ports, state, loops
<1>1. CASE Dial
  BY <1>1 DEF Dial
<1>2. CASE BannerTimeout
  BY <1>2 DEF BannerTimeout, Deadline
<1>3. CASE Banner
  BY <1>3 DEF Banner
<1>4. CASE Authenticate
  BY <1>4 DEF Authenticate
<1> QED
  BY <1>1, <1>2, <1>3, <1>4

\* Run: only Discover moves attachRemote on, and only up to Forward.
LEMMA RunKeeps ==
  ASSUME ClientInv, NEW w \in Callers, Call(w) \/ NewSession(w) \/ RunReturns(w)
  PROVE  ClientInv'
<1> USE DEF ClientInv, ClientTypeOK, Connecting, Counting, Over, Achieved, Explained, LossIsExplained,
            program, calls, ports, state, loops
<1>1. CASE Call(w)
  BY <1>1 DEF Call
<1>2. CASE NewSession(w)
  BY <1>2 DEF NewSession
<1>3. CASE RunReturns(w)
  <2>1. PICK ok \in BOOLEAN : Returned(w, ok)
    BY <1>3 DEF RunReturns
  <2>2. stray' \subseteq Callers \cup {"probe"}
    BY <1>3 DEF RunReturns
  <2>3. run' \in [Callers -> {"idle", "opening", "running"}]
    BY <2>1 DEF Returned
  <2>4. UNCHANGED <<ctx, watcher, told, peer, outages, conn, ports, closed, err,
                    keepalive, misses, lost>>
    BY <1>3 DEF RunReturns
  <2>5. CASE w = "stats"
    BY <2>1, <2>2, <2>3, <2>4, <2>5 DEF Returned
  <2>6. CASE w # "stats"
    BY <2>1, <2>2, <2>3, <2>4, <2>6 DEF Returned
  <2> QED
    BY <2>5, <2>6
<1> QED
  BY <1>1, <1>2, <1>3

\* Forward binds its ports while the client is open, and is the last to add one.
LEMMA ForwardKeeps == ClientInv /\ (Forward \/ Identified \/ Woken \/ StatsRun) => ClientInv'
<1> SUFFICES ASSUME ClientInv, Forward \/ Identified \/ Woken \/ StatsRun PROVE ClientInv'
  OBVIOUS
<1> USE DEF ClientInv, ClientTypeOK, Connecting, Counting, Over, Achieved, Explained, LossIsExplained,
            program, calls, ports, state, loops
<1>1. CASE Forward
  BY <1>1 DEF Forward
<1>2. CASE Identified
  BY <1>2 DEF Identified
<1>3. CASE Woken
  <2>1. told' # "nil"
    BY <1>3 DEF Woken
  <2> QED
    BY <1>3, <2>1 DEF Woken
<1>4. CASE StatsRun
  BY <1>4 DEF StatsRun
<1> QED
  BY <1>1, <1>2, <1>3, <1>4

\* Relays and abandoned sessions have nothing that Close waits for.
LEMMA RelayKeeps ==
  ASSUME ClientInv,
         \/ \E p \in Ports : Accept(p) \/ Piped(p) \/ RelayEnds(p)
         \/ \E k \in Callers \cup {"probe"} : StrayReturns(k)
  PROVE  ClientInv'
<1> USE DEF ClientInv, ClientTypeOK, Connecting, Counting, Over, Achieved, Explained, LossIsExplained,
            program, calls, ports, state, loops
<1>1. ASSUME NEW p \in Ports, Accept(p) \/ Piped(p) \/ RelayEnds(p) PROVE ClientInv'
  <2>1. relay' \in [Ports -> {"none", "dialing", "piped"}]
    BY <1>1 DEF Accept, Piped, RelayEnds
  <2>2. UNCHANGED <<program, peer, outages, conn, calls, bound, state, loops>>
    BY <1>1 DEF Accept, Piped, RelayEnds
  <2> QED
    BY <2>1, <2>2
<1>2. ASSUME NEW k \in Callers \cup {"probe"}, StrayReturns(k) PROVE ClientInv'
  BY <1>2 DEF StrayReturns
<1> QED
  BY <1>1, <1>2

\* The goroutines of the client end, and never begin again.
LEMMA CloseKeeps == ClientInv /\ (probe \/ KeepaliveWakes \/ Close \/ watchClose) => ClientInv'
<1> SUFFICES ASSUME ClientInv, probe \/ KeepaliveWakes \/ Close \/ watchClose PROVE ClientInv'
  OBVIOUS
<1> USE DEF ClientInv, ClientTypeOK, Connecting, Counting, Over, Achieved, Explained, LossIsExplained,
            program, calls, ports, state, loops
<1>1. CASE probe
  BY <1>1 DEF probe, Missed, GivenUp
<1>2. CASE KeepaliveWakes
  BY <1>2 DEF KeepaliveWakes
<1>3. CASE Close
  <2>1. bound' \subseteq Ports
    BY <1>3 DEF Close, closeListeners
  <2>2. /\ closed' \in BOOLEAN /\ err' \in {"nil", "lost"}
        /\ closing' \in {"no", "mark", "reclaim", "hangup", "join", "done"}
        /\ watcher' \in {"none", "wait", "close", "done"}
        /\ conn' \in {"none", "banner", "auth", "up", "down"}
    BY <1>3 DEF Close
  <2>3. UNCHANGED <<ctx, attach, told, peer, outages, calls, relay, loops>>
    BY <1>3 DEF Close
  <2>4. ClientTypeOK'
    BY <2>1, <2>2, <2>3
  <2>5. Achieved'
    BY <1>3 DEF Close, closeListeners
  <2>6. Connecting' /\ Counting' /\ LossIsExplained'
    BY <1>3 DEF Close
  <2>7. Over'
    BY <1>3 DEF Close
  <2>8. Explained'
    BY <1>3 DEF Close
  <2> QED
    BY <2>4, <2>5, <2>6, <2>7, <2>8
<1>4. CASE watchClose
  <2>1. bound' \subseteq Ports
    BY <1>4 DEF watchClose
  <2>2. /\ closed' \in BOOLEAN /\ err' \in {"nil", "lost"}
        /\ lost' \in {"none", "wait", "reclaimed", "done"}
    BY <1>4 DEF watchClose, LossReason
  <2>3. UNCHANGED <<program, peer, outages, conn, calls, relay, closing, keepalive, misses,
                    stats>>
    BY <1>4 DEF watchClose
  <2>4. ClientTypeOK'
    BY <2>1, <2>2, <2>3
  <2>5. Achieved'
    BY <1>4 DEF watchClose
  <2>6. Connecting' /\ Counting' /\ LossIsExplained'
    BY <1>4 DEF watchClose
  <2>7. Over'
    BY <1>4 DEF watchClose
  <2>8. Explained'
    BY <1>4 DEF watchClose, LossReason
  <2> QED
    BY <2>4, <2>5, <2>6, <2>7, <2>8
<1> QED
  BY <1>1, <1>2, <1>3, <1>4

\* Every step of the client, its goroutines and the network keeps the invariant.
LEMMA ClientNextKeeps == ClientInv /\ [ClientNext]_clientVars => ClientInv'
<1> SUFFICES ASSUME ClientInv, [ClientNext]_clientVars PROVE ClientInv'
  OBVIOUS
<1>1. CASE UNCHANGED clientVars
  BY <1>1 DEF clientVars, program, calls, ports, state, loops, ClientInv, ClientTypeOK, Connecting, Counting,
              Over, Achieved, Explained, LossIsExplained
<1>2. CASE \E w \in Callers : Call1(w) \/ NewSession(w)
  BY <1>2, RunKeeps DEF Call1
<1> QED
  BY <1>1, <1>2, WorldKeeps, ConnectKeeps, ForwardKeeps, RelayKeeps, CloseKeeps DEF ClientNext

\* The invariant holds in every state the client reaches.
THEOREM ClientInvariant == ClientSpec => []ClientInv
BY ClientStarts, ClientNextKeeps, PTL DEF ClientSpec

(***************************************************************************)
(* The connection: the theorems                                            *)
(***************************************************************************)
\* Close is complete, whatever dropped, bound or raced before it (Close, Forward,
\* closeListeners, keepalive).
THEOREM ClosedForGood == ClientSpec => []CloseComplete
<1>1. ClientInv => CloseComplete
  BY DEF ClientInv, Achieved, CloseComplete
<1> QED
  BY <1>1, ClientInvariant, PTL

\* Whoever Done wakes finds the reason of a loss in Err (watchClose, attachRemote).
THEOREM LossHasItsReason == ClientSpec => []LossIsExplained
<1>1. ClientInv => LossIsExplained
  BY DEF ClientInv
<1> QED
  BY <1>1, ClientInvariant, PTL

(***************************************************************************)
(* Updates: the inductive invariant                                        *)
(***************************************************************************)
Good(f) == Exists(f) => f.ino > 0 /\ f.img \in Images

\* What is at the two names can be run, and one of them is always there.
Kept ==
  /\ Good(self) /\ Good(old)
  /\ Exists(self) \/ Windows
  /\ Exists(self) \/ Exists(old)

\* A temporary file has an inode that nothing else has, and once it is verified it is
\* the release.
Pending(u) == update[u].at \in {"verify", "install", "moved"}
Fresh(u) ==
  /\ Pending(u) => update[u].tmp.ino \notin {0, self.ino, old.ino}
  /\ update[u].at \in {"install", "moved"} => update[u].tmp.img = update[u].expect
Apart == \A u, v \in Updaters :
  u # v /\ Pending(u) /\ Pending(v) => update[u].tmp.ino # update[v].tmp.ino

\* On Windows an update holds the file it runs from: another one can move it, and no one
\* can remove it.
Held(u) == Windows /\ update[u].at # "ended" => update[u].runs \in {self, old} \ {Nothing}

IInv == TypeOK /\ Kept /\ Apart /\ \A u \in Updaters : Fresh(u) /\ Held(u)

(***************************************************************************)
(* What the files are made of                                              *)
(***************************************************************************)
LEMMA NothingIs == Nothing.ino = 0 /\ Nothing.img = Corrupt /\ Corrupt \notin Images
BY UpdateAssumption DEF UpdateAssumption, Nothing, Images, Corrupt

\* The absent file has the type of a file.
LEMMA NothingIsFile == ASSUME made \in Nat PROVE Nothing \in File
BY DEF Nothing, File

\* A file says no less when more inodes have been given out.
LEMMA FilesGrow == ASSUME made \in Nat, made' \in Nat, made' >= made PROVE File \subseteq File'
BY DEF File

\* A process that is not running has the type of a process.
LEMMA EndedIsProcess == ASSUME IInv PROVE Ended \in Process /\ Ended.at = "ended"
<1>1. 0 \in Images
  BY UpdateAssumption DEF UpdateAssumption, Images
<1>2. Nothing \in File
  BY NothingIsFile DEF IInv, TypeOK
<1> QED
  BY <1>1, <1>2 DEF Ended, Process

\* Before any update the installed binary runs and no updater holds a temporary file.
LEMMA InitHolds == Init => IInv
<1> SUFFICES ASSUME Init PROVE IInv
  OBVIOUS
<1>1. 0 \in Images /\ starts \in 0..MaxStarts /\ made \in Nat
  BY UpdateAssumption DEF UpdateAssumption, Images, Init
<1>2. self \in File /\ old \in File /\ self # Nothing /\ self.ino # old.ino
  BY <1>1 DEF Init, File, Nothing
<1>3. Ended \in Process
  BY <1>1, <1>2 DEF Init, Ended, Process
<1>4. dash \in [at : {"watch", "restart", "ended"}, runs : File, base : 0..made]
  BY <1>1, <1>2 DEF Init
<1>5. TypeOK
  BY <1>1, <1>2, <1>3, <1>4 DEF Init, TypeOK
<1>6. Kept
  BY <1>1, <1>2 DEF Init, Kept, Good, Exists
<1>7. \A u \in Updaters : update[u].at = "ended"
  BY DEF Init, Ended
<1>8. Apart /\ \A u \in Updaters : Fresh(u) /\ Held(u)
  BY <1>7 DEF Apart, Fresh, Held, Pending
<1> QED
  BY <1>5, <1>6, <1>8 DEF IInv

(***************************************************************************)
(* Updates: every step keeps it                                            *)
(***************************************************************************)
\* Publishing, and whatever the dashboard does, touches no file.
LEMMA DashboardKeeps == IInv /\ (Publish \/ Watch \/ Restart \/ Quit \/ Run) => IInv'
<1> SUFFICES ASSUME IInv, Publish \/ Watch \/ Restart \/ Quit \/ Run PROVE IInv'
  OBVIOUS
<1>1. UNCHANGED <<os, self, old, made, update>>
  BY DEF Publish, Watch, Restart, Quit, Run, files
<1>2. UNCHANGED <<File, Process>>
  BY <1>1 DEF File, Process
<1>3. latest' \in Images
  BY UpdateAssumption
     DEF UpdateAssumption, IInv, TypeOK, Images, Publish, Watch, Restart, Quit, Run
<1>4. starts' \in 0..MaxStarts
  BY UpdateAssumption DEF UpdateAssumption, IInv, TypeOK, Publish, Watch, Restart, Quit, Run
<1>5. dash' \in [at : {"watch", "restart", "ended"}, runs : File, base : 0..made]
  <2>1. Nothing \in File
    BY NothingIsFile DEF IInv, TypeOK
  <2>2. self.ino \in 0..made
    BY DEF IInv, TypeOK, File
  <2>3. 0 \in 0..made
    BY DEF IInv, TypeOK
  <2>4. /\ self \in File
        /\ dash \in [at : {"watch", "restart", "ended"}, runs : File, base : 0..made]
    BY DEF IInv, TypeOK
  <2>5. CASE Publish
    BY <2>4, <2>5 DEF Publish
  <2>6. CASE Watch
    BY <2>2, <2>4, <2>6 DEF Watch
  <2>7. CASE Restart
    BY <2>1, <2>3, <2>4, <2>7 DEF Restart
  <2>8. CASE Quit
    BY <2>1, <2>4, <2>8 DEF Quit
  <2>9. CASE Run
    BY <2>3, <2>4, <2>9 DEF Run
  <2> QED
    BY <2>5, <2>6, <2>7, <2>8, <2>9
<1>6. TypeOK'
  BY <1>1, <1>2, <1>3, <1>4, <1>5 DEF IInv, TypeOK, Exists
<1> QED
  BY <1>1, <1>6 DEF IInv, Kept, Good, Exists, Windows, Apart, Fresh, Held, Pending

\* What an update does on its own: it goes on, or ends, with nothing new in its hands.
LEMMA OwnStep ==
  ASSUME IInv, NEW u \in Updaters, NEW r \in Process,
         update' = [update EXCEPT ![u] = r],
         UNCHANGED <<os, latest, files, starts, dash>>,
         r.at # "ended" => update[u].at # "ended" /\ r.runs = update[u].runs,
         r.at \in {"verify", "install", "moved"} => Pending(u) /\ r.tmp = update[u].tmp,
         r.at \in {"install", "moved"} => r.tmp.img = r.expect
  PROVE  IInv'
<1>1. UNCHANGED <<File, Process, self, old, made, os>>
  BY DEF File, Process, files
<1>2. TypeOK'
  BY <1>1 DEF IInv, TypeOK, Exists
<1>3. update'[u] = r /\ \A v \in Updaters \ {u} : update'[v] = update[v]
  BY DEF IInv, TypeOK
<1>4. \A v \in Updaters : /\ Pending(v)' => Pending(v) /\ update'[v].tmp = update[v].tmp
                          /\ update'[v].at # "ended" =>
                               update[v].at # "ended" /\ update'[v].runs = update[v].runs
                          /\ update'[v].at \in {"install", "moved"} =>
                               update'[v].tmp.img = update'[v].expect
  BY <1>3 DEF IInv, Pending, Fresh
<1>5. Kept'
  BY <1>1 DEF IInv, Kept, Good, Exists, Windows
<1>6. Apart'
  BY <1>4 DEF IInv, Apart
<1>7. ASSUME NEW v \in Updaters PROVE Fresh(v)' /\ Held(v)'
  BY <1>1, <1>4 DEF IInv, Fresh, Held, Windows
<1> QED
  BY <1>2, <1>5, <1>6, <1>7 DEF IInv

\* The steps between the command and the first rename.
LEMMA BeforeInstall ==
  ASSUME IInv, NEW u \in Updaters,
         Check(u) \/ Sums(u) \/ CurrentAlready(u) \/ verify(u) \/ Kill(u)
  PROVE  IInv'
<1>1. update[u] \in Process /\ latest \in Images
  BY DEF IInv, TypeOK
<1>2. Exit(u) /\ UNCHANGED <<os, latest, files, starts, dash>> => IInv'
  <2>1. Ended \in Process /\ Ended.at = "ended"
    BY EndedIsProcess
  <2> QED
    BY <2>1, OwnStep DEF Exit
<1>3. ASSUME NEW step \in {"download", "install"}, Goto(u, step),
             UNCHANGED <<os, latest, files, starts, dash>>,
             update[u].at # "ended",
             step = "install" => update[u].at = "verify" /\ Verified(u)
      PROVE  IInv'
  <2> DEFINE r == [update[u] EXCEPT !.at = step]
  <2>1. r \in Process
    BY <1>1 DEF Process
  <2>2. update' = [update EXCEPT ![u] = r]
    BY <1>3 DEF Goto, IInv, TypeOK
  <2>3. /\ r.at = step /\ r.runs = update[u].runs /\ r.tmp = update[u].tmp
        /\ r.expect = update[u].expect
    BY <1>1 DEF Process
  <2> HIDE DEF r
  <2> QED
    BY <1>3, <2>1, <2>2, <2>3, OwnStep DEF Pending, Verified
<1>4. CASE Check(u)
  <2> DEFINE r == [update[u] EXCEPT !.at = "sums", !.rel = latest]
  <2>1. r \in Process /\ r.at = "sums" /\ r.runs = update[u].runs
    BY <1>1 DEF Process
  <2>2. \/ update' = [update EXCEPT ![u] = r]
        \/ Exit(u)
    BY <1>4 DEF Check, IInv, TypeOK
  <2>3. UNCHANGED <<os, latest, files, starts, dash>> /\ update[u].at = "check"
    BY <1>4 DEF Check
  <2> HIDE DEF r
  <2> QED
    BY <1>2, <2>1, <2>2, <2>3, OwnStep
<1>5. CASE Sums(u)
  <2> DEFINE r == [update[u] EXCEPT !.at = "current", !.expect = update[u].rel]
  <2>1. r \in Process /\ r.at = "current" /\ r.runs = update[u].runs
    BY <1>1 DEF Process
  <2>2. \/ update' = [update EXCEPT ![u] = r]
        \/ Exit(u)
    BY <1>5 DEF Sums, IInv, TypeOK
  <2>3. UNCHANGED <<os, latest, files, starts, dash>> /\ update[u].at = "sums"
    BY <1>5 DEF Sums
  <2> HIDE DEF r
  <2> QED
    BY <1>2, <2>1, <2>2, <2>3, OwnStep
<1>6. CASE CurrentAlready(u)
  BY <1>2, <1>3, <1>6 DEF CurrentAlready
<1>7. CASE verify(u)
  BY <1>2, <1>3, <1>7 DEF verify
<1>8. CASE Kill(u)
  BY <1>2, <1>8 DEF Kill
<1> QED
  BY <1>4, <1>5, <1>6, <1>7, <1>8

\* The types, in a step of one update that may create, move or replace a file.
LEMMA FileStep ==
  ASSUME IInv, NEW u \in Updaters, made' \in Nat, made' >= made,
         NEW r \in Process', update' = [update EXCEPT ![u] = r],
         self' \in File', old' \in File', Exists(self)' => self'.ino # old'.ino,
         starts' \in 0..MaxStarts, UNCHANGED <<os, latest, dash>>
  PROVE  TypeOK' /\ update'[u] = r /\ \A v \in Updaters \ {u} : update'[v] = update[v]
<1>1. File \subseteq File' /\ Process \subseteq Process'
  <2>1. File \subseteq File'
    BY FilesGrow DEF IInv, TypeOK
  <2> QED
    BY <2>1 DEF Process
<1>2. update' \in [Updaters -> Process']
  BY <1>1 DEF IInv, TypeOK
<1>3. dash' \in [at : {"watch", "restart", "ended"}, runs : File', base : 0..made']
  <2>1. 0..made \subseteq 0..made'
    BY DEF IInv, TypeOK
  <2>2. dash \in [at : {"watch", "restart", "ended"}, runs : File, base : 0..made]
    BY DEF IInv, TypeOK
  <2> QED
    BY <1>1, <2>1, <2>2
<1>4. TypeOK'
  BY <1>2, <1>3 DEF IInv, TypeOK, Images
<1>5. update'[u] = r /\ \A v \in Updaters \ {u} : update'[v] = update[v]
  BY DEF IInv, TypeOK
<1> QED
  BY <1>4, <1>5

\* The command runs from the file that is installed.
LEMMA StartKeeps == ASSUME IInv, NEW u \in Updaters, Start(u) PROVE IInv'
<1> DEFINE r == [Ended EXCEPT !.at = "check", !.runs = self]
<1>1. r \in Process
  BY EndedIsProcess DEF IInv, TypeOK, Ended, Process
<1>2. r.at = "check" /\ r.runs = self
  BY DEF Ended
<1>3. UNCHANGED <<os, latest, self, old, made, dash, File, Process>>
  BY DEF Start, files, File, Process
<1>4. starts' \in 0..MaxStarts
  BY UpdateAssumption DEF UpdateAssumption, Start, IInv, TypeOK
<1>5. update' = [update EXCEPT ![u] = r] /\ self # Nothing
  BY DEF Start, Exists
<1> HIDE DEF r
<1>6. TypeOK' /\ update'[u] = r /\ \A v \in Updaters \ {u} : update'[v] = update[v]
  <2>1. self' \in File' /\ old' \in File' /\ made' \in Nat /\ made' >= made
    BY <1>3 DEF IInv, TypeOK
  <2>2. Exists(self)' => self'.ino # old'.ino
    BY <1>3 DEF IInv, TypeOK, Exists
  <2> QED
    BY <1>1, <1>3, <1>4, <1>5, <2>1, <2>2, FileStep
<1>7. Kept'
  BY <1>3 DEF IInv, Kept, Good, Exists, Windows
<1>8. Apart'
  BY <1>2, <1>6 DEF IInv, Apart, Pending
<1>9. \A v \in Updaters : Fresh(v)' /\ Held(v)'
  BY <1>2, <1>3, <1>5, <1>6 DEF IInv, Fresh, Held, Pending, Windows
<1> QED
  BY <1>6, <1>7, <1>8, <1>9 DEF IInv

\* A download has an inode of its own, whatever it holds.
LEMMA DownloadKeeps == ASSUME IInv, NEW u \in Updaters, download(u) PROVE IInv'
<1>1. CASE Exit(u) /\ UNCHANGED made
  <2>1. Ended \in Process /\ Ended.at = "ended"
    BY EndedIsProcess
  <2> QED
    BY <1>1, <2>1, OwnStep DEF Exit, download, files
<1>2. CASE ~(Exit(u) /\ UNCHANGED made)
  <2>1. PICK img \in {update[u].rel, Corrupt} :
          update' = [update EXCEPT ![u].at = "verify", ![u].tmp = [ino |-> made + 1, img |-> img]]
    BY <1>2 DEF download
  <2> DEFINE r == [update[u] EXCEPT !.at = "verify", !.tmp = [ino |-> made + 1, img |-> img]]
  <2>2. made' = made + 1 /\ made \in Nat /\ UNCHANGED <<os, latest, self, old, starts, dash>>
    BY <1>2 DEF download, IInv, TypeOK
  <2>3. File \subseteq File'
    BY <2>2, FilesGrow
  <2>4. r \in Process'
    <3>1. update[u] \in Process
      BY DEF IInv, TypeOK
    <3>2. [ino |-> made + 1, img |-> img] \in File'
      BY <2>2, <3>1 DEF File, Process, Images
    <3> QED
      BY <2>3, <3>1, <3>2 DEF Process, Images
  <2>5. r.at = "verify" /\ r.runs = update[u].runs /\ r.tmp.ino = made + 1
    BY DEF IInv, TypeOK, Process
  <2>6. update' = [update EXCEPT ![u] = r] /\ update[u].at = "download"
    BY <1>2, <2>1 DEF IInv, TypeOK, download
  <2> HIDE DEF r
  <2>7. TypeOK' /\ update'[u] = r /\ \A v \in Updaters \ {u} : update'[v] = update[v]
    <3>1. self' \in File' /\ old' \in File' /\ starts' \in 0..MaxStarts
      BY <2>2, <2>3 DEF IInv, TypeOK
    <3>2. Exists(self)' => self'.ino # old'.ino
      BY <2>2 DEF IInv, TypeOK, Exists
    <3>3. made' \in Nat /\ made' >= made /\ UNCHANGED <<os, latest, dash>>
      BY <2>2
    <3> QED
      BY <2>4, <2>6, <3>1, <3>2, <3>3, FileStep
  <2>8. /\ self.ino \in 0..made /\ old.ino \in 0..made
        /\ \A v \in Updaters : update[v].tmp.ino \in 0..made
    BY DEF IInv, TypeOK, File, Process
  <2>9. Kept'
    BY <2>2 DEF IInv, Kept, Good, Exists, Windows, Images
  <2>10. Apart'
    <3>1. \A v \in Updaters : update[v].tmp.ino # made + 1
      BY <2>2, <2>8
    <3> QED
      BY <2>5, <2>7, <3>1 DEF IInv, Apart, Pending
  <2>11. \A v \in Updaters : Fresh(v)' /\ Held(v)'
    <3>1. made + 1 \notin {0, self.ino, old.ino}
      BY <2>2, <2>8
    <3> QED
      BY <2>2, <2>5, <2>6, <2>7, <3>1 DEF IInv, Fresh, Held, Pending, Windows
  <2> QED
    BY <2>7, <2>9, <2>10, <2>11 DEF IInv
<1> QED
  BY <1>1, <1>2

\* Renames give out no inode.
LEMMA Renames ==
  ASSUME IInv, NEW u \in Updaters, NEW r \in Process, update' = [update EXCEPT ![u] = r],
         self' \in File, old' \in File, Exists(self)' => self'.ino # old'.ino,
         UNCHANGED <<os, latest, made, starts, dash>>
  PROVE  TypeOK' /\ update'[u] = r /\ \A v \in Updaters \ {u} : update'[v] = update[v]
<1>1. UNCHANGED <<File, Process>>
  BY DEF File, Process
<1>2. made' \in Nat /\ made' >= made /\ starts' \in 0..MaxStarts
  BY DEF IInv, TypeOK
<1> QED
  BY <1>1, <1>2, FileStep

\* What a running update holds is not removed, and moved at most to the other name.
LEMMA StillHeld ==
  ASSUME IInv, NEW u \in Updaters, NEW r, r.at # "ended" => r.runs = update[u].runs,
         update[u].at # "ended",
         update'[u] = r, \A v \in Updaters \ {u} : update'[v] = update[v],
         \A v \in Updaters :
           Windows /\ update[v].at # "ended" /\ update[v].runs \in {self, old} \ {Nothing}
             => update[v].runs \in {self', old'},
         UNCHANGED os
  PROVE  \A v \in Updaters : Held(v)'
BY DEF IInv, Held, Windows

\* Windows, first rename: nothing is run from the displaced name, so all hold what moves.
LEMMA DisplaceKeeps ==
  ASSUME IInv, NEW u \in Updaters, update[u].at = "install", Windows,
         Exists(self), ~Exists(Freed(u)), old' = self, self' = Vacated, Goto(u, "moved"),
         UNCHANGED <<os, latest, made, starts, dash>>
  PROVE  IInv'
<1> DEFINE r == [update[u] EXCEPT !.at = "moved"]
<1>1. /\ r \in Process /\ update' = [update EXCEPT ![u] = r]
      /\ r.at = "moved" /\ r.runs = update[u].runs /\ r.tmp = update[u].tmp
      /\ r.expect = update[u].expect
  BY DEF IInv, TypeOK, Process, Goto
<1> HIDE DEF r
<1>2. self' = Nothing /\ self' \in File /\ old' \in File
  BY NothingIsFile DEF IInv, TypeOK, Vacated
<1>3. TypeOK' /\ update'[u] = r /\ \A v \in Updaters \ {u} : update'[v] = update[v]
  BY <1>1, <1>2, Renames DEF Exists
<1>4. Kept'
  BY <1>2 DEF IInv, Kept, Good, Exists, Windows, Images
<1>5. Apart'
  BY <1>1, <1>3 DEF IInv, Apart, Pending
<1>6. \A v \in Updaters : Fresh(v)'
  BY <1>1, <1>2, <1>3, NothingIs DEF IInv, Fresh, Pending
<1>7. \A v \in Updaters : update[v].runs # old \/ old = Nothing
  BY DEF Freed, Locked, Exists
<1>8. \A v \in Updaters : Held(v)'
  BY <1>1, <1>3, <1>7, StillHeld
<1> QED
  BY <1>3, <1>4, <1>5, <1>6, <1>8 DEF IInv

\* Windows, refused: the displaced file goes only when nothing is run from it.
LEMMA RefusedKeeps ==
  ASSUME IInv, NEW u \in Updaters, update[u].at = "install", Windows,
         old' = Freed(u), UNCHANGED self, Exit(u), UNCHANGED <<os, latest, made, starts, dash>>
  PROVE  IInv'
<1>1. Ended \in Process /\ Ended.at = "ended"
  BY EndedIsProcess
<1>2. old' \in {old, Nothing} /\ (old' = old \/ \A v \in Updaters : update[v].runs # old)
  BY DEF Freed, Locked
<1>3. self' \in File /\ old' \in File
  BY <1>2, NothingIsFile DEF IInv, TypeOK
<1>4. Exists(self)' => self'.ino # old'.ino
  BY <1>2, NothingIs DEF IInv, TypeOK, Kept, Good, Exists
<1>5. TypeOK' /\ update'[u] = Ended /\ \A v \in Updaters \ {u} : update'[v] = update[v]
  BY <1>1, <1>3, <1>4, Renames DEF Exit
<1>6. \A v \in Updaters : Held(v)'
  BY <1>1, <1>2, <1>5, StillHeld
<1>7. Exists(self) \/ old' = old
  BY <1>2 DEF IInv, Held, Exists
<1>8. Kept'
  BY <1>2, <1>7 DEF IInv, Kept, Good, Exists, Windows, Images
<1>9. Apart'
  BY <1>1, <1>5 DEF IInv, Apart, Pending
<1>10. \A v \in Updaters : Fresh(v)'
  BY <1>1, <1>2, <1>5, NothingIs DEF IInv, Fresh, Pending
<1> QED
  BY <1>5, <1>6, <1>8, <1>9, <1>10 DEF IInv

\* A verified download takes the installed name: at once on Unix, and the name that was
\* vacated on Windows.
LEMMA ReplaceKeeps ==
  ASSUME IInv, NEW u \in Updaters, update[u].at \in {"install", "moved"},
         Windows => ~Exists(self),
         self' = update[u].tmp, UNCHANGED old, Exit(u),
         UNCHANGED <<os, latest, made, starts, dash>>
  PROVE  IInv'
<1>1. Ended \in Process /\ Ended.at = "ended"
  BY EndedIsProcess
<1>2. /\ update[u].tmp \in File /\ update[u].expect \in Images
      /\ made \in Nat /\ old \in File
  BY DEF IInv, TypeOK, Process
<1>3. /\ self'.img \in Images /\ self'.ino # 0 /\ self'.ino # old.ino
      /\ self'.ino \in 0..made
  BY <1>2 DEF IInv, Fresh, Pending, File
<1>4. TypeOK' /\ update'[u] = Ended /\ \A v \in Updaters \ {u} : update'[v] = update[v]
  BY <1>1, <1>2, <1>3, Renames DEF Exit
<1>5. \A v \in Updaters : Held(v)'
  BY <1>1, <1>4, StillHeld DEF Exists
<1>6. self' # Nothing
  BY <1>3, NothingIs
<1>7. Kept'
  BY <1>2, <1>3, <1>6 DEF IInv, Kept, Good, Exists, Windows, Images
<1>8. Apart'
  BY <1>1, <1>4 DEF IInv, Apart, Pending
<1>9. \A v \in Updaters : Fresh(v)'
  BY <1>1, <1>4 DEF IInv, Fresh, Apart, Pending
<1> QED
  BY <1>4, <1>5, <1>7, <1>8, <1>9 DEF IInv

\* The way back gives the image the name it had.
LEMMA PutBackKeeps ==
  ASSUME IInv, NEW u \in Updaters, update[u].at = "restore",
         Exists(old), ~Exists(self), self' = old, old' = Nothing, Exit(u),
         UNCHANGED <<os, latest, made, starts, dash>>
  PROVE  IInv'
<1>1. Ended \in Process /\ Ended.at = "ended"
  BY EndedIsProcess
<1>2. self' \in File /\ old' \in File /\ self'.ino > 0 /\ old'.ino = 0
  BY NothingIsFile, NothingIs DEF IInv, TypeOK, Kept, Good
<1>3. self'.ino # old'.ino
  BY <1>2 DEF IInv, TypeOK, File
<1>4. TypeOK' /\ update'[u] = Ended /\ \A v \in Updaters \ {u} : update'[v] = update[v]
  BY <1>1, <1>2, <1>3, Renames DEF Exit
<1>5. \A v \in Updaters : Held(v)'
  BY <1>1, <1>4, StillHeld DEF Exists
<1>6. Kept'
  BY DEF IInv, Kept, Good, Exists, Windows, Images
<1>7. Apart'
  BY <1>1, <1>4 DEF IInv, Apart, Pending
<1>8. \A v \in Updaters : Fresh(v)'
  BY <1>1, <1>2, <1>4 DEF IInv, Fresh, Pending
<1> QED
  BY <1>4, <1>5, <1>6, <1>7, <1>8 DEF IInv

\* The renames of an install, and of undoing it, leave an image that runs at one of the
\* two names (install).
LEMMA InstallKeeps ==
  ASSUME IInv, NEW u \in Updaters, install(u) \/ InstallMoved(u) \/ Restore(u)
  PROVE  IInv'
<1>1. Exit(u) /\ UNCHANGED <<os, latest, files, starts, dash>> => IInv'
  BY EndedIsProcess, OwnStep DEF Exit
<1>2. Exists(self) \/ Windows
  BY DEF IInv, Kept
<1>3. CASE install(u)
  <2>1. CASE Windows
    BY <1>3, <2>1, DisplaceKeeps, RefusedKeeps DEF install
  <2>2. CASE ~Windows
    BY <1>1, <1>3, <2>2, ReplaceKeeps DEF install, files
  <2> QED
    BY <2>1, <2>2
<1>4. CASE InstallMoved(u)
  <2>1. CASE Goto(u, "restore") /\ UNCHANGED <<self, old>>
    <3> DEFINE r == [update[u] EXCEPT !.at = "restore"]
    <3>1. /\ r \in Process /\ update' = [update EXCEPT ![u] = r]
          /\ r.at = "restore" /\ r.runs = update[u].runs
      BY <2>1 DEF Goto, IInv, TypeOK, Process
    <3>2. UNCHANGED <<os, latest, files, starts, dash>> /\ update[u].at = "moved"
      BY <1>4, <2>1 DEF InstallMoved, files
    <3> HIDE DEF r
    <3> QED
      BY <3>1, <3>2, OwnStep
  <2>2. CASE ~Exists(self) /\ self' = update[u].tmp /\ UNCHANGED old /\ Exit(u)
    BY <1>4, <2>2, ReplaceKeeps DEF InstallMoved
  <2> QED
    BY <1>4, <2>1, <2>2 DEF InstallMoved
<1>5. CASE Restore(u)
  BY <1>1, <1>5, PutBackKeeps DEF Restore, files
<1> QED
  BY <1>3, <1>4, <1>5

\* Every step of every updater keeps the invariant.
LEMMA NextKeeps == IInv /\ [Next]_vars => IInv'
<1> SUFFICES ASSUME IInv, [Next]_vars PROVE IInv'
  OBVIOUS
<1>1. CASE UNCHANGED vars
  <2>1. UNCHANGED <<os, latest, self, old, made, starts, update, dash>>
    BY <1>1 DEF vars, files
  <2>2. UNCHANGED <<File, Process>>
    BY <2>1 DEF File, Process
  <2>3. TypeOK'
    BY <2>1, <2>2 DEF IInv, TypeOK, Exists
  <2> QED
    BY <2>1, <2>3 DEF IInv, Kept, Good, Exists, Windows, Apart, Fresh, Held, Pending
<1>2. CASE Publish \/ Watch \/ Restart \/ Quit \/ Run
  BY <1>2, DashboardKeeps
<1>3. ASSUME NEW u \in Updaters, Start(u) \/ applyTo(u) \/ Kill(u) PROVE IInv'
  BY <1>3, StartKeeps, BeforeInstall, DownloadKeeps, InstallKeeps DEF applyTo
<1> QED
  BY <1>1, <1>2, <1>3 DEF Next

\* The invariant holds in every state the program reaches.
THEOREM Invariant == Spec => []IInv
BY InitHolds, NextKeeps, PTL DEF Spec

(***************************************************************************)
(* Updates: the theorems                                                   *)
(***************************************************************************)
\* Nothing unverified is ever under the name that users run, and on Unix there always is
\* something (applyTo, install).
THEOREM AlwaysRunnable == Spec => []Runnable
<1>1. IInv => Runnable
  BY DEF IInv, Kept, Good, Runnable
<1> QED
  BY <1>1, Invariant, PTL

\* At any instant, interrupted wherever it may be, an update leaves an image that runs at
\* one of the two names (install).
THEOREM AlwaysInstalled == Spec => []NeverBare
<1>1. IInv /\ Runnable => NeverBare
  BY DEF IInv, Kept, Good, NeverBare
<1> QED
  BY <1>1, Invariant, AlwaysRunnable, PTL
=============================================================================
