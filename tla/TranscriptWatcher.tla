------------------------- MODULE TranscriptWatcher -------------------------
(***************************************************************************)
(* agentusage.Watcher for an agent that keeps its usage in transcript      *)
(* files (agentusage/watch.go).  Agents append lines to transcripts; the   *)
(* watcher attaches once and then polls: it lists the recent transcripts,  *)
(* reads what each one gained since the last poll and folds the records    *)
(* of its own working directory into a cumulative sample.                  *)
(*                                                                         *)
(* A line is three units long on disk: half of its body, the rest of its   *)
(* body, and its newline.  A size or an offset is a number of units, so    *)
(* an offset can point inside a record, which is what torn writes and      *)
(* records straddling the attach come down to.                             *)
(***************************************************************************)
EXTENDS Integers, Sequences, FiniteSets, FiniteSetsExt, Functions

CONSTANTS
  Files,           \* the transcripts of the agent's store
  NoFile,          \* "no transcript": not a file
  Adapters,        \* the kinds of adapters a watcher is built with
  TailFrames,      \* zstdTailBytes, in frames: what one poll reads of such a file
  OwnerScanLines,  \* ownerScanLines: how deep the header is looked for
  MaxHistory,      \* bound: lines a transcript holds when the watcher attaches
  MaxLines,        \* bound: lines a transcript can hold
  MaxRewrites,     \* bound: how often a transcript is replaced by a fresh one
  MaxFaults        \* bound: failed stat, open or read calls

ASSUME WatcherAssumption ==
  /\ NoFile \notin Files /\ IsFiniteSet(Files)
  /\ Adapters \subseteq
       [headerCwd  : BOOLEAN,   \* sessionCwd # nil: the cwd is in a session header
        cumulative : BOOLEAN,   \* kind = cumulative
        zstd       : BOOLEAN]   \* isDshZstd: a record is a compressed frame
  /\ \A a \in Adapters : a.zstd => a.headerCwd /\ ~a.cumulative    \* dsh
  /\ TailFrames \in Nat \ {0}
  /\ OwnerScanLines \in Nat \ {0}
  /\ MaxLines \in Nat
  /\ MaxHistory \in 0..MaxLines
  /\ MaxRewrites \in Nat
  /\ MaxFaults \in Nat

VARIABLES
  \* The store.
  text,         \* file -> the lines begun so far
  phase,        \* file -> units of its last line on disk (3: line terminated)
  gen,          \* file -> how often it was replaced; stands for its mtime
  recent,       \* files written within recencyWindow
  unpolled,     \* files with writes no poll has looked at without a failure
  swapped,      \* files replaced since the watcher last stat'ed them
  \* The watcher.
  ad,           \* its adapter, fixed when it is built
  offsets, preexisting, stamps, owner, base, seen, total,
  cached,       \* the listing polls work from
  scanned,      \* FALSE: w.scanned is the zero time, the next listing is forced
  sample,
  \* The call under way.
  pc,           \* "attach" (in Watch), "idle", "poll" (holding pollMu)
  todo,         \* files of the listing still to be visited
  cur,          \* the transcript between its stat and its read, and that stat
  faults,
  \* History, read by the properties only.
  mark,         \* file -> its size when the watcher attached
  tracked,      \* files whose end at attach the watcher has known all along
  credit,       \* file -> line -> how often its record was applied
  used          \* file -> own records completed since the attach

store   == <<text, phase, gen, recent, unpolled, swapped>>
books   == <<offsets, preexisting, stamps, owner, base, seen, total>>
listing == <<cached, scanned>>
call    == <<pc, todo, cur>>
history == <<mark, tracked, credit, used>>
vars    == <<ad, store, books, listing, sample, call, faults, history>>

(***************************************************************************)
(* The store                                                               *)
(***************************************************************************)
\* What a line can be.  An adapter whose records repeat the cwd sees "mine"
\* and "other"; one that reads a header sees "headMine" or "headOther" and
\* then "use".  "junk" parses to nothing.
Headers  == {"headMine", "headOther"}
LineKinds == IF ad.headerCwd THEN Headers \cup {"use", "junk"}
                          ELSE {"mine", "other", "junk"}

Terminated == 3
SizeOf(lines, ph) == IF lines = <<>> THEN 0 ELSE 3 * (Len(lines) - 1) + ph
Size(f) == SizeOf(text[f], phase[f])
Exists(f) == text[f] # <<>>

HasHeader(lines) == \E i \in 1..Len(lines) : lines[i] \in Headers

\* Usage follows the one header of a session, which dsh writes first.
MayFollow(lines, l) ==
  ad.headerCwd => /\ l \in Headers => ~HasHeader(lines)
                  /\ l = "use" => HasHeader(lines)
                  /\ ad.zstd /\ lines = <<>> => l \in Headers

\* adapter.parse succeeds on a whole body of this kind.
Parses(l) == l \in {"mine", "other", "use"}

\* The record is this working directory's, as far as the line itself says.
Collected(l) == l \in {"mine", "use"}

\* The record is this working directory's in truth.
Own(lines, i) == /\ Collected(lines[i])
                 /\ ad.headerCwd => \E j \in 1..Len(lines) : lines[j] = "headMine"

\* The counter a record carries: one message's tokens, or the session's so far.
Output(lines, i) ==
  IF ad.cumulative THEN Cardinality({j \in 1..i : Collected(lines[j])}) ELSE 1

\* The record in line i is complete in a file of this size: its body is on
\* disk, or, of a compressed frame, all of it.
CompleteIn(size, i) == IF ad.zstd THEN 3 * i <= size ELSE 3 * i - 1 <= size

\* A write makes the file recent, and the watcher has yet to look at it.
Written(f) == /\ recent' = recent \cup {f}
              /\ unpolled' = unpolled \cup {f}

\* During Watch, files of the walk that are still to be stat'ed.
Unmarked == IF pc = "attach" THEN todo ELSE {}

\* A write that completes the last record of a file; the record counts as this
\* attach's once the watcher has marked the end of the file.
Completes(f, size) ==
  used' = IF /\ CompleteIn(size, Len(text[f]))
             /\ ~CompleteIn(Size(f), Len(text[f]))
             /\ Own(text[f], Len(text[f]))
             /\ f \notin Unmarked
          THEN [used EXCEPT ![f] = @ + 1] ELSE used

\* A replaced transcript is polled before it outgrows what was read of its
\* predecessor: polls come every pollEvery, a quarter of a second.
StaysShort(f, size) == f \in swapped => size < offsets[f]

BeginLine(f, l) ==
  /\ Len(text[f]) < MaxLines
  /\ Exists(f) => phase[f] = Terminated
  /\ MayFollow(text[f], l)
  /\ StaysShort(f, Size(f) + 1)
  /\ text' = [text EXCEPT ![f] = Append(@, l)]
  /\ phase' = [phase EXCEPT ![f] = 1]
  /\ Written(f)
  /\ UNCHANGED <<ad, gen, swapped, books, listing, sample, call, faults, history>>

ExtendLine(f) ==
  /\ Exists(f)
  /\ phase[f] < Terminated
  /\ StaysShort(f, Size(f) + 1)
  /\ phase' = [phase EXCEPT ![f] = @ + 1]
  /\ Completes(f, Size(f) + 1)
  /\ Written(f)
  /\ UNCHANGED <<ad, text, gen, swapped, books, listing, sample, call, faults,
                 mark, tracked, credit>>

NoCredit == [i \in 1..MaxLines |-> 0]

\* A session is rewritten from its start, into the file the watcher follows.
Rewrite(f, l) ==
  /\ pc # "attach"
  /\ gen[f] < MaxRewrites
  /\ offsets[f] > 1
  /\ MayFollow(<<>>, l)
  /\ text' = [text EXCEPT ![f] = <<l>>]
  /\ phase' = [phase EXCEPT ![f] = 1]
  /\ gen' = [gen EXCEPT ![f] = @ + 1]
  /\ swapped' = swapped \cup {f}
  /\ Written(f)
  /\ mark' = [mark EXCEPT ![f] = 0]
  /\ credit' = [credit EXCEPT ![f] = NoCredit]
  /\ UNCHANGED <<ad, books, listing, sample, call, faults, tracked, used>>

\* recencyWindow passes without a write.  It is two minutes, polls come four
\* times a second and the store is walked every second: a file does not age
\* before a poll got to look at what was written.
Age(f) ==
  /\ f \in recent \ unpolled
  /\ cur # NoFile => cur.file # f
  /\ recent' = recent \ {f}
  /\ UNCHANGED <<ad, text, phase, gen, unpolled, swapped, books, listing, sample,
                 call, faults, history>>

(***************************************************************************)
(* Listing the store                                                       *)
(***************************************************************************)
Absent == -1       \* a key a map does not hold, where that matters
NoStamp == <<0, 0>>
Stamp(f) == <<gen[f], Size(f)>>

walkTranscripts == {f \in recent : Exists(f)}

\* A plausible bug: files this attach has counted are not kept.
KeepUncounted(live) ==
  live \cup {f \in Files : owner[f] = "mine"}
       \cup (IF ad.headerCwd THEN {} ELSE preexisting)

\* The paths forgetIdle keeps: live ones, counted ones, owned ones and, when
\* records carry their own cwd, the ones that were there at attach.
Keep(live) ==
  live \cup {f \in Files : seen[f] # Absent}
       \cup {f \in Files : owner[f] = "mine"}
       \cup (IF ad.headerCwd THEN {} ELSE preexisting)

\* Files forgotten while owns has yet to decide whose they are.
Lapsing(live) ==
  {f \in preexisting \ live : ad.headerCwd /\ owner[f] = "unknown"}

\* dropFile on every path not kept.
forgetIdle(live) ==
  LET keep == Keep(live)
      Drop(m, none) == [f \in Files |-> IF f \in keep THEN m[f] ELSE none]
  IN /\ stamps' = Drop(stamps, NoStamp)
     /\ offsets' = Drop(offsets, 0)
     /\ owner' = Drop(owner, "unknown")
     /\ preexisting' = preexisting \cap keep
     /\ base' = Drop(base, Absent)
     /\ total' = Drop(total, 0)
     /\ tracked' = tracked \ Lapsing(live)
     /\ UNCHANGED seen

\* candidates: a poll works from the last listing until rescanEvery is over.
PollCached ==
  /\ pc = "idle"
  /\ scanned
  /\ pc' = "poll"
  /\ todo' = cached
  /\ UNCHANGED <<ad, store, books, listing, sample, cur, faults, history>>

\* candidates, past rescanEvery or forced: a walk of the store.  Unless it is
\* forced it may be the walk another watcher of the root made within
\* rescanEvery, which lacks files written since.
PollRescan ==
  /\ pc = "idle"
  /\ \E missed \in SUBSET (IF scanned THEN unpolled ELSE {}) :
       LET live == walkTranscripts \ missed
       IN /\ forgetIdle(live)
          /\ cached' = live
          /\ todo' = live
  /\ scanned' = TRUE
  /\ pc' = "poll"
  /\ UNCHANGED <<ad, store, sample, cur, faults, mark, credit, used>>

\* Poll clears the stamp of the listing, so that the next one is forced.
Poll ==
  /\ pc = "idle"
  /\ scanned
  /\ scanned' = FALSE
  /\ UNCHANGED <<ad, store, books, cached, sample, call, faults, history>>

(***************************************************************************)
(* Reading one transcript                                                  *)
(***************************************************************************)
\* Units of whole lines or frames at the front of a file.
Whole(size) == size \div 3

\* The first line a reader positioned at off can see the start of.
FirstFrom(off) == (off + 2) \div 3 + 1

\* consumeAppend: whole lines, and a last one without its newline once it
\* parses.  consumeZstd: whole frames within the window, none of them if off
\* is inside one.
LastRead(lines, size, off) ==
  IF ad.zstd
  THEN IF off % 3 # 0 THEN 0
       ELSE IF Whole(size) <= Whole(off) + TailFrames THEN Whole(size)
                                                      ELSE Whole(off) + TailFrames
  ELSE IF /\ size % 3 = 2
          /\ FirstFrom(off) <= Whole(size) + 1
          /\ Parses(lines[Whole(size) + 1])
       THEN Whole(size) + 1 ELSE Whole(size)

\* A plausible bug: a position in the file is taken for a count of bytes read.
CommittedTwice(lines, size, off) == off + 3 * LastRead(lines, size, off)

\* The offset that read commits.
Committed(lines, size, off) ==
  LET last == LastRead(lines, size, off)
  IN IF last > Whole(size) THEN size ELSE IF 3 * last > off THEN 3 * last ELSE off

\* The lines whose records it returns.
Records(lines, size, off) ==
  {i \in FirstFrom(off)..LastRead(lines, size, off) : Collected(lines[i])}

\* owns, for a file whose verdict is not cached: the header is looked for in
\* the opening lines, or in the opening frames that are complete.
Scanned(lines, size) ==
  LET n == IF ad.zstd THEN Whole(size) ELSE Len(lines)
  IN {i \in 1..n : i <= OwnerScanLines /\ CompleteIn(size, i)}

Undecided(lines, size) == IF ad.zstd THEN Whole(size) = 0
                                  ELSE Len(lines) < OwnerScanLines

\* A plausible bug: no header yet is a refusal.
HastyVerdict(lines, size) ==
  IF \E i \in Scanned(lines, size) : lines[i] = "headMine" THEN "mine" ELSE "other"

HeaderVerdict(lines, size) ==
  LET heads == {i \in Scanned(lines, size) : lines[i] \in Headers}
  IN IF heads # {}
     THEN IF \E i \in heads : lines[i] = "headMine" THEN "mine" ELSE "other"
     ELSE IF Undecided(lines, size) THEN "unknown" ELSE "other"

Fault == faults < MaxFaults /\ faults' = faults + 1

\* The poll is at f, and looks at it now.
At(f) == /\ pc = "poll"
         /\ cur = NoFile
         /\ f \in todo
         /\ UNCHANGED <<ad, text, phase, gen, recent, preexisting, base, seen,
                        total, listing, sample, pc, history>>

\* The stat of f succeeds; what follows fails, or does not.
Visits(f) == At(f) /\ swapped' = swapped \ {f}
Fails     == Fault /\ UNCHANGED unpolled
Passes(f) == unpolled' = unpolled \ {f} /\ UNCHANGED faults

Leaves(f) == todo' = todo \ {f} /\ UNCHANGED cur

\* A shrink is a rotation: read from the start, under a new owner verdict.
Shrunk(f) == Size(f) < offsets[f]
OffsetNow(f) == IF Shrunk(f) THEN 0 ELSE offsets[f]

\* A plausible bug: a rotated file keeps the verdict of its predecessor.
OwnerKept(f) == owner[f]
OwnerNow(f)  == IF Shrunk(f) THEN "unknown" ELSE owner[f]

StatFails(f) ==
  /\ At(f)
  /\ Fault
  /\ Leaves(f)
  /\ UNCHANGED <<unpolled, swapped, offsets, stamps, owner>>

\* Untouched since the last completed read.
Untouched(f) ==
  /\ Visits(f)
  /\ stamps[f] = Stamp(f)
  /\ Passes(f)
  /\ Leaves(f)
  /\ UNCHANGED <<offsets, stamps, owner>>

\* owns cannot open the file, or finds no header yet: no verdict, no stamp.
Undetermined(f) ==
  /\ Visits(f)
  /\ stamps[f] # Stamp(f)
  /\ ad.headerCwd
  /\ OwnerNow(f) = "unknown"
  /\ \/ Fails
     \/ HeaderVerdict(text[f], Size(f)) = "unknown" /\ Passes(f)
  /\ offsets' = [offsets EXCEPT ![f] = OffsetNow(f)]
  /\ owner' = [owner EXCEPT ![f] = OwnerNow(f)]
  /\ Leaves(f)
  /\ UNCHANGED stamps

\* The verdict of owns; without a session header it is left to each record.
Verdict(f) == IF ~ad.headerCwd THEN "mine"
              ELSE IF OwnerNow(f) # "unknown" THEN OwnerNow(f)
              ELSE HeaderVerdict(text[f], Size(f))

Decides(f, verdict) ==
  /\ Visits(f)
  /\ stamps[f] # Stamp(f)
  /\ Verdict(f) = verdict
  /\ owner' = [owner EXCEPT ![f] = IF ad.headerCwd THEN verdict ELSE OwnerNow(f)]

\* Another project's transcript is skipped to its end.
SkipForeign(f) ==
  /\ Decides(f, "other")
  /\ offsets' = [offsets EXCEPT ![f] = Size(f)]
  /\ stamps' = [stamps EXCEPT ![f] = Stamp(f)]
  /\ Passes(f)
  /\ Leaves(f)

\* The open failed, and the next poll retries; or there is nothing to read.
LeaveUnread(f) ==
  /\ Decides(f, "mine")
  /\ offsets' = [offsets EXCEPT ![f] = OffsetNow(f)]
  /\ \/ Fails /\ UNCHANGED stamps
     \/ /\ Size(f) = OffsetNow(f)
        /\ stamps' = [stamps EXCEPT ![f] = Stamp(f)]
        /\ Passes(f)
  /\ Leaves(f)

OpenFile(f) ==
  /\ Decides(f, "mine")
  /\ offsets' = [offsets EXCEPT ![f] = OffsetNow(f)]
  /\ Size(f) # OffsetNow(f)
  /\ cur' = [file |-> f, stamp |-> Stamp(f)]
  /\ Passes(f)
  /\ UNCHANGED <<todo, stamps>>

\* A plausible bug: what a session had spent before the attach is not set apart.
NoBaseline(f, recs) == IF base[f] # Absent THEN base[f] ELSE 0

\* What a session had spent when it became this attach's: the first counter read,
\* if the file was there at attach and its baseline could not be read then.
Baseline(f, recs) == IF base[f] # Absent THEN base[f]
                     ELSE IF f \in preexisting THEN Output(text[f], Min(recs)) ELSE 0

\* applyRecord over the records of one read, in the order of their lines.
applyRecords(f, recs) ==
  LET counted == IF seen[f] = Absent THEN 0 ELSE seen[f]
      start   == Baseline(f, recs)
      growth  == {Output(text[f], i) - start : i \in recs}
  IN IF recs = {} THEN UNCHANGED <<base, seen, total>>
     ELSE /\ total' = [total EXCEPT ![f] = Max(recs \cup {@})]
          /\ IF ad.cumulative
             THEN /\ base' = [base EXCEPT ![f] = start]
                  /\ seen' = [seen EXCEPT ![f] = Max(growth \cup {counted})]
             ELSE /\ seen' = [seen EXCEPT ![f] = counted + Cardinality(recs)]
                  /\ UNCHANGED base

\* A plausible bug: the file is stamped whatever the window left unread.
NeverCapped == FALSE

\* The window left frames unread; the file stays unstamped, so that they are.
Capped == ad.zstd /\ cur.stamp[2] - offsets[cur.file] > 3 * TailFrames

\* The read goes to the end the file has now; the stamp is that of the stat.
ReadFile ==
  LET f    == cur.file
      recs == Records(text[f], Size(f), offsets[f])
  IN
  /\ pc = "poll"
  /\ cur # NoFile
  /\ \/ /\ Fault   \* the read failed: nothing counted, nothing committed
        /\ unpolled' = unpolled \cup {f}
        /\ UNCHANGED <<offsets, stamps, base, seen, total, credit>>
     \/ /\ UNCHANGED faults
        /\ unpolled' = IF Capped THEN unpolled \cup {f} ELSE unpolled
        /\ applyRecords(f, recs)
        /\ offsets' = [offsets EXCEPT ![f] = Committed(text[f], Size(f), @)]
        /\ stamps' = [stamps EXCEPT ![f] = IF Capped THEN @ ELSE cur.stamp]
        /\ credit' = [credit EXCEPT ![f] =
             [i \in 1..MaxLines |-> IF i \in recs THEN @[i] + 1 ELSE @[i]]]
  /\ todo' = todo \ {f}
  /\ cur' = NoFile
  /\ UNCHANGED <<ad, text, phase, gen, recent, swapped, preexisting, owner, listing,
                 sample, pc, mark, tracked, used>>

(***************************************************************************)
(* The sample, and the attach                                              *)
(***************************************************************************)
Counted == SumFunction([f \in Files |-> IF seen[f] = Absent THEN 0 ELSE seen[f]])
Context == SumFunction(total)

\* A plausible bug: only the output decides whether the sample is replaced.
GrewOutput == Counted > sample.output

Grew == Counted > sample.output \/ Context > sample.total

Sums == [output |-> Counted, total |-> Context]

\* A plausible bug: the sample is that of the files listed, not of all counted.
RefreshedFromListing ==
  [output |-> SumFunctionOnSet(seen, {f \in cached : seen[f] # Absent}),
   total  |-> SumFunctionOnSet(total, cached)]

\* A plausible bug: the sums are added to the sample as if they were growth.
RefreshedTwice ==
  IF Grew THEN [output |-> sample.output + Counted, total |-> sample.total + Context] ELSE sample

\* The sample is replaced, whole, when a counter grew.
Refreshed == IF Grew THEN Sums ELSE sample

\* poll, once every file was read.
EndPoll ==
  /\ pc = "poll"
  /\ cur = NoFile
  /\ todo = {}
  /\ sample' = Refreshed
  /\ pc' = "idle"
  /\ UNCHANGED <<ad, store, books, listing, todo, cur, faults, history>>

\* Watch records where a file of its walk ends.
AttachStat(f) ==
  /\ pc = "attach"
  /\ cur = NoFile
  /\ f \in todo
  /\ \/ /\ Fault
        /\ UNCHANGED <<offsets, preexisting, mark, tracked, cur>>
     \/ /\ UNCHANGED faults
        /\ offsets' = [offsets EXCEPT ![f] = Size(f)]
        /\ preexisting' = preexisting \cup {f}
        /\ mark' = [mark EXCEPT ![f] = Size(f)]
        /\ tracked' = tracked \cup {f}
        /\ cur' = IF ad.cumulative THEN [file |-> f, stamp |-> Stamp(f)] ELSE NoFile
  /\ todo' = todo \ {f}
  /\ UNCHANGED <<ad, store, stamps, owner, base, seen, total, listing, sample, pc,
                 credit, used>>

\* seedBaseline: what the session had spent, to the end the file has now.
seedBaseline ==
  LET f    == cur.file
      recs == Records(text[f], Size(f), 0)
  IN
  /\ pc = "attach"
  /\ cur # NoFile
  /\ \/ Fault /\ UNCHANGED base
     \/ /\ UNCHANGED faults
        /\ base' = IF recs = {} THEN base
                   ELSE [base EXCEPT ![f] = Max({Output(text[f], i) : i \in recs})]
  /\ cur' = NoFile
  /\ UNCHANGED <<ad, store, offsets, preexisting, stamps, owner, seen, total, listing,
                 sample, pc, todo, history>>

\* The listing stays unstamped: the first poll walks again.
AttachDone ==
  /\ pc = "attach"
  /\ cur = NoFile
  /\ todo = {}
  /\ pc' = "idle"
  /\ UNCHANGED <<ad, store, books, listing, sample, todo, cur, faults, history>>

(***************************************************************************)
(* The specification                                                       *)
(***************************************************************************)
\* What sessions may have written before the watcher attaches.
Sessions ==
  {s \in UNION {[1..n -> LineKinds] : n \in 0..MaxHistory} :
     \A i \in 1..Len(s) : MayFollow(SubSeq(s, 1, i - 1), s[i])}

Init ==
  /\ ad \in Adapters
  /\ text \in [Files -> Sessions]
  /\ phase \in [Files -> 1..Terminated]
  /\ \A f \in Files : text[f] = <<>> => phase[f] = Terminated
  /\ gen = [f \in Files |-> 0]
  /\ recent \in SUBSET {f \in Files : Exists(f)}
  /\ unpolled = {}
  /\ swapped = {}
  /\ offsets = [f \in Files |-> 0]
  /\ preexisting = {}
  /\ stamps = [f \in Files |-> NoStamp]
  /\ owner = [f \in Files |-> "unknown"]
  /\ base = [f \in Files |-> Absent]
  /\ seen = [f \in Files |-> Absent]
  /\ total = [f \in Files |-> 0]
  /\ cached = walkTranscripts
  /\ scanned = FALSE
  /\ sample = [output |-> 0, total |-> 0]
  /\ pc = "attach"
  /\ todo = walkTranscripts
  /\ cur = NoFile
  /\ faults = 0
  /\ mark = [f \in Files |-> Size(f)]
  /\ tracked = {f \in Files : ~Exists(f)}
  /\ credit = [f \in Files |-> NoCredit]
  /\ used = [f \in Files |-> 0]

\* The poller: the goroutine of Run, or the caller of Poll, under pollMu.
Reader(f) ==
  \/ AttachStat(f)
  \/ StatFails(f)
  \/ Untouched(f)
  \/ Undetermined(f)
  \/ SkipForeign(f)
  \/ LeaveUnread(f)
  \/ OpenFile(f)

Writer(f) ==
  \/ \E l \in LineKinds : BeginLine(f, l)
  \/ ExtendLine(f)
  \/ \E l \in LineKinds : Rewrite(f, l)
  \/ Age(f)

Next ==
  \/ \E f \in Files : Reader(f)
  \/ \E f \in Files : Writer(f)
  \/ seedBaseline
  \/ AttachDone
  \/ PollCached
  \/ PollRescan
  \/ ReadFile
  \/ EndPoll
  \/ Poll

\* Run's ticker keeps polling and rescanEvery passes, so that the store is walked
\* over and over.  Agents may stop writing at any point.
Fairness ==
  /\ \A f \in Files : WF_vars(Reader(f))
  /\ WF_vars(seedBaseline \/ AttachDone \/ ReadFile \/ EndPoll)
  /\ SF_vars(PollRescan /\ todo' = walkTranscripts)

Spec == Init /\ [][Next]_vars
FairSpec == Spec /\ Fairness

(***************************************************************************)
(* Properties                                                              *)
(***************************************************************************)
Sizes == 0..(3 * MaxLines)

\* The types of the store, of the watcher's maps and of the call under way.
TypeOK ==
  /\ ad \in Adapters
  /\ text \in [Files -> Seq(LineKinds)]
  /\ \A f \in Files : Len(text[f]) <= MaxLines
  /\ phase \in [Files -> 1..Terminated]
  /\ gen \in [Files -> 0..MaxRewrites]
  /\ recent \subseteq Files /\ unpolled \subseteq Files /\ swapped \subseteq Files
  /\ offsets \in [Files -> Sizes]
  /\ preexisting \subseteq Files
  /\ stamps \in [Files -> (0..MaxRewrites) \X Sizes]
  /\ owner \in [Files -> {"unknown", "mine", "other"}]
  /\ cached \subseteq Files /\ todo \subseteq Files
  /\ scanned \in BOOLEAN
  /\ pc \in {"attach", "idle", "poll"}
  /\ cur \in {NoFile} \cup [file : Files, stamp : (0..MaxRewrites) \X Sizes]
  /\ faults \in 0..MaxFaults
  /\ mark \in [Files -> Sizes]
  /\ tracked \subseteq Files
  /\ credit \in [Files -> [1..MaxLines -> Nat]]

\* The line began after the watcher marked the end of its file.
AfterAttach(f, i) == f \notin Unmarked /\ 3 * (i - 1) >= mark[f]

\* A record is counted at most once, and only if it is this directory's and was
\* begun after the watcher attached: the offsets, the owner cache, torn tails,
\* failed reads, rotations and forgotten files never add up to a second count
\* or to a count of somebody else's record (readNew, forgetIdle, owns).
CreditSound ==
  \A f \in tracked :
    \A i \in 1..MaxLines : credit[f][i] > 0 =>
      /\ credit[f][i] = 1
      /\ i <= Len(text[f])
      /\ Own(text[f], i)
      /\ AfterAttach(f, i)

\* The contribution of a file is never more than what its agent spent since the
\* attach, whichever way its numbers accumulate (applyRecord, seedBaseline).
NeverInvents ==
  \A f \in tracked : seen[f] # Absent => seen[f] <= used[f]

\* The sample never goes back (poll, forgetIdle: "without losing counts").
SampleMonotone ==
  [][sample'.output >= sample.output /\ sample'.total >= sample.total]_sample

\* The watcher is a meter: the output it shows was spent since the attach, file by file,
\* and neither of its counters goes back.  A transcript whose end at attach it did not
\* learn is taken at its word (poll).
Spent == SumFunction([f \in Files |-> used[f] +
                        IF f \in tracked \/ seen[f] = Absent THEN 0 ELSE seen[f]])
Meter == INSTANCE UsageMeter WITH Counters <- {"output"},
  due <- [c \in {"output"} |-> Spent], shown <- [c \in {"output"} |-> sample.output]
ImplementsMeter == Meter!MeterSpec /\ SampleMonotone

\* The session header is where owns looks for it, and not in the last line it
\* looks at: torn there, it is refused for good.
Attributable(f) ==
  ad.headerCwd => \E i \in 1..Len(text[f]) : i < OwnerScanLines /\ text[f][i] \in Headers

\* The attach did not land inside a compressed frame: the reader of frames finds
\* no way back from there to the start of one.
Aligned(f) == ad.zstd => mark[f] % 3 = 0

\* A record that is to be counted: begun after the attach, and complete.
Due(f, i) == /\ i <= Len(text[f])
             /\ CompleteIn(Size(f), i)
             /\ Own(text[f], i)
             /\ Attributable(f)
             /\ AfterAttach(f, i)

\* The records of a transcript that are still to be counted.
Owed(f) == {i \in 1..MaxLines : Aligned(f) /\ Due(f, i) /\ credit[f][i] = 0}

\* A transcript whose stamp matches is not read again, so it must hide no
\* record that is still to be counted: the stamp is that of the stat before the
\* read, and a read that failed or was capped leaves none (readNew).
SkipHidesNothing ==
  \A f \in Files : stamps[f] = Stamp(f) =>
    \A i \in 1..MaxLines : Aligned(f) /\ Due(f, i) => credit[f][i] > 0

\* Between polls the sample is the sum over all files, those forgotten included:
\* replacing it whole when one counter grew loses none of the others (poll).
SampleCurrent ==
  pc = "idle" => sample = Sums

\* Every record due is counted in the end, however often reads fail, headers
\* are late or the file drops out of the walk, unless the file is rewritten
\* before it is.
EventuallyCounted ==
  \A f \in Files : Owed(f) # {} /\ gen[f] = 0 ~> Owed(f) = {} \/ gen[f] > 0

\* What the package promises (watch.go:21): "Only count usage after the watcher
\* attached", for transcripts of any age.  (Does not hold: README, Disagreements.)
OnlySinceAttach ==
  \A f \in Files : \A i \in 1..MaxLines :
    credit[f][i] > 0 => AfterAttach(f, i)

\* What the reader of frames promises (dsh.go:123): "counts complete ones", and
\* re-reads a torn last frame whole, wherever it stood at attach.  (Does not hold: README, Disagreements.)
FramesEventuallyCounted ==
  \A f \in Files : \A i \in 1..MaxLines : Due(f, i) ~> credit[f][i] > 0

=============================================================================
