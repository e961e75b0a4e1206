---------------------- MODULE TranscriptWatcherProofs ----------------------
(***************************************************************************)
(* What the transcript watcher guarantees for any store, adapters and      *)
(* bounds.  The arithmetic of a read comes first: what it commits lies     *)
(* between the offset it started from and the end of the file.  Then what  *)
(* the watcher knows of each transcript at each step of a poll (WatchInv), *)
(* from which nothing is counted twice and nothing is skipped; then what   *)
(* is counted against what was spent, which is a matter of which of the    *)
(* old and new lines of a file are still to come; and last the sums over   *)
(* the transcripts, which are the sample.                                  *)
(***************************************************************************)
EXTENDS TranscriptWatcher, TLAPS, FiniteSetTheorems, WellFoundedInduction

\* The number of whole lines of a file (consumeAppend, decodeZstdPrefix).
LEMMA WholeLines ==
  ASSUME NEW size \in Nat
  PROVE  /\ Whole(size) \in Nat
         /\ 3 * Whole(size) <= size
         /\ size <= 3 * Whole(size) + 2
BY SMT DEF Whole

\* A read never commits bytes past the end of the file, nor gives any back, unless
\* the file is shorter than the offset it was positioned at (consumeAppend).
LEMMA CommittedBounds ==
  ASSUME NEW lines, NEW size \in Nat, NEW off \in Nat
  PROVE  /\ Committed(lines, size, off) \in Nat
         /\ Committed(lines, size, off) <= size \/ Committed(lines, size, off) = off
         /\ off <= size => off <= Committed(lines, size, off)
<1>1. /\ Whole(size) \in Nat /\ 3 * Whole(size) <= size
      /\ Whole(off) \in Nat
  BY WholeLines
<1>2. TailFrames \in Nat
  BY WatcherAssumption DEF WatcherAssumption
<1> DEFINE last == LastRead(lines, size, off)
<1>3. last \in Nat
  BY <1>1, <1>2 DEF LastRead
<1>4. CASE last > Whole(size)
  BY <1>4 DEF Committed
<1>5. CASE last <= Whole(size)
  <2>1. 3 * last <= size
    BY <1>1, <1>3, <1>5
  <2>2. Committed(lines, size, off) = IF 3 * last > off THEN 3 * last ELSE off
    BY <1>1, <1>3, <1>5 DEF Committed
  <2> HIDE DEF last
  <2> QED
    BY <1>3, <2>1, <2>2
<1> QED
  BY <1>1, <1>3, <1>4, <1>5

\* A file holds at most MaxLines lines' worth of units (Size).
LEMMA SizeBounds ==
  ASSUME TypeOK, NEW f \in Files
  PROVE  /\ Size(f) \in Sizes
         /\ Exists(f) => Size(f) = 3 * (Len(text[f]) - 1) + phase[f]
         /\ Len(text[f]) \in Nat /\ Len(text[f]) <= MaxLines
<1>1. text[f] \in Seq(LineKinds) /\ phase[f] \in 1..3 /\ MaxLines \in Nat /\ Len(text[f]) <= MaxLines
  BY WatcherAssumption DEF TypeOK, Terminated, WatcherAssumption
<1>2. Len(text[f]) \in Nat /\ (text[f] # <<>> => Len(text[f]) >= 1)
  BY <1>1
<1> QED
  BY <1>1, <1>2 DEF Size, SizeOf, Sizes, Exists

\* A stamp is a generation and a size (fileStamp).
Stamps == (0..MaxRewrites) \X Sizes

\* What a stat yields is a generation and a size in bounds (fileStamp).
LEMMA StampType ==
  ASSUME TypeOK, NEW f \in Files
  PROVE  Stamp(f) \in Stamps
BY SizeBounds DEF TypeOK, Stamp, Stamps

\* The empty offset and the empty stamp are in bounds too (forgetIdle).
LEMMA ConstantTypes ==
  /\ MaxLines \in Nat /\ MaxRewrites \in Nat /\ MaxFaults \in Nat
  /\ 0 \in Sizes /\ NoStamp \in Stamps /\ NoFile \notin Files
BY WatcherAssumption DEF WatcherAssumption, Sizes, NoStamp, Stamps

\* The steps of the agents that write transcripts.
LEMMA WriterTypes ==
  ASSUME TypeOK, NEW f \in Files, Writer(f)
  PROVE  TypeOK'
<1> USE ConstantTypes
<1>1. LineKinds' = LineKinds
  BY DEF Writer, BeginLine, ExtendLine, Rewrite, Age, LineKinds
<1>2. text[f] \in Seq(LineKinds) /\ Len(text[f]) \in Nat /\ Len(text[f]) <= MaxLines
  BY SizeBounds DEF TypeOK
<1>3. ASSUME NEW l \in LineKinds, BeginLine(f, l)
      PROVE  TypeOK'
  <2>1. Append(text[f], l) \in Seq(LineKinds) /\ Len(Append(text[f], l)) <= MaxLines
    BY <1>2, <1>3 DEF BeginLine
  <2>2. text' \in [Files -> Seq(LineKinds')] /\ \A g \in Files : Len(text'[g]) <= MaxLines
    BY <1>1, <1>3, <2>1 DEF BeginLine, TypeOK
  <2> QED
    BY <1>3, <2>2 DEF BeginLine, TypeOK, Written, Terminated, books, listing, call, history
<1>4. CASE ExtendLine(f)
  <2>1. phase' \in [Files -> 1..Terminated]
    <3>1. phase \in [Files -> 1..3] /\ phase[f] < 3
      BY <1>4 DEF ExtendLine, TypeOK, Terminated
    <3>2. phase[f] + 1 \in 1..3
      BY <3>1
    <3>3. phase' = [phase EXCEPT ![f] = phase[f] + 1]
      BY <1>4 DEF ExtendLine
    <3> QED
      BY <3>1, <3>2, <3>3 DEF Terminated
  <2>2. UNCHANGED <<ad, text, gen, swapped, books, listing, call, faults, mark, tracked, credit>>
        /\ Written(f)
    BY <1>4 DEF ExtendLine
  <2> QED
    BY <1>1, <2>1, <2>2 DEF TypeOK, Written, books, listing, call
<1>5. ASSUME NEW l \in LineKinds, Rewrite(f, l)
      PROVE  TypeOK'
  <2>1. <<l>> \in Seq(LineKinds) /\ Len(<<l>>) = 1
    OBVIOUS
  <2>2. 1 <= MaxLines
    BY <1>5, <1>2 DEF Rewrite, TypeOK, Sizes
  <2>3. text' \in [Files -> Seq(LineKinds')] /\ \A g \in Files : Len(text'[g]) <= MaxLines
    BY <1>1, <1>5, <2>1, <2>2 DEF Rewrite, TypeOK
  <2>4. gen' \in [Files -> 0..MaxRewrites]
    BY <1>5 DEF Rewrite, TypeOK
  <2>5. credit' \in [Files -> [1..MaxLines -> Nat]] /\ mark' \in [Files -> Sizes]
    BY <1>5 DEF Rewrite, TypeOK, NoCredit
  <2> QED
    BY <1>5, <2>3, <2>4, <2>5 DEF Rewrite, TypeOK, Written, Terminated, books, listing, call
<1>6. CASE Age(f)
  BY <1>1, <1>6 DEF Age, TypeOK, books, listing, call, history
<1> QED
  BY <1>3, <1>4, <1>5, <1>6 DEF Writer

\* The visit of one transcript, up to its read.
LEMMA ReaderTypes ==
  ASSUME TypeOK, NEW f \in Files, Reader(f)
  PROVE  TypeOK'
<1> USE ConstantTypes
<1>1. LineKinds' = LineKinds
  BY DEF Reader, AttachStat, StatFails, Untouched, Undetermined, SkipForeign, LeaveUnread,
     OpenFile, Decides, Visits, At, LineKinds
<1>2. Size(f) \in Sizes /\ Stamp(f) \in Stamps
  BY SizeBounds, StampType
<1>3. OffsetNow(f) \in Sizes /\ OwnerNow(f) \in {"unknown", "mine", "other"}
  BY DEF OffsetNow, OwnerNow, TypeOK
<1>4. CASE AttachStat(f)
  <2>1. /\ offsets' \in [Files -> Sizes]
        /\ mark' \in [Files -> Sizes]
        /\ preexisting' \subseteq Files /\ tracked' \subseteq Files
        /\ faults' \in 0..MaxFaults
    <3>1. CASE Fault /\ UNCHANGED <<offsets, preexisting, mark, tracked, cur>>
      BY <3>1 DEF TypeOK, Fault
    <3>2. CASE /\ UNCHANGED faults
               /\ offsets' = [offsets EXCEPT ![f] = Size(f)]
               /\ preexisting' = preexisting \cup {f}
               /\ mark' = [mark EXCEPT ![f] = Size(f)]
               /\ tracked' = tracked \cup {f}
      BY <1>2, <3>2 DEF TypeOK
    <3> QED
      BY <1>4, <3>1, <3>2 DEF AttachStat
  <2>2. cur' \in {NoFile} \cup [file : Files, stamp : Stamps]
    BY <1>2, <1>4 DEF AttachStat
  <2> QED
    BY <1>1, <1>4, <2>1, <2>2 DEF AttachStat, TypeOK, store, listing, Stamps
<1>5. CASE StatFails(f)
  BY <1>1, <1>5 DEF StatFails, At, Fault, Leaves, TypeOK, listing, history
<1>6. CASE Untouched(f)
  BY <1>1, <1>6 DEF Untouched, Visits, At, Passes, Leaves, TypeOK, listing, history
<1>7. CASE Undetermined(f)
  <2>1. offsets' \in [Files -> Sizes] /\ owner' \in [Files -> {"unknown", "mine", "other"}]
    BY <1>3, <1>7 DEF Undetermined, TypeOK
  <2>2. faults' \in 0..MaxFaults /\ unpolled' \subseteq Files
    BY <1>7 DEF Undetermined, Fails, Fault, Passes, TypeOK
  <2> QED
    BY <1>1, <1>7, <2>1, <2>2 DEF Undetermined, Visits, At, Leaves, TypeOK, listing, history
<1>8. ASSUME NEW v \in {"mine", "other"}, Decides(f, v)
      PROVE  owner' \in [Files -> {"unknown", "mine", "other"}]
  BY <1>3, <1>8 DEF Decides, TypeOK
<1>9. CASE SkipForeign(f)
  <2>1. /\ offsets' \in [Files -> Sizes] /\ stamps' \in [Files -> Stamps]
        /\ owner' \in [Files -> {"unknown", "mine", "other"}]
    BY <1>2, <1>8, <1>9 DEF SkipForeign, TypeOK, Stamps
  <2> QED
    BY <1>1, <1>9, <2>1
    DEF SkipForeign, Decides, Visits, At, Passes, Leaves, TypeOK, listing, history, Stamps
<1>10. CASE LeaveUnread(f)
  <2>1. /\ offsets' \in [Files -> Sizes] /\ stamps' \in [Files -> Stamps]
        /\ owner' \in [Files -> {"unknown", "mine", "other"}]
    <3>1. offsets' = [offsets EXCEPT ![f] = OffsetNow(f)]
      BY <1>10 DEF LeaveUnread
    <3>2. stamps' = stamps \/ stamps' = [stamps EXCEPT ![f] = Stamp(f)]
      BY <1>10 DEF LeaveUnread
    <3>3. offsets \in [Files -> Sizes] /\ stamps \in [Files -> Stamps]
      BY DEF TypeOK, Stamps
    <3>4. Decides(f, "mine")
      BY <1>10 DEF LeaveUnread
    <3> QED
      BY <1>2, <1>3, <1>8, <3>1, <3>2, <3>3, <3>4
  <2>2. faults' \in 0..MaxFaults /\ unpolled' \subseteq Files
    BY <1>10 DEF LeaveUnread, Fails, Fault, Passes, TypeOK
  <2> QED
    BY <1>1, <1>10, <2>1, <2>2
    DEF LeaveUnread, Decides, Visits, At, Leaves, TypeOK, listing, history, Stamps
<1>11. CASE OpenFile(f)
  <2>1. /\ offsets' \in [Files -> Sizes]
        /\ owner' \in [Files -> {"unknown", "mine", "other"}]
    BY <1>3, <1>8, <1>11 DEF OpenFile, TypeOK
  <2>2. cur' \in [file : Files, stamp : Stamps]
    BY <1>2, <1>11 DEF OpenFile
  <2> QED
    BY <1>1, <1>11, <2>1, <2>2
    DEF OpenFile, Decides, Visits, At, Passes, TypeOK, listing, history, Stamps
<1> QED
  BY <1>4, <1>5, <1>6, <1>7, <1>9, <1>10, <1>11 DEF Reader

\* The read itself.
LEMMA ReadTypes ==
  ASSUME TypeOK, ReadFile
  PROVE  TypeOK'
<1> USE ConstantTypes
<1>1. LineKinds' = LineKinds
  BY DEF ReadFile, LineKinds
<1>2. cur.file \in Files /\ cur.stamp \in Stamps
  BY DEF ReadFile, TypeOK, Stamps
<1>3. Size(cur.file) \in Sizes /\ offsets[cur.file] \in Sizes
  BY <1>2, SizeBounds DEF TypeOK
<1>4. Committed(text[cur.file], Size(cur.file), offsets[cur.file]) \in Sizes
  <2>1. /\ Committed(text[cur.file], Size(cur.file), offsets[cur.file]) \in Nat
        /\ \/ Committed(text[cur.file], Size(cur.file), offsets[cur.file]) <= Size(cur.file)
           \/ Committed(text[cur.file], Size(cur.file), offsets[cur.file]) = offsets[cur.file]
    BY <1>3, CommittedBounds DEF Sizes
  <2> QED
    BY <1>3, <2>1 DEF Sizes
<1>5. offsets' \in [Files -> Sizes]
  <2>1. offsets' = offsets \/ offsets' =
          [offsets EXCEPT ![cur.file] =
             Committed(text[cur.file], Size(cur.file), offsets[cur.file])]
    BY DEF ReadFile
  <2>2. offsets \in [Files -> Sizes]
    BY DEF TypeOK
  <2> QED
    BY <1>4, <2>1, <2>2
<1>6. stamps' \in [Files -> Stamps]
  <2>1. stamps' = stamps \/ stamps' = [stamps EXCEPT ![cur.file] = stamps[cur.file]]
        \/ stamps' = [stamps EXCEPT ![cur.file] = cur.stamp]
    BY DEF ReadFile
  <2> QED
    <3>1. stamps \in [Files -> Stamps]
      BY DEF TypeOK, Stamps
    <3> QED
      BY <1>2, <2>1, <3>1
<1>7. credit' \in [Files -> [1..MaxLines -> Nat]]
  <2> DEFINE recs == Records(text[cur.file], Size(cur.file), offsets[cur.file])
             row == [i \in 1..MaxLines |->
                       IF i \in recs THEN credit[cur.file][i] + 1 ELSE credit[cur.file][i]]
  <2>1. credit' = credit \/ credit' = [credit EXCEPT ![cur.file] = row]
    BY DEF ReadFile
  <2> HIDE DEF recs
  <2>2. credit \in [Files -> [1..MaxLines -> Nat]] /\ credit[cur.file] \in [1..MaxLines -> Nat]
    BY <1>2 DEF TypeOK
  <2>3. row \in [1..MaxLines -> Nat]
    BY <2>2
  <2> HIDE DEF row
  <2> QED
    BY <2>1, <2>2, <2>3
<1>8. faults' \in 0..MaxFaults /\ unpolled' \subseteq Files
  <2>1. Fault \/ faults' = faults
    BY DEF ReadFile
  <2>2. unpolled' = unpolled \/ unpolled' = unpolled \cup {cur.file}
    BY DEF ReadFile
  <2> QED
    BY <1>2, <2>1, <2>2 DEF Fault, TypeOK
<1> QED
  BY <1>1, <1>5, <1>6, <1>7, <1>8 DEF ReadFile, TypeOK, listing, Stamps

\* Listing the store, forgetting what dropped out of it, the sample, and the attach.
LEMMA PollTypes ==
  ASSUME TypeOK,
         PollCached \/ PollRescan \/ Poll \/ EndPoll \/ seedBaseline \/ AttachDone
  PROVE  TypeOK'
<1> USE ConstantTypes
<1>1. LineKinds' = LineKinds
  BY DEF PollCached, PollRescan, Poll, EndPoll, seedBaseline, AttachDone, LineKinds
<1>2. CASE PollRescan
  <2>1. PICK live \in SUBSET Files : forgetIdle(live) /\ cached' = live /\ todo' = live
    <3>1. PICK missed \in SUBSET (IF scanned THEN unpolled ELSE {}) :
            /\ forgetIdle(walkTranscripts \ missed)
            /\ cached' = walkTranscripts \ missed
            /\ todo' = walkTranscripts \ missed
      BY <1>2 DEF PollRescan
    <3>2. walkTranscripts \ missed \in SUBSET Files
      BY DEF walkTranscripts, TypeOK
    <3> QED
      BY <3>1, <3>2
  <2>2. /\ stamps' \in [Files -> Stamps] /\ offsets' \in [Files -> Sizes]
        /\ owner' \in [Files -> {"unknown", "mine", "other"}]
        /\ preexisting' \subseteq Files /\ tracked' \subseteq Files
    BY <2>1 DEF forgetIdle, TypeOK, Stamps
  <2> QED
    BY <1>1, <1>2, <2>1, <2>2 DEF PollRescan, TypeOK, store, Stamps
<1>3. CASE PollCached
  BY <1>1, <1>3 DEF PollCached, TypeOK, store, books, listing, history
<1>4. CASE Poll
  BY <1>1, <1>4 DEF Poll, TypeOK, store, books, call, history
<1>5. CASE EndPoll
  BY <1>1, <1>5 DEF EndPoll, TypeOK, store, books, listing, history
<1>6. CASE seedBaseline
  <2>1. faults' \in 0..MaxFaults
    BY <1>6 DEF seedBaseline, TypeOK, Fault
  <2>2. UNCHANGED <<ad, store, offsets, preexisting, stamps, owner, listing, pc, todo, history>>
        /\ cur' = NoFile
    BY <1>6 DEF seedBaseline
  <2> QED
    BY <1>1, <2>1, <2>2 DEF TypeOK, store, listing, history
<1>7. CASE AttachDone
  BY <1>1, <1>7 DEF AttachDone, TypeOK, store, books, listing, history
<1> QED
  BY <1>2, <1>3, <1>4, <1>5, <1>6, <1>7

\* What a session may hold at attach is a short sequence of lines (Sessions).
LEMMA SessionType ==
  ASSUME NEW s \in Sessions
  PROVE  s \in Seq(LineKinds) /\ Len(s) <= MaxLines
<1>1. PICK n \in 0..MaxHistory : s \in [1..n -> LineKinds]
  BY DEF Sessions
<1>2. n \in Nat /\ n <= MaxLines
  BY <1>1, WatcherAssumption DEF WatcherAssumption
<1> QED
  BY <1>1, <1>2

\* The watcher's maps are well-typed in every reachable state; offsets and stamps
\* among them never point past what a transcript can hold (readNew, forgetIdle).
THEOREM TypeCorrect == Spec => []TypeOK
<1>1. Init => TypeOK
  <2> SUFFICES ASSUME Init
               PROVE  TypeOK
    OBVIOUS
  <2>1. text \in [Files -> Seq(LineKinds)] /\ \A f \in Files : Len(text[f]) <= MaxLines
    BY SessionType DEF Init
  <2>2. phase \in [Files -> 1..Terminated]
    BY DEF Init
  <2>3. \A f \in Files : Size(f) \in Sizes
    <3> SUFFICES ASSUME NEW f \in Files
                 PROVE  Size(f) \in Sizes
      OBVIOUS
    <3>1. Len(text[f]) \in Nat /\ (text[f] # <<>> => Len(text[f]) >= 1) /\ phase[f] \in 1..3
      BY <2>1, <2>2 DEF Terminated
    <3> QED
      BY <2>1, <3>1, ConstantTypes DEF Size, SizeOf, Sizes
  <2>4. mark \in [Files -> Sizes]
    BY <2>3 DEF Init
  <2> QED
    <3>1. credit \in [Files -> [1..MaxLines -> Nat]]
      BY DEF Init, NoCredit
    <3>2. /\ offsets \in [Files -> Sizes] /\ stamps \in [Files -> (0..MaxRewrites) \X Sizes]
          /\ gen \in [Files -> 0..MaxRewrites]
          /\ owner \in [Files -> {"unknown", "mine", "other"}]
          /\ faults \in 0..MaxFaults
      BY ConstantTypes DEF Init, Stamps
    <3>3. recent \subseteq Files /\ cached \subseteq Files /\ todo \subseteq Files
          /\ tracked \subseteq Files
      BY DEF Init, walkTranscripts
    <3> QED
      BY <2>1, <2>2, <2>4, <3>1, <3>2, <3>3 DEF Init, TypeOK
<1>2. TypeOK /\ [Next]_vars => TypeOK'
  <2> SUFFICES ASSUME TypeOK, [Next]_vars
               PROVE  TypeOK'
    OBVIOUS
  <2>1. CASE UNCHANGED vars
    BY <2>1 DEF vars, store, books, listing, call, history, TypeOK, LineKinds
  <2> QED
    BY <2>1, WriterTypes, ReaderTypes, ReadTypes, PollTypes DEF Next
<1> QED
  BY <1>1, <1>2, PTL DEF Spec

(***************************************************************************)
(* What a read returns and commits                                         *)
(***************************************************************************)
\* The lines a reader sees from the start are those that begin at its offset or
\* after it (seek).
LEMMA SeenFrom ==
  ASSUME NEW off \in Nat, NEW i \in Int
  PROVE  FirstFrom(off) \in Nat /\ (FirstFrom(off) <= i <=> off <= 3 * (i - 1))
BY SMT DEF FirstFrom

\* Where a read ends: behind the last whole line, or behind a last line that
\* lacks its newline only; never past the frames of the window.
LEMMA LastBounds ==
  ASSUME NEW lines, NEW size \in Nat, NEW off \in Nat
  PROVE  /\ LastRead(lines, size, off) \in Nat
         /\ LastRead(lines, size, off) > Whole(size) =>
              /\ LastRead(lines, size, off) = Whole(size) + 1
              /\ size % 3 = 2
              /\ off <= 3 * Whole(size)
<1>1. Whole(size) \in Nat /\ Whole(off) \in Nat /\ TailFrames \in Nat
  BY WholeLines, WatcherAssumption DEF WatcherAssumption
<1>2. FirstFrom(off) <= Whole(size) + 1 => off <= 3 * Whole(size)
  <2>1. Whole(size) + 1 \in Int /\ 3 * ((Whole(size) + 1) - 1) = 3 * Whole(size)
    BY <1>1
  <2> QED
    BY <2>1, SeenFrom
<1> QED
  BY <1>1, <1>2 DEF LastRead

\* A record a read returns begins at the offset or after it, within the file,
\* and before the offset the read commits.
LEMMA RecordPlace ==
  ASSUME NEW lines, NEW size \in Nat, NEW off \in Nat,
         NEW i \in Records(lines, size, off)
  PROVE  /\ i \in Nat /\ i >= 1
         /\ off <= 3 * (i - 1)
         /\ 3 * (i - 1) < size
         /\ 3 * (i - 1) < Committed(lines, size, off)
         /\ Collected(lines[i])
<1> DEFINE last == LastRead(lines, size, off)
<1>1. last \in Nat /\ (last > Whole(size) => last = Whole(size) + 1 /\ size % 3 = 2)
  BY LastBounds
<1>2. Whole(size) \in Nat /\ 3 * Whole(size) <= size /\ size <= 3 * Whole(size) + 2
  BY WholeLines
<1>3. FirstFrom(off) \in Nat
  BY SeenFrom
<1>4. i \in Int /\ FirstFrom(off) <= i /\ i <= last /\ Collected(lines[i])
  BY <1>1, <1>3 DEF Records
<1>5. off <= 3 * (i - 1)
  BY <1>4, SeenFrom
<1>6. Committed(lines, size, off) =
        IF last > Whole(size) THEN size ELSE IF 3 * last > off THEN 3 * last ELSE off
  BY DEF Committed
<1> HIDE DEF last
<1>7. i >= 1
  BY <1>4, <1>5
<1>8. CASE last > Whole(size)
  <2>1. size = 3 * Whole(size) + 2
    BY <1>1, <1>8 DEF Whole
  <2> QED
    BY <1>1, <1>2, <1>4, <1>5, <1>6, <1>7, <1>8, <2>1
<1>9. CASE last <= Whole(size)
  BY <1>1, <1>2, <1>4, <1>5, <1>6, <1>7, <1>9
<1> QED
  BY <1>1, <1>2, <1>8, <1>9

\* A read returns every record between the offset and what it commits.
LEMMA RecordsAll ==
  ASSUME NEW lines, NEW size \in Nat, NEW off \in Nat, NEW i \in Nat,
         Collected(lines[i]), off <= 3 * (i - 1), 3 * (i - 1) < Committed(lines, size, off)
  PROVE  i \in Records(lines, size, off)
<1> DEFINE last == LastRead(lines, size, off)
<1>1. last \in Nat /\ (last > Whole(size) => last = Whole(size) + 1 /\ size % 3 = 2)
  BY LastBounds
<1>2. Whole(size) \in Nat /\ 3 * Whole(size) <= size /\ size <= 3 * Whole(size) + 2
  BY WholeLines
<1>3. FirstFrom(off) \in Nat /\ FirstFrom(off) <= i
  BY SeenFrom
<1>4. Committed(lines, size, off) =
        IF last > Whole(size) THEN size ELSE IF 3 * last > off THEN 3 * last ELSE off
  BY DEF Committed
<1>5. i <= last
  <2> HIDE DEF last
  <2> QED
    BY <1>1, <1>2, <1>4
<1> QED
  BY <1>1, <1>3, <1>5 DEF Records

\* Of a file shorter than its offset nothing is read, and nothing committed.
LEMMA NothingBehind ==
  ASSUME NEW lines, NEW size \in Nat, NEW off \in Nat, size < off
  PROVE  Records(lines, size, off) = {} /\ Committed(lines, size, off) = off
<1>1. Records(lines, size, off) = {}
  <2> SUFFICES ASSUME NEW i \in Records(lines, size, off)
               PROVE  FALSE
    OBVIOUS
  <2>1. i \in Nat /\ off <= 3 * (i - 1) /\ 3 * (i - 1) < size
    BY RecordPlace
  <2> QED
    BY <2>1
<1>2. Committed(lines, size, off) = off
  <2> DEFINE last == LastRead(lines, size, off)
  <2>1. last \in Nat /\ (last > Whole(size) => off <= 3 * Whole(size))
    BY LastBounds
  <2>2. Whole(size) \in Nat /\ 3 * Whole(size) <= size
    BY WholeLines
  <2>3. Committed(lines, size, off) =
          IF last > Whole(size) THEN size ELSE IF 3 * last > off THEN 3 * last ELSE off
    BY DEF Committed
  <2> HIDE DEF last
  <2> QED
    BY <2>1, <2>2, <2>3
<1> QED
  BY <1>1, <1>2

\* A read that was not capped leaves no complete record behind: of lines, those
\* that parse; of frames, all, if it started at the start of one.
LEMMA NothingLeft ==
  ASSUME NEW lines, NEW size \in Nat, NEW off \in Nat, NEW i \in Nat, i >= 1,
         off <= size, CompleteIn(size, i), Parses(lines[i]),
         ad.zstd => off % 3 = 0 /\ ~(size - off > 3 * TailFrames)
  PROVE  3 * (i - 1) < Committed(lines, size, off)
<1> DEFINE last == LastRead(lines, size, off)
<1>1. last \in Nat
  BY LastBounds
<1>2. Whole(size) \in Nat /\ 3 * Whole(size) <= size /\ size <= 3 * Whole(size) + 2
  BY WholeLines
<1>3. Committed(lines, size, off) =
        IF last > Whole(size) THEN size ELSE IF 3 * last > off THEN 3 * last ELSE off
  BY DEF Committed
<1>4. CASE ad.zstd
  <2>1. 3 * i <= size
    BY <1>4 DEF CompleteIn
  <2>2. Whole(off) \in Nat /\ off = 3 * Whole(off)
    BY <1>4, SMT DEF Whole
  <2>3. TailFrames \in Nat
    BY WatcherAssumption DEF WatcherAssumption
  <2>4. Whole(size) <= Whole(off) + TailFrames
    BY <1>2, <1>4, <2>2, <2>3
  <2>5. last = Whole(size)
    BY <1>4, <2>4 DEF LastRead
  <2> HIDE DEF last
  <2> QED
    BY <1>2, <1>3, <2>1, <2>5
<1>5. CASE ~ad.zstd
  <2>1. 3 * i - 1 <= size
    BY <1>5 DEF CompleteIn
  <2>2. CASE i <= Whole(size)
    <3>1. last >= Whole(size)
      BY <1>2, <1>5 DEF LastRead
    <3> HIDE DEF last
    <3> QED
      BY <1>1, <1>2, <1>3, <2>2, <3>1
  <2>3. CASE i > Whole(size)
    <3>1. i = Whole(size) + 1 /\ size = 3 * Whole(size) + 2
      BY <1>2, <2>1, <2>3
    <3>2. size % 3 = 2
      BY <1>2, <3>1, SMT
    <3>3. CASE off <= 3 * Whole(size)
      <4>1. 3 * (i - 1) = 3 * Whole(size)
        BY <1>2, <3>1
      <4>2. FirstFrom(off) <= i
        BY <3>3, <4>1, SeenFrom
      <4>3. last = Whole(size) + 1
        BY <1>5, <3>1, <3>2, <4>2 DEF LastRead
      <4> HIDE DEF last
      <4> QED
        BY <1>2, <1>3, <3>1, <4>3
    <3>4. CASE off > 3 * Whole(size)
      <4>1. off <= Committed(lines, size, off) /\ Committed(lines, size, off) \in Nat
        BY CommittedBounds
      <4> QED
        BY <1>2, <3>1, <3>4, <4>1
    <3> QED
      BY <1>2, <3>3, <3>4
  <2> QED
    BY <1>2, <2>2, <2>3
<1> QED
  BY <1>4, <1>5

\* A reader of frames that starts at the start of one ends at the start of one.
LEMMA FrameBounds ==
  ASSUME ad.zstd, NEW lines, NEW size \in Nat, NEW off \in Nat, off % 3 = 0
  PROVE  Committed(lines, size, off) % 3 = 0
<1> DEFINE last == LastRead(lines, size, off)
<1>1. last \in Nat /\ last <= Whole(size)
  <2>1. Whole(size) \in Nat /\ Whole(off) \in Nat /\ TailFrames \in Nat
    BY WholeLines, WatcherAssumption DEF WatcherAssumption
  <2> QED
    BY <2>1 DEF LastRead
<1>2. Committed(lines, size, off) =
        IF last > Whole(size) THEN size ELSE IF 3 * last > off THEN 3 * last ELSE off
  BY DEF Committed
<1>3. Whole(size) \in Nat
  BY WholeLines
<1> HIDE DEF last
<1>4. Committed(lines, size, off) = 3 * last \/ Committed(lines, size, off) = off
  BY <1>1, <1>2, <1>3
<1>5. (3 * last) % 3 = 0
  BY <1>1, SMT
<1> QED
  BY <1>4, <1>5

(***************************************************************************)
(* What the watcher knows of a transcript                                  *)
(***************************************************************************)
\* A transcript as agents write it: one header, before all usage.
Session(lines) ==
  /\ ad.headerCwd =>
       /\ \A i, j \in 1..Len(lines) : lines[i] \in Headers /\ lines[j] \in Headers => i = j
       /\ \A i \in 1..Len(lines) :
            lines[i] = "use" => \E h \in 1..(i - 1) : lines[h] \in Headers
  /\ ad.zstd /\ lines # <<>> => lines[1] \in Headers

\* Its header is this directory's, and where owns looks for it.
Claimed(f) == \E h \in 1..Len(text[f]) : h <= OwnerScanLines /\ text[f][h] = "headMine"

\* Its header is another directory's, or was not whole when owns last looked.
Refused(f) ==
  \/ \E h \in 1..Len(text[f]) : text[f][h] = "headOther"
  \/ /\ ~ad.zstd
     /\ Len(text[f]) >= OwnerScanLines
     /\ \A h \in 1..Len(text[f]) : text[f][h] = "headMine" => h >= OwnerScanLines

\* A header owns may yet find was not whole at the attach: usage came later.
Late(f) ==
  \A h \in 1..Len(text[f]) :
    h <= OwnerScanLines /\ text[f][h] = "headMine" => ~CompleteIn(mark[f], h)

\* The line's record is one to count: this directory's, and begun after the attach.
Claims(f, i) == Own(text[f], i) /\ mark[f] <= 3 * (i - 1)

\* The watcher stands at off in a file it takes for own: what was counted is own
\* and lies before off, and all of it that was to be counted was.
Position(f, off, own) ==
  /\ off <= Size(f)
  /\ own = "mine" => Claimed(f)
  /\ own = "other" => Refused(f)
  /\ ad.zstd /\ own # "other" /\ Aligned(f) => off % 3 = 0
  /\ \A i \in 1..MaxLines : credit[f][i] > 0 =>
       credit[f][i] = 1 /\ i <= Len(text[f]) /\ Own(text[f], i) /\ 3 * (i - 1) < off
  /\ own # "other" =>
       \A i \in 1..Len(text[f]) : Claims(f, i) /\ 3 * (i - 1) < off => credit[f][i] > 0
  /\ f \in tracked /\ own = "other" => Late(f)
  /\ f \in tracked /\ f \in preexisting => mark[f] <= off

\* A stamp that matches vouches for what lies before the offset.
Settled(f) ==
  stamps[f] = Stamp(f) /\ owner[f] # "other" /\ Aligned(f) =>
    \A i \in 1..Len(text[f]) :
      Own(text[f], i) /\ CompleteIn(Size(f), i) => 3 * (i - 1) < offsets[f]

\* A replaced file the watcher has not stat'ed yet gives itself away: it is
\* shorter than the offset, unless the file was forgotten.
Replaced(f) ==
  /\ mark[f] = 0
  /\ credit[f] = NoCredit
  /\ stamps[f][1] < gen[f]
  /\ Size(f) < offsets[f] \/ (offsets[f] = 0 /\ owner[f] = "unknown")

\* What holds of every file, replaced or not.
Kept(f) ==
  /\ Session(text[f])
  /\ mark[f] <= Size(f)
  /\ stamps[f][1] <= gen[f]
  /\ stamps[f][1] = gen[f] => stamps[f][2] <= Size(f)
  /\ owner[f] # "unknown" => ad.headerCwd
  /\ seen[f] = Absent => credit[f] = NoCredit
  /\ f \in tracked => \A i \in 1..MaxLines : credit[f][i] > 0 => mark[f] <= 3 * (i - 1)
  /\ f \in tracked /\ f \notin preexisting =>
       IF ad.headerCwd THEN Late(f) ELSE mark[f] = 0

FileInv(f) ==
  /\ Kept(f)
  /\ f \in swapped => Replaced(f)
  /\ f \notin swapped => Position(f, offsets[f], owner[f]) /\ Settled(f)

\* The transcript between its stat and its read.
Reading(f, stamp) ==
  /\ stamp[1] <= gen[f]
  /\ stamp[1] = gen[f] => stamp[2] <= Size(f)
  /\ f \in swapped => stamp[1] < gen[f] /\ Size(f) < offsets[f]
  /\ pc = "poll" /\ ad.headerCwd => owner[f] = "mine"

CallInv ==
  /\ pc = "idle" => cur = NoFile
  /\ cur # NoFile => Reading(cur.file, cur.stamp)
  /\ pc = "attach" =>
       /\ swapped = {} /\ tracked \cap todo = {}
       /\ \A f \in Files : credit[f] = NoCredit /\ owner[f] = "unknown"

Counters == Nat \cup {Absent}

CountInv ==
  /\ seen \in [Files -> Counters]
  /\ base \in [Files -> Counters]

WatchInv == TypeOK /\ (\A f \in Files : FileInv(f)) /\ CallInv /\ CountInv

\* The units of a file and its lines.
LEMMA SizeLines ==
  ASSUME TypeOK, NEW f \in Files
  PROVE  /\ Size(f) \in Nat /\ Len(text[f]) \in Nat /\ Len(text[f]) <= MaxLines
         /\ Size(f) <= 3 * Len(text[f])
         /\ text[f] = <<>> => Size(f) = 0 /\ Len(text[f]) = 0
         /\ text[f] # <<>> => /\ Len(text[f]) >= 1
                              /\ Size(f) = 3 * (Len(text[f]) - 1) + phase[f]
                              /\ phase[f] \in 1..3
<1>1. text[f] \in Seq(LineKinds) /\ phase[f] \in 1..3 /\ Len(text[f]) <= MaxLines
  BY DEF TypeOK, Terminated
<1>2. Len(text[f]) \in Nat /\ (text[f] # <<>> => Len(text[f]) >= 1)
      /\ (text[f] = <<>> => Len(text[f]) = 0)
  BY <1>1
<1> QED
  BY <1>1, <1>2 DEF Size, SizeOf

\* Offsets and the marks of the attach are numbers.
LEMMA PlaceTypes ==
  ASSUME TypeOK, NEW f \in Files
  PROVE  offsets[f] \in Nat /\ mark[f] \in Nat
<1>1. offsets[f] \in Sizes /\ mark[f] \in Sizes
  BY DEF TypeOK
<1>2. Sizes \subseteq Nat
  BY ConstantTypes DEF Sizes
<1> QED
  BY <1>1, <1>2

\* A header's usage comes after it.
LEMMA OwnAfterHeader ==
  ASSUME NEW lines \in Seq(LineKinds), Session(lines), ad.headerCwd,
         NEW i \in 1..Len(lines), Own(lines, i)
  PROVE  /\ \A h \in 1..Len(lines) : lines[h] \in Headers => lines[h] = "headMine" /\ h < i
         /\ \E h \in 1..Len(lines) : lines[h] = "headMine"
<1>1. lines[i] = "use"
  <2>1. lines[i] \in LineKinds
    OBVIOUS
  <2> QED
    BY <2>1 DEF Own, Collected, LineKinds, Headers
<1>2. PICK h \in 1..(i - 1) : lines[h] \in Headers
  BY <1>1 DEF Session
<1>3. h \in 1..Len(lines) /\ h < i
  OBVIOUS
<1>4. PICK m \in 1..Len(lines) : lines[m] = "headMine"
  BY DEF Own
<1>5. \A j \in 1..Len(lines) : lines[j] \in Headers => j = h
  BY <1>2, <1>3 DEF Session
<1> QED
  BY <1>2, <1>3, <1>4, <1>5 DEF Headers

\* Frames are what sessions with a header are kept in (isDshZstd).
LEMMA AdapterKinds ==
  ASSUME ad \in Adapters
  PROVE  ad.zstd => ad.headerCwd /\ ~ad.cumulative
BY WatcherAssumption DEF WatcherAssumption

\* A line that may follow makes a transcript of one, and changes nobody's record.
LEMMA SessionGrows ==
  ASSUME ad \in Adapters,
         NEW lines \in Seq(LineKinds), Session(lines), NEW l \in LineKinds, MayFollow(lines, l)
  PROVE  /\ Session(Append(lines, l))
         /\ \A i \in 1..Len(lines) : Own(Append(lines, l), i) <=> Own(lines, i)
<1> DEFINE longer == Append(lines, l)
<1>1. /\ Len(lines) \in Nat /\ Len(longer) = Len(lines) + 1
      /\ \A i \in 1..Len(lines) : longer[i] = lines[i]
      /\ longer[Len(lines) + 1] = l
  OBVIOUS
<1>2. lines # <<>> => Len(lines) >= 1
  OBVIOUS
<1> HIDE DEF longer
<1>3. ad.zstd => longer[1] \in Headers
  <2>0. ad.zstd => ad.headerCwd
    BY AdapterKinds
  <2>1. CASE lines = <<>>
    <3>1. longer[1] = l
      BY <1>1, <2>1
    <3> QED
      BY <2>0, <2>1, <3>1 DEF MayFollow
  <2>2. CASE lines # <<>>
    <3>1. longer[1] = lines[1]
      BY <1>1, <1>2, <2>2
    <3> QED
      BY <2>2, <3>1 DEF Session
  <2> QED
    BY <2>1, <2>2
<1>4. ASSUME ad.headerCwd, NEW i \in 1..Len(longer), NEW j \in 1..Len(longer),
             longer[i] \in Headers, longer[j] \in Headers
      PROVE  i = j
  <2>1. l \in Headers => \A k \in 1..Len(lines) : lines[k] \notin Headers
    BY <1>4 DEF MayFollow, HasHeader
  <2>2. (i = Len(lines) + 1 \/ i \in 1..Len(lines)) /\ (j = Len(lines) + 1 \/ j \in 1..Len(lines))
    BY <1>1
  <2> QED
    BY <1>1, <1>4, <2>1, <2>2 DEF Session
<1>5. ASSUME ad.headerCwd, NEW i \in 1..Len(longer), longer[i] = "use"
      PROVE  \E h \in 1..(i - 1) : longer[h] \in Headers
  <2>1. CASE i \in 1..Len(lines)
    <3>1. PICK h \in 1..(i - 1) : lines[h] \in Headers
      BY <1>1, <1>5, <2>1 DEF Session
    <3>2. h \in 1..Len(lines)
      BY <1>1, <2>1, <3>1
    <3> QED
      BY <1>1, <3>1, <3>2
  <2>2. CASE i = Len(lines) + 1
    <3>1. PICK h \in 1..Len(lines) : lines[h] \in Headers
      BY <1>1, <1>5, <2>2 DEF MayFollow, HasHeader
    <3>2. h \in 1..(i - 1)
      BY <1>1, <2>2, <3>1
    <3> QED
      BY <1>1, <3>1, <3>2
  <2> QED
    BY <1>1, <2>1, <2>2
<1>6. Session(longer)
  BY <1>3, <1>4, <1>5 DEF Session
<1>7. ASSUME NEW i \in 1..Len(lines)
      PROVE  Own(longer, i) <=> Own(lines, i)
  <2>1. longer[i] = lines[i]
    BY <1>1
  <2>2. Own(lines, i) => Own(longer, i)
    BY <1>1, <2>1 DEF Own
  <2>3. ASSUME Own(longer, i), ad.headerCwd
        PROVE  \E h \in 1..Len(lines) : lines[h] = "headMine"
    <3>1. lines[i] \in LineKinds
      OBVIOUS
    <3>2. lines[i] = "use"
      BY <2>1, <2>3, <3>1 DEF Own, Collected, LineKinds, Headers
    <3>3. PICK h \in 1..(i - 1) : lines[h] \in Headers
      BY <2>3, <3>2 DEF Session
    <3>4. h \in 1..Len(lines)
      BY <1>1
    <3>5. l \notin Headers
      BY <2>3, <3>3, <3>4 DEF MayFollow, HasHeader
    <3>6. PICK m \in 1..Len(longer) : longer[m] = "headMine"
      BY <2>3 DEF Own
    <3>7. m # Len(lines) + 1
      BY <1>1, <3>5, <3>6 DEF Headers
    <3> QED
      BY <1>1, <3>6, <3>7
  <2> QED
    BY <2>1, <2>2, <2>3 DEF Own
<1> QED
  BY <1>6, <1>7 DEF longer

\* A step leaves a transcript alone, and what the watcher had counted of it.
SameText(f) ==
  /\ UNCHANGED ad
  /\ text'[f] = text[f] /\ phase'[f] = phase[f]

SameCredit(f) ==
  /\ mark'[f] = mark[f] /\ credit'[f] = credit[f]
  /\ f \in tracked' <=> f \in tracked
  /\ f \in preexisting' <=> f \in preexisting

SameBooks(f) ==
  /\ gen'[f] = gen[f] /\ offsets'[f] = offsets[f] /\ stamps'[f] = stamps[f]
  /\ owner'[f] = owner[f] /\ seen'[f] = seen[f]
  /\ f \in swapped' <=> f \in swapped

\* What the text decides stays with the text.
LEMMA TextKept ==
  ASSUME NEW f \in Files, SameText(f)
  PROVE  /\ Size(f)' = Size(f)
         /\ Session(text[f])' <=> Session(text[f])
         /\ Claimed(f)' <=> Claimed(f)
         /\ Refused(f)' <=> Refused(f)
         /\ \A i : Own(text[f], i)' <=> Own(text[f], i)
         /\ \A n, i : CompleteIn(n, i)' <=> CompleteIn(n, i)
<1>1. Size(f)' = Size(f)
  BY DEF SameText, Size, SizeOf
<1>2. Session(text[f])' <=> Session(text[f])
  BY DEF SameText, Session
<1>3. (Claimed(f)' <=> Claimed(f)) /\ (Refused(f)' <=> Refused(f))
  BY DEF SameText, Claimed, Refused
<1>4. \A i : Own(text[f], i)' <=> Own(text[f], i)
  BY DEF SameText, Own
<1>5. \A n, i : CompleteIn(n, i)' <=> CompleteIn(n, i)
  BY DEF SameText, CompleteIn
<1> QED
  BY <1>1, <1>2, <1>3, <1>4, <1>5

\* So does what the mark decides.
LEMMA MarkKept ==
  ASSUME NEW f \in Files, SameText(f), mark'[f] = mark[f]
  PROVE  /\ Late(f)' <=> Late(f)
         /\ Aligned(f)' <=> Aligned(f)
         /\ \A i : Claims(f, i)' <=> Claims(f, i)
<1>1. Late(f)' <=> Late(f)
  BY DEF SameText, Late, CompleteIn
<1>2. Aligned(f)' <=> Aligned(f)
  BY DEF SameText, Aligned
<1>3. \A i : Claims(f, i)' <=> Claims(f, i)
  BY TextKept DEF Claims
<1> QED
  BY <1>1, <1>2, <1>3

\* The watcher moves to an offset and a verdict under which its counts are right.
LEMMA Moves ==
  ASSUME NEW f \in Files, SameText(f), SameCredit(f), NEW o, NEW w, Position(f, o, w),
         offsets'[f] = o, owner'[f] = w
  PROVE  Position(f, offsets[f], owner[f])'
<1>1. /\ mark'[f] = mark[f] /\ credit'[f] = credit[f] /\ text'[f] = text[f] /\ ad' = ad
      /\ f \in tracked' <=> f \in tracked
      /\ f \in preexisting' <=> f \in preexisting
  BY DEF SameText, SameCredit
<1>2. o <= Size(f)' /\ (w = "mine" => Claimed(f)') /\ (w = "other" => Refused(f)')
  BY TextKept DEF Position
<1>3. ad'.zstd /\ w # "other" /\ Aligned(f)' => o % 3 = 0
  BY <1>1, MarkKept DEF Position
<1>4. \A i \in 1..MaxLines : credit'[f][i] > 0 =>
        credit'[f][i] = 1 /\ i <= Len(text'[f]) /\ Own(text[f], i)' /\ 3 * (i - 1) < o
  BY <1>1, TextKept DEF Position
<1>5. w # "other" =>
        \A i \in 1..Len(text'[f]) : Claims(f, i)' /\ 3 * (i - 1) < o => credit'[f][i] > 0
  BY <1>1, MarkKept DEF Position
<1>6. /\ f \in tracked' /\ w = "other" => Late(f)'
      /\ f \in tracked' /\ f \in preexisting' => mark'[f] <= o
  BY <1>1, MarkKept DEF Position
<1> QED
  BY <1>2, <1>3, <1>4, <1>5, <1>6 DEF Position

\* A file a step does not touch keeps its invariant.
LEMMA FileStays ==
  ASSUME NEW f \in Files, FileInv(f), SameText(f), SameCredit(f), SameBooks(f)
  PROVE  FileInv(f)'
<1>1. Kept(f)'
  BY TextKept, MarkKept DEF FileInv, Kept, SameText, SameCredit, SameBooks
<1>2. f \in swapped' => Replaced(f)'
  BY TextKept DEF FileInv, Replaced, SameText, SameCredit, SameBooks
<1>3. f \notin swapped' => Position(f, offsets[f], owner[f])'
  <2>1. f \notin swapped' => Position(f, offsets[f], owner[f])
    BY DEF FileInv, SameBooks
  <2>2. offsets'[f] = offsets[f] /\ owner'[f] = owner[f]
    BY DEF SameBooks
  <2> QED
    BY <2>1, <2>2, Moves
<1>4. f \notin swapped' => Settled(f)'
  <2>1. Stamp(f)' = Stamp(f)
    BY TextKept DEF Stamp, SameBooks
  <2>2. text'[f] = text[f] /\ offsets'[f] = offsets[f] /\ owner'[f] = owner[f]
        /\ stamps'[f] = stamps[f] /\ mark'[f] = mark[f]
        /\ (f \notin swapped' <=> f \notin swapped)
    BY DEF SameText, SameBooks, SameCredit
  <2>3. /\ Aligned(f)' <=> Aligned(f)
        /\ Size(f)' = Size(f)
        /\ \A i : Own(text[f], i)' <=> Own(text[f], i)
        /\ \A n, i : CompleteIn(n, i)' <=> CompleteIn(n, i)
    BY <2>2, TextKept, MarkKept
  <2>4. \A i : CompleteIn(Size(f), i)' <=> CompleteIn(Size(f), i)
    BY <2>3 DEF CompleteIn, SameText
  <2> QED
    BY <2>1, <2>2, <2>3, <2>4 DEF Settled, FileInv
<1> QED
  BY <1>1, <1>2, <1>3, <1>4 DEF FileInv

(***************************************************************************)
(* The agents' writes                                                      *)
(***************************************************************************)
\* A stamp vouches for no size its file has outgrown.
LEMMA Outgrown ==
  ASSUME NEW f \in Files, TypeOK, Kept(f), UNCHANGED <<ad, stamps>>,
         gen'[f] = gen[f], Size(f)' = Size(f) + 1
  PROVE  Settled(f)'
<1>1. Size(f) \in Nat
  BY SizeLines
<1>2. stamps[f][1] = gen[f] => stamps[f][2] <= Size(f)
  BY DEF Kept
<1>3. stamps'[f] = Stamp(f)' => stamps[f][1] = gen[f] /\ stamps[f][2] = Size(f) + 1
  BY DEF Stamp
<1>4. stamps'[f] # Stamp(f)'
  BY <1>1, <1>2, <1>3
<1> QED
  BY <1>4 DEF Settled

\* A new line is none the watcher has been past (BeginLine).
LEMMA BeginKeeps ==
  ASSUME TypeOK, NEW f \in Files, FileInv(f), NEW l \in LineKinds, BeginLine(f, l)
  PROVE  FileInv(f)'
<1> DEFINE n == Len(text[f])
<1>1. /\ ad' = ad /\ gen' = gen /\ swapped' = swapped /\ offsets' = offsets
      /\ preexisting' = preexisting /\ stamps' = stamps /\ owner' = owner /\ seen' = seen
      /\ mark' = mark /\ tracked' = tracked /\ credit' = credit
      /\ MayFollow(text[f], l) /\ StaysShort(f, Size(f) + 1)
      /\ text[f] \in Seq(LineKinds) /\ ad \in Adapters
  BY DEF BeginLine, books, history, TypeOK
<1>2. /\ text'[f] = Append(text[f], l) /\ phase'[f] = 1
      /\ n \in Nat /\ Len(text'[f]) = n + 1
      /\ \A i \in 1..n : text'[f][i] = text[f][i]
      /\ text'[f][n + 1] = l
  <2>1. text'[f] = Append(text[f], l) /\ phase'[f] = 1
    BY DEF BeginLine, TypeOK
  <2> QED
    BY <1>1, <2>1
<1>3. Size(f) = 3 * n /\ Size(f) \in Nat
  BY SizeLines DEF BeginLine, Exists, Terminated
<1>4. Size(f)' = Size(f) + 1
  <2>1. text'[f] # <<>>
    BY <1>2
  <2>2. Size(f)' = 3 * ((n + 1) - 1) + 1
    BY <1>2, <2>1 DEF Size, SizeOf
  <2> QED
    BY <1>2, <1>3, <2>2
<1>5. Kept(f)
  BY DEF FileInv
<1> HIDE DEF n
<1>6. Session(text[f])'
  <2>1. Session(Append(text[f], l))
    BY <1>1, <1>5, SessionGrows DEF Kept
  <2> QED
    BY <1>1, <1>2, <2>1 DEF Session
<1>7. \A i \in 1..n : Own(text[f], i)' <=> Own(text[f], i)
  <2>1. \A i \in 1..n : Own(Append(text[f], l), i) <=> Own(text[f], i)
    BY <1>1, <1>5, SessionGrows DEF Kept, n
  <2> QED
    BY <1>1, <1>2, <2>1 DEF Own
<1>8. mark[f] \in Nat /\ mark[f] <= 3 * n
  BY <1>3, <1>5 DEF Kept, TypeOK, Sizes
<1>9. Late(f) => Late(f)'
  <2> SUFFICES ASSUME Late(f), NEW h \in 1..Len(text'[f]),
                      h <= OwnerScanLines, text'[f][h] = "headMine"
               PROVE  ~CompleteIn(mark[f], h)'
    BY <1>1 DEF Late
  <2>1. CASE h \in 1..n
    BY <1>1, <1>2, <2>1 DEF Late, CompleteIn, n
  <2>2. CASE h = n + 1
    <3>1. ~(3 * h <= mark[f]) /\ ~(3 * h - 1 <= mark[f])
      BY <1>2, <1>8, <2>2
    <3> QED
      BY <1>1, <3>1 DEF CompleteIn
  <2> QED
    BY <1>2, <2>1, <2>2
<1>10. Kept(f)'
  BY <1>1, <1>3, <1>4, <1>5, <1>6, <1>8, <1>9 DEF Kept, TypeOK, Sizes
<1>11. ASSUME f \in swapped
       PROVE  Replaced(f)'
  <2>1. Size(f)' < offsets'[f]
    BY <1>1, <1>4, <1>11 DEF StaysShort
  <2> QED
    BY <1>1, <1>11, <2>1 DEF FileInv, Replaced
<1>12. ASSUME f \notin swapped
       PROVE  Position(f, offsets[f], owner[f])'
  <2>1. Position(f, offsets[f], owner[f])
    BY <1>12 DEF FileInv
  <2>2. offsets[f] \in Nat /\ offsets[f] <= Size(f)
    <3>1. offsets[f] \in Nat
      BY PlaceTypes
    <3> QED
      BY <2>1, <3>1 DEF Position
  <2>3. Claimed(f) => Claimed(f)'
    BY <1>2 DEF Claimed, n
  <2>4. Refused(f) => Refused(f)'
    <3>1. (\E h \in 1..n : text[f][h] = "headOther") => Refused(f)'
      BY <1>2 DEF Refused
    <3>2. ASSUME ~ad.zstd, n >= OwnerScanLines,
                 \A h \in 1..n : text[f][h] = "headMine" => h >= OwnerScanLines
          PROVE  Refused(f)'
      <4>1. OwnerScanLines \in Nat
        BY WatcherAssumption DEF WatcherAssumption
      <4>2. \A h \in 1..(n + 1) : text'[f][h] = "headMine" => h >= OwnerScanLines
        BY <1>2, <3>2, <4>1
      <4> QED
        BY <1>1, <1>2, <3>2, <4>1, <4>2 DEF Refused
    <3> QED
      BY <3>1, <3>2 DEF Refused, n
  <2>5. ad'.zstd /\ owner'[f] # "other" /\ Aligned(f)' => offsets'[f] % 3 = 0
    BY <1>1, <2>1 DEF Position, Aligned
  <2>6. ASSUME NEW i \in 1..MaxLines, credit[f][i] > 0
        PROVE  credit[f][i] = 1 /\ i <= n + 1 /\ Own(text[f], i)' /\ 3 * (i - 1) < offsets[f]
    <3>1. credit[f][i] = 1 /\ i <= n /\ Own(text[f], i) /\ 3 * (i - 1) < offsets[f]
      BY <2>1, <2>6 DEF Position, n
    <3>2. i \in 1..n
      BY <1>2, <3>1
    <3> QED
      BY <1>2, <1>7, <3>1, <3>2
  <2>7. ASSUME owner[f] # "other", NEW i \in 1..(n + 1), Claims(f, i)', 3 * (i - 1) < offsets[f]
        PROVE  credit[f][i] > 0
    <3>1. i \in 1..n
      BY <1>2, <1>3, <2>2, <2>7
    <3>2. Claims(f, i)
      BY <1>1, <1>7, <2>7, <3>1 DEF Claims
    <3> QED
      BY <2>1, <2>7, <3>1, <3>2 DEF Position, n
  <2>8. f \in tracked /\ owner[f] = "other" => Late(f)'
    BY <1>9, <2>1 DEF Position
  <2>9. f \in tracked /\ f \in preexisting => mark[f] <= offsets[f]
    BY <2>1 DEF Position
  <2>10. /\ offsets'[f] <= Size(f)'
         /\ owner'[f] = "mine" => Claimed(f)'
         /\ owner'[f] = "other" => Refused(f)'
    BY <1>1, <1>4, <2>1, <2>2, <2>3, <2>4, <1>3 DEF Position
  <2> QED
    BY <1>1, <1>2, <2>5, <2>6, <2>7, <2>8, <2>9, <2>10 DEF Position
<1>13. Settled(f)'
  BY <1>1, <1>4, <1>5, Outgrown
<1> QED
  BY <1>1, <1>10, <1>11, <1>12, <1>13 DEF FileInv

\* A line that grows becomes nobody else's (ExtendLine).
LEMMA ExtendKeeps ==
  ASSUME TypeOK, NEW f \in Files, FileInv(f), ExtendLine(f)
  PROVE  FileInv(f)'
<1>1. /\ ad' = ad /\ text' = text /\ gen' = gen /\ swapped' = swapped /\ offsets' = offsets
      /\ preexisting' = preexisting /\ stamps' = stamps /\ owner' = owner /\ seen' = seen
      /\ mark' = mark /\ tracked' = tracked /\ credit' = credit
      /\ StaysShort(f, Size(f) + 1)
  BY DEF ExtendLine, books
<1>2. Size(f)' = Size(f) + 1 /\ Size(f) \in Nat
  <2>1. phase'[f] = phase[f] + 1 /\ text[f] # <<>>
    BY DEF ExtendLine, TypeOK, Exists
  <2>2. Len(text[f]) \in Nat /\ Size(f) \in Nat /\ Size(f) = 3 * (Len(text[f]) - 1) + phase[f]
        /\ phase[f] \in 1..3
    BY <2>1, SizeLines
  <2>3. Size(f)' = 3 * (Len(text[f]) - 1) + (phase[f] + 1)
    BY <1>1, <2>1 DEF Size, SizeOf
  <2> QED
    BY <2>2, <2>3
<1>3. Kept(f)
  BY DEF FileInv
<1>4. \A i : Own(text[f], i)' <=> Own(text[f], i)
  BY <1>1 DEF Own
<1>5. Late(f)' <=> Late(f)
  BY <1>1 DEF Late, CompleteIn
<1>6. Session(text[f])' <=> Session(text[f])
  BY <1>1 DEF Session
<1>7. Kept(f)'
  BY <1>1, <1>2, <1>3, <1>5, <1>6 DEF Kept, TypeOK, Sizes
<1>8. ASSUME f \in swapped
      PROVE  Replaced(f)'
  <2>1. Size(f)' < offsets'[f]
    BY <1>1, <1>2, <1>8 DEF StaysShort
  <2> QED
    BY <1>1, <1>8, <2>1 DEF FileInv, Replaced
<1>9. ASSUME f \notin swapped
      PROVE  Position(f, offsets[f], owner[f])'
  <2>1. Position(f, offsets[f], owner[f])
    BY <1>9 DEF FileInv
  <2>2. offsets'[f] <= Size(f)'
    BY <1>1, <1>2, <2>1 DEF Position, TypeOK, Sizes
  <2>3. (Claimed(f)' <=> Claimed(f)) /\ (Refused(f)' <=> Refused(f))
        /\ (Aligned(f)' <=> Aligned(f))
    BY <1>1 DEF Claimed, Refused, Aligned
  <2>4. \A i : Claims(f, i)' <=> Claims(f, i)
    BY <1>1, <1>4 DEF Claims
  <2> QED
    BY <1>1, <1>4, <1>5, <2>1, <2>2, <2>3, <2>4 DEF Position
<1>10. Settled(f)'
  BY <1>1, <1>2, <1>3, Outgrown
<1> QED
  BY <1>1, <1>7, <1>8, <1>9, <1>10 DEF FileInv

\* A replaced transcript starts over, and the watcher will see it shrank (Rewrite).
LEMMA RewriteKeeps ==
  ASSUME TypeOK, NEW f \in Files, FileInv(f), NEW l \in LineKinds, Rewrite(f, l)
  PROVE  FileInv(f)'
<1>1. /\ ad' = ad /\ offsets' = offsets /\ preexisting' = preexisting /\ stamps' = stamps
      /\ owner' = owner /\ seen' = seen /\ tracked' = tracked
      /\ MayFollow(<<>>, l) /\ offsets[f] > 1 /\ f \in swapped' /\ ad \in Adapters
  BY DEF Rewrite, books, TypeOK
<1>2. /\ text'[f] = <<l>> /\ phase'[f] = 1 /\ gen'[f] = gen[f] + 1
      /\ mark'[f] = 0 /\ credit'[f] = NoCredit
  BY DEF Rewrite, TypeOK
<1>3. Size(f)' = 1
  BY <1>2 DEF Size, SizeOf
<1>4. stamps[f][1] \in Nat /\ gen[f] \in Nat /\ stamps[f][1] <= gen[f] /\ offsets[f] \in Nat
      /\ (owner[f] # "unknown" => ad.headerCwd)
  BY WatcherAssumption DEF FileInv, Kept, TypeOK, Sizes, WatcherAssumption
<1>5. Session(text[f])'
  <2>1. Session(<<>>) /\ <<>> \in Seq(LineKinds)
    BY DEF Session
  <2>2. Session(Append(<<>>, l))
    BY <1>1, <2>1, SessionGrows
  <2>3. Append(<<>>, l) = <<l>>
    OBVIOUS
  <2>4. Session(<<l>>)
    BY <2>2, <2>3
  <2> QED
    BY <1>1, <1>2, <2>4 DEF Session
<1>6. \A i \in 1..MaxLines : ~(credit'[f][i] > 0)
  BY <1>2 DEF NoCredit
<1>7. Late(f)'
  <2> SUFFICES ASSUME NEW h \in 1..Len(text'[f])
               PROVE  ~CompleteIn(mark[f], h)'
    BY DEF Late
  <2>1. h \in Int /\ h >= 1
    OBVIOUS
  <2> QED
    BY <1>2, <2>1 DEF CompleteIn
<1>8. Kept(f)'
  BY <1>1, <1>2, <1>3, <1>4, <1>5, <1>6, <1>7 DEF Kept
<1>9. Replaced(f)'
  BY <1>1, <1>2, <1>3, <1>4 DEF Replaced
<1> QED
  BY <1>1, <1>8, <1>9 DEF FileInv

(***************************************************************************)
(* Counters                                                                *)
(***************************************************************************)
\* The least of a set of naturals.
LEMMA MinIs ==
  ASSUME NEW S, S \subseteq Nat, S # {}
  PROVE  Min(S) \in S /\ \A y \in S : Min(S) <= y
<1>1. PICK m \in S : \A y \in S : ~(<<y, m>> \in OpToRel(<, Nat))
  BY NatLessThanWellFounded, WFMin
<1>2. \A y \in S : ~(y < m)
  BY <1>1 DEF OpToRel
<1>3. \A y \in S : m <= y
  BY <1>2
<1> QED
  BY <1>3 DEF Min

\* The greatest of a set of integers with a bound.
LEMMA MaxIs ==
  ASSUME NEW S, S \subseteq Int, S # {}, NEW b \in Int, \A y \in S : y <= b
  PROVE  Max(S) \in S /\ \A y \in S : y <= Max(S)
<1> DEFINE T == {b - y : y \in S}
<1>1. T \subseteq Nat /\ T # {}
  <2>1. \A y \in S : y \in Int /\ b - y \in Nat
    OBVIOUS
  <2>2. T \subseteq Nat
    BY <2>1
  <2>3. PICK y \in S : TRUE
    OBVIOUS
  <2>4. b - y \in T
    OBVIOUS
  <2> QED
    BY <2>2, <2>4
<1>2. PICK t \in T : \A u \in T : ~(<<u, t>> \in OpToRel(<, Nat))
  BY <1>1, NatLessThanWellFounded, WFMin
<1>3. \A u \in T : ~(u < t)
  BY <1>1, <1>2 DEF OpToRel
<1>4. PICK m \in S : t = b - m
  OBVIOUS
<1>5. ASSUME NEW y \in S
      PROVE  y <= m
  <2>1. b - y \in T
    OBVIOUS
  <2>2. ~(b - y < t)
    BY <1>3, <2>1
  <2> QED
    BY <1>4, <2>2
<1>6. \E x \in S : \A y \in S : x >= y
  BY <1>5
<1>7. Max(S) \in S /\ \A y \in S : Max(S) >= y
  BY <1>6 DEF Max
<1> QED
  BY <1>7

\* The greatest of a counter and what may have grown past it.
LEMMA CountMax ==
  ASSUME NEW S, S \subseteq Int, NEW b \in Nat, \A y \in S : y <= b, NEW c \in Nat
  PROVE  Max(S \cup {c}) \in Nat /\ Max(S \cup {c}) \in S \cup {c}
<1> DEFINE all == S \cup {c}
<1>1. all \subseteq Int /\ all # {} /\ c \in all
  OBVIOUS
<1>2. b + c \in Int /\ \A y \in all : y <= b + c
  OBVIOUS
<1> HIDE DEF all
<1>3. Max(all) \in all /\ c <= Max(all)
  BY <1>1, <1>2, MaxIs
<1>4. Max(all) \in Int
  BY <1>1, <1>3
<1>5. Max(all) \in Nat
  BY <1>3, <1>4
<1> QED
  BY <1>3, <1>5 DEF all

\* The counter in the i-th line is one of at most i records (codexParse).
LEMMA OutputType ==
  ASSUME NEW lines, NEW i \in Nat, i >= 1
  PROVE  Output(lines, i) \in Nat /\ Output(lines, i) <= i
<1>1. IsFiniteSet(1..i) /\ Cardinality(1..i) = i
  BY FS_Interval
<1>2. {j \in 1..i : Collected(lines[j])} \in SUBSET (1..i)
  OBVIOUS
<1>3. /\ Cardinality({j \in 1..i : Collected(lines[j])}) \in Nat
      /\ Cardinality({j \in 1..i : Collected(lines[j])}) <= i
  BY <1>1, <1>2, FS_Subset, FS_CardinalityType
<1> QED
  BY <1>3 DEF Output

\* A file whose records were applied has a counter, and keeps it (applyRecord).
LEMMA AppliedCounts ==
  ASSUME CountInv, NEW f \in Files, NEW recs, recs \subseteq 1..MaxLines, applyRecords(f, recs)
  PROVE  /\ CountInv'
         /\ \A g \in Files : g # f => seen'[g] = seen[g]
         /\ recs = {} => seen' = seen
         /\ recs # {} => seen'[f] # Absent
<1>1. MaxLines \in Nat
  BY ConstantTypes
<1>2. CASE recs = {}
  BY <1>2 DEF applyRecords, CountInv
<1>3. CASE recs # {}
  <2> DEFINE counted == IF seen[f] = Absent THEN 0 ELSE seen[f]
             start   == Baseline(f, recs)
             growth  == {Output(text[f], i) - start : i \in recs}
  <2>1. counted \in Nat
    BY DEF CountInv, Counters
  <2>2. start \in Nat
    <3>0. recs \subseteq Nat
      BY <1>1
    <3>1. Min(recs) \in recs
      BY <1>3, <3>0, MinIs
    <3>2. Min(recs) \in 1..MaxLines
      BY <3>1
    <3>4. Min(recs) \in Nat /\ Min(recs) >= 1
      BY <1>1, <3>2
    <3>3. Output(text[f], Min(recs)) \in Nat
      BY <3>4, OutputType
    <3> QED
      BY <3>3 DEF Baseline, CountInv, Counters
  <2>3. \A i \in recs : Output(text[f], i) \in Nat /\ Output(text[f], i) <= MaxLines
    <3> SUFFICES ASSUME NEW i \in recs
                 PROVE  Output(text[f], i) \in Nat /\ Output(text[f], i) <= MaxLines
      OBVIOUS
    <3>1. i \in Nat /\ i >= 1 /\ i <= MaxLines
      BY <1>1
    <3>2. Output(text[f], i) \in Nat /\ Output(text[f], i) <= i
      BY <3>1, OutputType
    <3> QED
      BY <1>1, <3>1, <3>2
  <2>4. Max(growth \cup {counted}) \in Nat
    <3> HIDE DEF counted, start
    <3>1. growth \subseteq Int /\ \A y \in growth : y <= MaxLines
      BY <1>1, <2>2, <2>3
    <3> HIDE DEF growth
    <3> QED
      BY <1>1, <2>1, <3>1, CountMax
  <2>5. Cardinality(recs) \in Nat
    <3>1. IsFiniteSet(1..MaxLines)
      BY <1>1, FS_Interval
    <3> QED
      BY <3>1, FS_Subset, FS_CardinalityType
  <2>6. counted + Cardinality(recs) \in Nat
    BY <2>1, <2>5
  <2>7. PICK n \in Nat : seen' = [seen EXCEPT ![f] = n]
    <3>1. \/ seen' = [seen EXCEPT ![f] = Max(growth \cup {counted})]
          \/ seen' = [seen EXCEPT ![f] = counted + Cardinality(recs)]
      BY <1>3, Zenon DEF applyRecords
    <3> HIDE DEF growth, counted
    <3> QED
      BY <2>4, <2>6, <3>1
  <2>8. base' = base \/ base' = [base EXCEPT ![f] = start]
    BY <1>3, Zenon DEF applyRecords
  <2>9. base' \in [Files -> Counters]
    <3> HIDE DEF start
    <3> QED
      BY <2>2, <2>8 DEF CountInv, Counters
  <2>10. seen' \in [Files -> Counters] /\ seen'[f] = n /\ \A g \in Files : g # f => seen'[g] = seen[g]
    BY <2>7 DEF CountInv, Counters
  <2>11. n # Absent
    BY DEF Absent
  <2> QED
    BY <1>3, <2>9, <2>10, <2>11 DEF CountInv
<1> QED
  BY <1>2, <1>3

(***************************************************************************)
(* The visit of one transcript                                             *)
(***************************************************************************)
\* A line on disk begins before the end of its file.
LEMMA LineStarts ==
  ASSUME TypeOK, NEW f \in Files, NEW i \in 1..Len(text[f])
  PROVE  i \in Nat /\ i >= 1 /\ i <= MaxLines /\ 3 * (i - 1) < Size(f)
<1>1. /\ Size(f) \in Nat /\ Len(text[f]) \in Nat /\ Len(text[f]) <= MaxLines
      /\ text[f] # <<>> => Size(f) = 3 * (Len(text[f]) - 1) + phase[f] /\ phase[f] \in 1..3
      /\ text[f] = <<>> => Len(text[f]) = 0
  BY SizeLines
<1>2. MaxLines \in Nat
  BY ConstantTypes
<1> QED
  BY <1>1, <1>2

\* The watcher marks the end of a file and stands there (Watch).
LEMMA AttachKeeps ==
  ASSUME WatchInv, NEW f \in Files, AttachStat(f)
  PROVE  FileInv(f)' /\ CallInv'
<1>1. /\ TypeOK /\ FileInv(f) /\ CallInv /\ pc = "attach" /\ cur = NoFile /\ f \in todo
  BY DEF WatchInv, AttachStat
<1>2. /\ swapped = {} /\ tracked \cap todo = {}
      /\ \A g \in Files : credit[g] = NoCredit /\ owner[g] = "unknown"
  BY <1>1 DEF CallInv
<1>3. /\ UNCHANGED <<ad, text, phase, gen, swapped, stamps, owner, seen, pc, credit>>
      /\ todo' = todo \ {f}
  BY DEF AttachStat, store
<1>4. SameText(f)
  BY <1>3 DEF SameText
<1>5. CASE UNCHANGED <<offsets, preexisting, mark, tracked, cur>>
  <2>1. SameCredit(f) /\ SameBooks(f)
    BY <1>3, <1>5 DEF SameCredit, SameBooks
  <2>2. FileInv(f)'
    BY <1>1, <1>4, <2>1, FileStays
  <2>3. CallInv'
    BY <1>1, <1>2, <1>3, <1>5 DEF CallInv
  <2> QED
    BY <2>2, <2>3
<1>6. CASE /\ offsets' = [offsets EXCEPT ![f] = Size(f)]
           /\ preexisting' = preexisting \cup {f}
           /\ mark' = [mark EXCEPT ![f] = Size(f)]
           /\ tracked' = tracked \cup {f}
           /\ cur' = IF ad.cumulative THEN [file |-> f, stamp |-> Stamp(f)] ELSE NoFile
  <2>1. /\ offsets'[f] = Size(f) /\ mark'[f] = Size(f)
        /\ f \in preexisting' /\ f \in tracked'
    BY <1>1, <1>6 DEF TypeOK
  <2>2. Size(f)' = Size(f) /\ Size(f) \in Nat /\ Stamp(f)' = Stamp(f)
    <3>1. Size(f)' = Size(f)
      BY <1>4, TextKept
    <3>2. Size(f) \in Nat
      BY <1>1, SizeLines
    <3> QED
      BY <1>3, <3>1, <3>2 DEF Stamp
  <2>3. \A i \in 1..MaxLines : ~(credit'[f][i] > 0)
    <3>1. credit'[f] = NoCredit
      BY <1>2, <1>3
    <3> QED
      BY <3>1 DEF NoCredit
  <2>4. owner'[f] = "unknown"
    BY <1>2, <1>3
  <2>5. Kept(f)'
    BY <1>1, <1>2, <1>3, <1>4, <2>1, <2>2, <2>3, <2>4, TextKept DEF FileInv, Kept
  <2>6. Position(f, offsets[f], owner[f])'
    <3>1. ad'.zstd /\ Aligned(f)' => offsets'[f] % 3 = 0
      BY <2>1 DEF Aligned
    <3>2. ASSUME NEW i \in 1..Len(text'[f]), Claims(f, i)', 3 * (i - 1) < offsets'[f]
          PROVE  FALSE
      <4>1. i \in Nat
        BY <1>1, <1>3, LineStarts
      <4>2. mark'[f] <= 3 * (i - 1)
        BY <3>2 DEF Claims
      <4> QED
        BY <2>1, <2>2, <3>2, <4>1, <4>2
    <3>3. offsets'[f] <= Size(f)' /\ mark'[f] <= offsets'[f]
      BY <2>1, <2>2
    <3> QED
      BY <2>3, <2>4, <3>1, <3>2, <3>3 DEF Position
  <2>7. Settled(f)'
    <3>1. \A i \in 1..Len(text'[f]) : 3 * (i - 1) < offsets'[f]
      BY <1>1, <1>3, <2>1, LineStarts
    <3> QED
      BY <3>1 DEF Settled
  <2>8. FileInv(f)'
    BY <1>2, <1>3, <2>5, <2>6, <2>7 DEF FileInv
  <2>9. cur' # NoFile => cur'.file = f /\ cur'.stamp = Stamp(f)
    BY <1>6
  <2>10. Reading(f, Stamp(f))'
    <3>1. Stamp(f)[1] = gen[f] /\ Stamp(f)[2] = Size(f)
      BY DEF Stamp
    <3>2. gen[f] <= gen[f]
      BY <1>1, ConstantTypes DEF TypeOK
    <3> QED
      BY <1>1, <1>2, <1>3, <2>2, <3>1, <3>2 DEF Reading
  <2>11. cur' # NoFile => Reading(cur.file, cur.stamp)'
    <3>1. ASSUME cur'.file = f, cur'.stamp = Stamp(f)
          PROVE  Reading(cur.file, cur.stamp)'
      BY <2>2, <2>10, <3>1 DEF Reading
    <3> QED
      BY <2>9, <3>1
  <2>12. CallInv'
    BY <1>1, <1>2, <1>3, <1>6, <2>11 DEF CallInv
  <2> QED
    BY <2>8, <2>12
<1> QED
  BY <1>5, <1>6 DEF AttachStat

\* The stat shows a file that was replaced: from what it shows the watcher goes on
\* as if it had read the file from its start (readNew).
LEMMA Looked ==
  ASSUME TypeOK, NEW f \in Files, FileInv(f)
  PROVE  /\ Position(f, OffsetNow(f), OwnerNow(f))
         /\ OffsetNow(f) \in Nat
         /\ OwnerNow(f) # "unknown" => ad.headerCwd
         /\ stamps[f] = Stamp(f) => f \notin swapped
<1>1. Size(f) \in Nat /\ offsets[f] \in Nat /\ stamps[f][1] \in Int /\ gen[f] \in Int
  <2>1. Size(f) \in Nat
    BY SizeLines
  <2>2. offsets[f] \in Nat
    BY PlaceTypes
  <2>3. stamps[f] \in (0..MaxRewrites) \X Sizes /\ gen[f] \in 0..MaxRewrites
    BY DEF TypeOK
  <2>4. stamps[f][1] \in 0..MaxRewrites
    BY <2>3
  <2> QED
    BY <2>1, <2>2, <2>3, <2>4, ConstantTypes
<1>2. CASE f \notin swapped
  <2>1. Position(f, offsets[f], owner[f])
    BY <1>2 DEF FileInv
  <2>2. ~Shrunk(f)
    BY <1>1, <2>1 DEF Position, Shrunk
  <2>3. OffsetNow(f) = offsets[f] /\ OwnerNow(f) = owner[f]
    BY <2>2 DEF OffsetNow, OwnerNow
  <2> QED
    BY <1>1, <1>2, <2>1, <2>3 DEF FileInv, Kept
<1>3. CASE f \in swapped
  <2>1. Replaced(f)
    BY <1>3 DEF FileInv
  <2>2. OffsetNow(f) = 0 /\ OwnerNow(f) = "unknown"
    BY <1>1, <2>1 DEF Replaced, OffsetNow, OwnerNow, Shrunk
  <2>3. \A i \in 1..MaxLines : ~(credit[f][i] > 0)
    BY <2>1 DEF Replaced, NoCredit
  <2>4. \A i \in 1..Len(text[f]) : ~(3 * (i - 1) < 0)
    BY LineStarts
  <2>5. Position(f, 0, "unknown")
    BY <1>1, <2>1, <2>3, <2>4 DEF Position, Replaced
  <2>6. stamps[f] # Stamp(f)
    BY <1>1, <2>1 DEF Replaced, Stamp
  <2> QED
    BY <2>2, <2>5, <2>6
<1> QED
  BY <1>2, <1>3

\* The verdict of owns is right where it says "mine", and where it says "other" it
\* refuses nothing it could have seen whole at the attach.
LEMMA Verdicts ==
  ASSUME TypeOK, NEW f \in Files, FileInv(f)
  PROVE  /\ Verdict(f) = "mine" => /\ OwnerNow(f) # "other"
                                   /\ ad.headerCwd => Claimed(f)
         /\ Verdict(f) = "other" => /\ ad.headerCwd
                                    /\ Refused(f)
                                    /\ f \in tracked => Late(f)
<1>1. /\ Position(f, OffsetNow(f), OwnerNow(f))
      /\ OwnerNow(f) # "unknown" => ad.headerCwd
  BY Looked
<1>2. OwnerNow(f) \in {"unknown", "mine", "other"}
  BY DEF OwnerNow, TypeOK
<1>3. CASE ~ad.headerCwd
  BY <1>1, <1>3 DEF Verdict
<1>4. CASE ad.headerCwd /\ OwnerNow(f) # "unknown"
  BY <1>1, <1>4 DEF Verdict, Position
<1>5. CASE ad.headerCwd /\ OwnerNow(f) = "unknown"
  <2> DEFINE lines == text[f]
             found == Scanned(text[f], Size(f))
             heads == {i \in found : lines[i] \in Headers}
  <2>1. Verdict(f) = HeaderVerdict(text[f], Size(f))
    BY <1>5 DEF Verdict
  <2>2. /\ Size(f) \in Nat /\ Len(lines) \in Nat /\ Size(f) <= 3 * Len(lines)
        /\ lines = <<>> => Len(lines) = 0
        /\ lines # <<>> => Len(lines) >= 1 /\ Size(f) >= 3 * (Len(lines) - 1) + 1
    BY SizeLines
  <2>3. Whole(Size(f)) \in Nat /\ 3 * Whole(Size(f)) <= Size(f) /\ Whole(Size(f)) <= Len(lines)
    <3>1. Whole(Size(f)) \in Nat /\ 3 * Whole(Size(f)) <= Size(f)
      BY <2>2, WholeLines
    <3>2. Len(lines) \in Nat /\ Size(f) \in Nat /\ Size(f) <= 3 * Len(lines)
      BY <2>2
    <3> HIDE DEF lines
    <3> QED
      BY <3>1, <3>2
  <2>4. OwnerScanLines \in Nat /\ OwnerScanLines >= 1
    BY WatcherAssumption DEF WatcherAssumption
  <2>5. \A i \in found : i \in 1..Len(lines) /\ i <= OwnerScanLines
    BY <2>2, <2>3 DEF Scanned
  <2>6. Session(lines) /\ mark[f] <= Size(f) /\ mark[f] \in Nat
    BY DEF FileInv, Kept, TypeOK, Sizes
  <2>7. CASE heads # {}
    <3>1. CASE \E i \in heads : lines[i] = "headMine"
      <4>1. Verdict(f) = "mine"
        BY <2>1, <2>7, <3>1 DEF HeaderVerdict
      <4>2. Claimed(f)
        BY <2>5, <3>1 DEF Claimed
      <4> QED
        BY <1>5, <4>1, <4>2
    <3>2. CASE ~\E i \in heads : lines[i] = "headMine"
      <4>1. Verdict(f) = "other"
        BY <2>1, <2>7, <3>2 DEF HeaderVerdict
      <4>2. PICK i \in 1..Len(lines) : lines[i] = "headOther"
        BY <2>5, <2>7, <3>2 DEF Headers
      <4>3. Refused(f)
        BY <4>2 DEF Refused
      <4>4. ASSUME NEW h \in 1..Len(lines), lines[h] = "headMine"
            PROVE  FALSE
        <5>1. h = i
          BY <1>5, <2>6, <4>2, <4>4 DEF Session, Headers
        <5> QED
          BY <4>2, <4>4, <5>1
      <4>5. Late(f)
        BY <4>4 DEF Late
      <4> QED
        BY <1>5, <4>1, <4>3, <4>5
    <3> QED
      BY <3>1, <3>2
  <2>8. CASE heads = {}
    <3>1. Verdict(f) = IF Undecided(text[f], Size(f)) THEN "unknown" ELSE "other"
      BY <2>1, <2>8 DEF HeaderVerdict
    <3>2. ASSUME ~Undecided(text[f], Size(f))
          PROVE  Refused(f) /\ Late(f)
      <4>1. ~ad.zstd
        <5> SUFFICES ASSUME ad.zstd
                     PROVE  FALSE
          OBVIOUS
        <5>1. Whole(Size(f)) >= 1
          BY <2>3, <3>2 DEF Undecided
        <5>2. 1 \in found
          <6>1. 1 \in 1..Whole(Size(f)) /\ 1 <= OwnerScanLines /\ 3 * 1 <= Size(f)
            BY <2>2, <2>3, <2>4, <5>1
          <6> QED
            BY <6>1 DEF Scanned, CompleteIn
        <5>3. lines # <<>>
          BY <2>2, <2>3, <5>1
        <5>4. lines[1] \in Headers
          BY <2>6, <5>3 DEF Session
        <5> QED
          BY <2>8, <5>2, <5>4
      <4>2. Len(lines) >= OwnerScanLines
        BY <2>2, <2>4, <3>2, <4>1 DEF Undecided
      <4>3. ASSUME NEW h \in 1..Len(lines), lines[h] = "headMine", h <= OwnerScanLines
            PROVE  3 * h - 1 > Size(f)
        <5>1. h \notin found
          BY <2>8, <4>3 DEF Headers
        <5>2. ~CompleteIn(Size(f), h)
          BY <4>1, <4>3, <5>1 DEF Scanned
        <5> QED
          BY <2>2, <4>1, <5>2 DEF CompleteIn
      <4>4. Late(f)
        <5> SUFFICES ASSUME NEW h \in 1..Len(lines), h <= OwnerScanLines, lines[h] = "headMine"
                     PROVE  ~CompleteIn(mark[f], h)
          BY DEF Late
        <5>1. 3 * h - 1 > mark[f]
          BY <2>2, <2>6, <4>3
        <5> QED
          BY <2>6, <4>1, <5>1 DEF CompleteIn
      <4>5. ASSUME NEW h \in 1..Len(lines), lines[h] = "headMine"
            PROVE  h >= OwnerScanLines
        <5>1. CASE h <= OwnerScanLines
          <6>1. 3 * h - 1 > Size(f)
            BY <4>3, <4>5, <5>1
          <6>2. lines # <<>>
            BY <2>2
          <6>3. h = Len(lines)
            BY <2>2, <6>1, <6>2
          <6> QED
            BY <4>2, <6>3
        <5>2. CASE ~(h <= OwnerScanLines)
          BY <2>4, <5>2
        <5> QED
          BY <5>1, <5>2
      <4>6. Refused(f)
        BY <4>1, <4>2, <4>5 DEF Refused
      <4> QED
        BY <4>4, <4>6
    <3> QED
      BY <1>5, <3>1, <3>2
  <2> QED
    BY <2>7, <2>8
<1> QED
  BY <1>3, <1>4, <1>5

\* The fields of the other files, which a visit of one leaves alone.
LEMMA OthersStay ==
  ASSUME TypeOK, NEW f \in Files, NEW g \in Files, g # f, FileInv(g),
         UNCHANGED <<ad, text, phase, gen, seen, tracked, preexisting, mark, credit>>,
         offsets' = offsets \/ \E o : offsets' = [offsets EXCEPT ![f] = o],
         stamps' = stamps \/ \E s : stamps' = [stamps EXCEPT ![f] = s],
         owner' = owner \/ \E w : owner' = [owner EXCEPT ![f] = w],
         swapped' = swapped \/ swapped' = swapped \ {f}
  PROVE  FileInv(g)'
<1>1. SameText(g) /\ SameCredit(g)
  BY DEF SameText, SameCredit
<1>2. offsets'[g] = offsets[g] /\ stamps'[g] = stamps[g] /\ owner'[g] = owner[g]
  BY DEF TypeOK
<1>3. g \in swapped' <=> g \in swapped
  OBVIOUS
<1>4. SameBooks(g)
  BY <1>2, <1>3 DEF SameBooks
<1> QED
  BY <1>1, <1>4, FileStays

\* What every step of a visit has in common: nothing is counted, and the file is
\* no longer one the watcher has yet to see replaced.
Visited(f) ==
  /\ UNCHANGED <<ad, text, phase, gen, preexisting, seen, pc, tracked, mark, credit>>
  /\ swapped' = swapped \ {f}
  /\ pc = "poll"

\* A visit that leaves the watcher at an offset and a verdict that are right keeps
\* the file's invariant, if the new stamp vouches for the whole file or for nothing.
LEMMA VisitKeeps ==
  ASSUME TypeOK, NEW f \in Files, FileInv(f), Visited(f), NEW o, NEW w,
         offsets'[f] = o, owner'[f] = w, Position(f, o, w),
         w # "unknown" => ad.headerCwd,
         \/ stamps'[f] = stamps[f] /\ stamps[f] # Stamp(f)
         \/ stamps'[f] = Stamp(f) /\ (o = Size(f) \/ w = "other")
  PROVE  FileInv(f)'
<1>1. SameText(f) /\ SameCredit(f)
  BY DEF Visited, SameText, SameCredit
<1>2. Position(f, offsets[f], owner[f])'
  BY <1>1, Moves
<1>3. Size(f)' = Size(f)
  BY <1>1, TextKept
<1>4. Stamp(f)' = Stamp(f)
  BY <1>3 DEF Visited, Stamp
<1>5. Settled(f)'
  <2>1. CASE stamps'[f] # Stamp(f)
    BY <1>4, <2>1 DEF Settled
  <2>2. CASE w = "other"
    BY <2>2 DEF Settled
  <2>3. CASE o = Size(f)
    <3>1. \A i \in 1..Len(text'[f]) : 3 * (i - 1) < offsets'[f]
      BY <2>3, LineStarts DEF Visited
    <3> QED
      BY <3>1 DEF Settled
  <2> QED
    BY <2>1, <2>2, <2>3
<1>6. Kept(f)'
  <2>1. Kept(f)
    BY DEF FileInv
  <2>2. /\ Session(text[f])' /\ mark'[f] <= Size(f)'
        /\ seen'[f] = Absent => credit'[f] = NoCredit
        /\ f \in tracked' => \A i \in 1..MaxLines : credit'[f][i] > 0 => mark'[f] <= 3 * (i - 1)
        /\ f \in tracked' /\ f \notin preexisting' =>
              IF ad'.headerCwd THEN Late(f)' ELSE mark'[f] = 0
    BY <1>1, <1>3, <2>1, TextKept, MarkKept DEF Kept, Visited
  <2>3. stamps'[f][1] <= gen'[f] /\ (stamps'[f][1] = gen'[f] => stamps'[f][2] <= Size(f)')
    <3>1. CASE stamps'[f] = stamps[f]
      BY <1>3, <2>1, <3>1 DEF Kept, Visited
    <3>2. CASE stamps'[f] = Stamp(f)
      <4>1. stamps'[f][1] = gen'[f] /\ stamps'[f][2] = Size(f)'
        BY <1>3, <3>2 DEF Stamp, Visited
      <4>2. gen'[f] \in Int /\ Size(f)' \in Int
        BY <1>3, SizeLines, ConstantTypes DEF TypeOK, Visited
      <4> QED
        BY <4>1, <4>2
    <3> QED
      BY <3>1, <3>2
  <2>4. owner'[f] # "unknown" => ad'.headerCwd
    BY DEF Visited
  <2> QED
    BY <2>2, <2>3, <2>4 DEF Kept
<1>7. f \notin swapped'
  BY DEF Visited
<1> QED
  BY <1>2, <1>5, <1>6, <1>7 DEF FileInv

\* The offset and the verdict of a file that is to be read, or is skipped.
LEMMA Decided ==
  ASSUME TypeOK, NEW f \in Files, FileInv(f), NEW v \in {"mine", "other"}, Verdict(f) = v,
         NEW w, w = IF ad.headerCwd THEN v ELSE OwnerNow(f)
  PROVE  /\ v = "mine" => Position(f, OffsetNow(f), w)
         /\ v = "other" => Position(f, Size(f), w) /\ w = "other"
         /\ w # "unknown" => ad.headerCwd
<1>1. /\ Position(f, OffsetNow(f), OwnerNow(f)) /\ OffsetNow(f) \in Nat
      /\ OwnerNow(f) # "unknown" => ad.headerCwd
  BY Looked
<1>2. CASE v = "mine"
  <2>1. OwnerNow(f) # "other" /\ w # "other" /\ (w = "mine" => Claimed(f))
    BY <1>1, <1>2, Verdicts DEF Position
  <2> QED
    BY <1>1, <1>2, <2>1 DEF Position
<1>3. CASE v = "other"
  <2>1. ad.headerCwd /\ Refused(f) /\ (f \in tracked => Late(f))
    BY <1>3, Verdicts
  <2>2. Size(f) \in Nat /\ mark[f] <= Size(f)
    BY SizeLines DEF FileInv, Kept
  <2>3. ASSUME NEW i \in 1..MaxLines, credit[f][i] > 0
        PROVE  credit[f][i] = 1 /\ i <= Len(text[f]) /\ Own(text[f], i) /\ 3 * (i - 1) < Size(f)
    <3>1. credit[f][i] = 1 /\ i <= Len(text[f]) /\ Own(text[f], i)
      BY <1>1, <2>3 DEF Position
    <3>2. i \in 1..Len(text[f])
      BY <3>1, SizeLines
    <3> QED
      BY <3>1, <3>2, LineStarts
  <2>4. Size(f) <= Size(f)
    BY <2>2
  <2> QED
    BY <1>3, <2>1, <2>2, <2>3, <2>4 DEF Position
<1> QED
  BY <1>2, <1>3

\* Every step of a visit keeps what is known of the files.
LEMMA VisitsKeep ==
  ASSUME WatchInv, NEW f \in Files,
         \/ Untouched(f) \/ Undetermined(f) \/ SkipForeign(f) \/ LeaveUnread(f) \/ OpenFile(f)
  PROVE  FileInv(f)'
<1>1. TypeOK /\ FileInv(f)
  BY DEF WatchInv
<1>2. Visited(f)
  BY DEF Untouched, Undetermined, SkipForeign, LeaveUnread, OpenFile, Decides, Visits, At,
     Visited, history
<1>3. offsets \in [Files -> Sizes] /\ owner \in [Files -> {"unknown", "mine", "other"}]
      /\ stamps \in [Files -> Stamps]
  BY <1>1 DEF TypeOK, Stamps
<1>4. /\ Position(f, OffsetNow(f), OwnerNow(f))
      /\ OwnerNow(f) # "unknown" => ad.headerCwd
      /\ stamps[f] = Stamp(f) => f \notin swapped
  BY <1>1, Looked
<1>5. CASE Untouched(f)
  <2>1. f \notin swapped /\ swapped' = swapped \ {f}
    BY <1>2, <1>4, <1>5 DEF Untouched, Visited
  <2>2. SameText(f) /\ SameCredit(f) /\ SameBooks(f)
    BY <1>2, <1>5, <2>1 DEF Untouched, Visited, SameText, SameCredit, SameBooks
  <2> QED
    BY <1>1, <2>2, FileStays
<1>6. CASE Undetermined(f)
  <2>1. /\ offsets'[f] = OffsetNow(f) /\ owner'[f] = OwnerNow(f)
        /\ stamps'[f] = stamps[f] /\ stamps[f] # Stamp(f)
    BY <1>3, <1>6 DEF Undetermined
  <2> QED
    BY <1>1, <1>2, <1>4, <2>1, VisitKeeps
<1>7. ASSUME NEW v \in {"mine", "other"}, Decides(f, v)
      PROVE  /\ owner'[f] = IF ad.headerCwd THEN v ELSE OwnerNow(f)
             /\ v = "mine" => Position(f, OffsetNow(f), owner'[f])
             /\ v = "other" => Position(f, Size(f), owner'[f]) /\ owner'[f] = "other"
             /\ owner'[f] # "unknown" => ad.headerCwd
             /\ stamps[f] # Stamp(f)
  <2>1. owner'[f] = IF ad.headerCwd THEN v ELSE OwnerNow(f)
    BY <1>3, <1>7 DEF Decides
  <2>2. Verdict(f) = v /\ stamps[f] # Stamp(f)
    BY <1>7 DEF Decides
  <2> QED
    BY <1>1, <2>1, <2>2, Decided
<1>8. CASE SkipForeign(f)
  <2>1. Decides(f, "other") /\ offsets'[f] = Size(f) /\ stamps'[f] = Stamp(f)
    BY <1>3, <1>8 DEF SkipForeign
  <2>2. /\ Position(f, Size(f), owner'[f]) /\ owner'[f] = "other"
        /\ owner'[f] # "unknown" => ad.headerCwd
    BY <1>7, <2>1
  <2> QED
    BY <1>1, <1>2, <2>1, <2>2, VisitKeeps
<1>9. CASE LeaveUnread(f)
  <2>1. /\ Decides(f, "mine") /\ offsets'[f] = OffsetNow(f)
        /\ \/ stamps'[f] = stamps[f]
           \/ stamps'[f] = Stamp(f) /\ OffsetNow(f) = Size(f)
    BY <1>3, <1>9 DEF LeaveUnread
  <2>2. /\ Position(f, OffsetNow(f), owner'[f])
        /\ owner'[f] # "unknown" => ad.headerCwd
        /\ stamps[f] # Stamp(f)
    BY <1>7, <2>1
  <2> QED
    BY <1>1, <1>2, <2>1, <2>2, VisitKeeps
<1>10. CASE OpenFile(f)
  <2>1. Decides(f, "mine") /\ offsets'[f] = OffsetNow(f) /\ stamps'[f] = stamps[f]
    BY <1>3, <1>10 DEF OpenFile
  <2>2. /\ Position(f, OffsetNow(f), owner'[f])
        /\ owner'[f] # "unknown" => ad.headerCwd
        /\ stamps[f] # Stamp(f)
    BY <1>7, <2>1
  <2> QED
    BY <1>1, <1>2, <2>1, <2>2, VisitKeeps
<1> QED
  BY <1>5, <1>6, <1>8, <1>9, <1>10

\* They leave the other files alone.
LEMMA VisitsPass ==
  ASSUME WatchInv, NEW f \in Files, NEW g \in Files, g # f,
         \/ AttachStat(f) \/ StatFails(f)
         \/ Untouched(f) \/ Undetermined(f) \/ SkipForeign(f) \/ LeaveUnread(f) \/ OpenFile(f)
  PROVE  FileInv(g)'
<1>1. TypeOK /\ FileInv(g)
  BY DEF WatchInv
<1>2. CASE AttachStat(f)
  <2>1. SameText(g)
    BY <1>2 DEF AttachStat, SameText, store
  <2>2. SameCredit(g)
    BY <1>1, <1>2 DEF AttachStat, SameCredit, TypeOK
  <2>3. SameBooks(g)
    BY <1>1, <1>2 DEF AttachStat, SameBooks, TypeOK, store
  <2> QED
    BY <1>1, <2>1, <2>2, <2>3, FileStays
<1>3. CASE StatFails(f)
  <2>1. UNCHANGED <<ad, text, phase, gen, seen, tracked, preexisting, mark, credit>>
        /\ UNCHANGED <<offsets, stamps, owner, swapped>>
    BY <1>3 DEF StatFails, At, history
  <2> QED
    BY <1>1, <2>1, OthersStay
<1>4. CASE \/ Untouched(f) \/ Undetermined(f) \/ SkipForeign(f) \/ LeaveUnread(f) \/ OpenFile(f)
  <2>1. UNCHANGED <<ad, text, phase, gen, seen, tracked, preexisting, mark, credit>>
        /\ swapped' = swapped \ {f}
    BY <1>4 DEF Untouched, Undetermined, SkipForeign, LeaveUnread, OpenFile, Decides, Visits, At,
       history
  <2>2. offsets' = offsets \/ \E o : offsets' = [offsets EXCEPT ![f] = o]
    BY <1>4 DEF Untouched, Undetermined, SkipForeign, LeaveUnread, OpenFile
  <2>3. stamps' = stamps \/ \E s : stamps' = [stamps EXCEPT ![f] = s]
    BY <1>4 DEF Untouched, Undetermined, SkipForeign, LeaveUnread, OpenFile
  <2>4. owner' = owner \/ \E w : owner' = [owner EXCEPT ![f] = w]
    BY <1>4 DEF Untouched, Undetermined, SkipForeign, LeaveUnread, OpenFile, Decides
  <2> QED
    BY <1>1, <2>1, <2>2, <2>3, <2>4, OthersStay
<1> QED
  BY <1>2, <1>3, <1>4

(***************************************************************************)
(* The read                                                                *)
(***************************************************************************)
\* The records a read returns are lines of the file.
LEMMA RecordsAreLines ==
  ASSUME TypeOK, NEW f \in Files, NEW i \in Records(text[f], Size(f), offsets[f])
  PROVE  i \in 1..Len(text[f]) /\ i \in 1..MaxLines
<1>1. offsets[f] \in Nat
  BY PlaceTypes
<1>2. /\ Size(f) \in Nat /\ Len(text[f]) \in Nat /\ Len(text[f]) <= MaxLines
      /\ Size(f) <= 3 * Len(text[f])
  BY SizeLines
<1>3. i \in Nat /\ i >= 1 /\ 3 * (i - 1) < Size(f)
  BY <1>1, <1>2, RecordPlace
<1>4. i <= Len(text[f]) /\ MaxLines \in Nat
  BY <1>2, <1>3, ConstantTypes
<1> QED
  BY <1>2, <1>3, <1>4

\* A file about to be read is taken for this directory's, and every record the
\* read returns is: begun after the attach, and not counted before.
LEMMA FreshRecords ==
  ASSUME TypeOK, NEW f \in Files, FileInv(f), f \notin swapped,
         ad.headerCwd => owner[f] = "mine",
         NEW i \in Records(text[f], Size(f), offsets[f])
  PROVE  /\ Own(text[f], i)
         /\ credit[f][i] = 0
         /\ f \in tracked => mark[f] <= 3 * (i - 1)
<1>1. Position(f, offsets[f], owner[f]) /\ Kept(f)
  BY DEF FileInv
<1>2. i \in 1..Len(text[f]) /\ i \in 1..MaxLines
  BY RecordsAreLines
<1>3. offsets[f] \in Nat /\ Size(f) \in Nat /\ mark[f] \in Nat
  BY SizeLines, PlaceTypes
<1>4. i \in Nat /\ offsets[f] <= 3 * (i - 1) /\ Collected(text[f][i])
  BY <1>3, RecordPlace
<1>5. ad.headerCwd => Claimed(f)
  BY <1>1 DEF Position
<1>6. Own(text[f], i)
  BY <1>4, <1>5 DEF Own, Claimed
<1>7. credit[f][i] = 0
  <2>1. credit[f][i] \in Nat
    <3>1. credit[f] \in [1..MaxLines -> Nat]
      BY DEF TypeOK
    <3> QED
      BY <1>2, <3>1
  <2>2. credit[f][i] > 0 => 3 * (i - 1) < offsets[f]
    BY <1>1, <1>2 DEF Position
  <2> QED
    BY <1>3, <1>4, <2>1, <2>2
<1>8. ASSUME f \in tracked
      PROVE  mark[f] <= 3 * (i - 1)
  <2>1. CASE f \in preexisting
    <3>1. mark[f] <= offsets[f]
      BY <1>1, <1>8, <2>1 DEF Position
    <3> QED
      BY <1>3, <1>4, <3>1
  <2>2. CASE f \notin preexisting /\ ~ad.headerCwd
    <3>1. mark[f] = 0
      BY <1>1, <1>8, <2>2 DEF Kept
    <3> QED
      BY <1>4, <1>3, <3>1
  <2>3. CASE f \notin preexisting /\ ad.headerCwd
    <3>1. Late(f)
      BY <1>1, <1>8, <2>3 DEF Kept
    <3>2. PICK h \in 1..Len(text[f]) : h <= OwnerScanLines /\ text[f][h] = "headMine"
      BY <1>5, <2>3 DEF Claimed
    <3>3. text[f] \in Seq(LineKinds) /\ Session(text[f])
      BY <1>1 DEF TypeOK, Kept
    <3>4. h < i
      BY <1>2, <1>6, <2>3, <3>2, <3>3, OwnAfterHeader DEF Headers
    <3>5. ~CompleteIn(mark[f], h)
      BY <3>1, <3>2 DEF Late
    <3>6. mark[f] < 3 * h
      BY <1>3, <3>2, <3>5 DEF CompleteIn
    <3>7. h \in Nat
      BY <3>2
    <3> QED
      BY <1>3, <1>4, <3>4, <3>6, <3>7
  <2> QED
    BY <2>1, <2>2, <2>3
<1> QED
  BY <1>6, <1>7, <1>8

\* The step of a successful read on the file it reads.
Reads(f, stamp, full) ==
  LET recs == Records(text[f], Size(f), offsets[f])
  IN /\ UNCHANGED <<ad, text, phase, gen, swapped, preexisting, owner, mark, tracked>>
     /\ offsets' = [offsets EXCEPT ![f] = Committed(text[f], Size(f), @)]
     /\ stamps' = [stamps EXCEPT ![f] = IF full THEN @ ELSE stamp]
     /\ credit' = [credit EXCEPT ![f] =
          [i \in 1..MaxLines |-> IF i \in recs THEN @[i] + 1 ELSE @[i]]]
     /\ recs = {} => seen' = seen
     /\ recs # {} => seen'[f] # Absent

\* A stamp taken before the read is that of the file or older.
StampSound(f, stamp) ==
  /\ stamp[1] <= gen[f]
  /\ stamp[1] = gen[f] => stamp[2] <= Size(f)

\* The read of a file that was replaced since its stat returns nothing.
LEMMA ReplacedRead ==
  ASSUME TypeOK, NEW f \in Files, FileInv(f), f \in swapped,
         NEW stamp \in Stamps, NEW full \in BOOLEAN, Reads(f, stamp, full),
         StampSound(f, stamp), stamp[1] < gen[f], Size(f) < offsets[f]
  PROVE  FileInv(f)'
<1>1. Size(f) \in Nat /\ offsets[f] \in Nat
  BY SizeLines, PlaceTypes
<1>2. /\ Records(text[f], Size(f), offsets[f]) = {}
      /\ Committed(text[f], Size(f), offsets[f]) = offsets[f]
  BY <1>1, NothingBehind
<1>3. credit[f] \in [1..MaxLines -> Nat] /\ offsets \in [Files -> Sizes]
      /\ stamps \in [Files -> Stamps] /\ credit \in [Files -> [1..MaxLines -> Nat]]
  BY DEF TypeOK, Stamps
<1>4. credit'[f] = credit[f]
  <2>1. credit'[f] = [i \in 1..MaxLines |-> IF i \in {} THEN credit[f][i] + 1 ELSE credit[f][i]]
    BY <1>2, <1>3 DEF Reads
  <2>2. credit'[f] = [i \in 1..MaxLines |-> credit[f][i]]
    BY <2>1
  <2> QED
    BY <1>3, <2>2
<1>5. offsets'[f] = offsets[f] /\ (stamps'[f] = stamps[f] \/ stamps'[f] = stamp)
      /\ seen'[f] = seen[f] /\ UNCHANGED <<ad, text, phase, gen, swapped, preexisting, owner, mark, tracked>>
  BY <1>2, <1>3 DEF Reads
<1>6. SameText(f) /\ Kept(f) /\ Replaced(f)
  BY <1>5 DEF SameText, FileInv
<1>7. Size(f)' = Size(f)
  BY <1>6, TextKept
<1>8. Kept(f)'
  BY <1>4, <1>5, <1>6, <1>7, TextKept, MarkKept DEF Kept, StampSound
<1>9. Replaced(f)'
  BY <1>4, <1>5, <1>6, <1>7 DEF Replaced
<1> QED
  BY <1>5, <1>8, <1>9 DEF FileInv

\* The read of a file that was not: it counts what lies between the old offset
\* and the new one, and the stamp vouches for all of it.
LEMMA CountingRead ==
  ASSUME TypeOK, NEW f \in Files, FileInv(f), f \notin swapped,
         ad.headerCwd => owner[f] = "mine",
         NEW stamp \in Stamps, NEW full \in BOOLEAN, Reads(f, stamp, full),
         StampSound(f, stamp),
         full <=> ad.zstd /\ stamp[2] - offsets[f] > 3 * TailFrames
  PROVE  FileInv(f)'
<1> DEFINE recs == Records(text[f], Size(f), offsets[f])
           new  == Committed(text[f], Size(f), offsets[f])
<1>1. Position(f, offsets[f], owner[f]) /\ Kept(f) /\ Settled(f)
  BY DEF FileInv
<1>2. Size(f) \in Nat /\ offsets[f] \in Nat /\ offsets[f] <= Size(f)
  <2>1. offsets[f] <= Size(f)
    BY <1>1 DEF Position
  <2> QED
    BY <2>1, SizeLines, PlaceTypes
<1>3. new \in Nat /\ offsets[f] <= new /\ new <= Size(f)
  BY <1>2, CommittedBounds
<1>4. /\ UNCHANGED <<ad, text, phase, gen, swapped, preexisting, owner, mark, tracked>>
      /\ offsets'[f] = new
      /\ stamps'[f] = IF full THEN stamps[f] ELSE stamp
      /\ recs = {} => seen'[f] = seen[f]
      /\ recs # {} => seen'[f] # Absent
  BY DEF Reads, TypeOK
<1>5. /\ credit'[f] = [i \in 1..MaxLines |-> IF i \in recs THEN credit[f][i] + 1 ELSE credit[f][i]]
      /\ credit[f] \in [1..MaxLines -> Nat]
  BY Zenon DEF Reads, TypeOK
<1>6. ASSUME NEW i \in recs
      PROVE  /\ i \in 1..Len(text[f]) /\ i \in 1..MaxLines
             /\ offsets[f] <= 3 * (i - 1) /\ 3 * (i - 1) < new
             /\ Own(text[f], i) /\ credit[f][i] = 0
             /\ f \in tracked => mark[f] <= 3 * (i - 1)
  <2>1. i \in 1..Len(text[f]) /\ i \in 1..MaxLines
    BY RecordsAreLines
  <2>2. offsets[f] <= 3 * (i - 1) /\ 3 * (i - 1) < new
    BY <1>2, RecordPlace
  <2> QED
    BY <2>1, <2>2, FreshRecords
<1>7. ASSUME NEW i \in 1..Len(text[f]), Own(text[f], i), offsets[f] <= 3 * (i - 1), 3 * (i - 1) < new
      PROVE  i \in recs
  <2>1. i \in Nat /\ Collected(text[f][i])
    BY <1>7 DEF Own
  <2> QED
    BY <1>2, <1>7, <2>1, RecordsAll
<1>8. owner[f] # "other" /\ SameText(f)
  BY <1>1, <1>4 DEF Kept, SameText
<1>9. /\ Size(f)' = Size(f) /\ (Session(text[f])' <=> Session(text[f]))
      /\ (Claimed(f)' <=> Claimed(f)) /\ (Late(f)' <=> Late(f)) /\ (Aligned(f)' <=> Aligned(f))
      /\ (\A i : Own(text[f], i)' <=> Own(text[f], i))
      /\ (\A i : Claims(f, i)' <=> Claims(f, i))
  BY <1>4, <1>8, TextKept, MarkKept
<1>10. Aligned(f) /\ ad.zstd => offsets[f] % 3 = 0 /\ new % 3 = 0
  BY <1>1, <1>2, <1>8, FrameBounds DEF Position
<1> HIDE DEF recs, new
<1>11. \A i \in 1..MaxLines : /\ i \in recs => credit'[f][i] = 1
                              /\ i \notin recs => credit'[f][i] = credit[f][i]
  BY <1>5, <1>6
<1>12. Position(f, offsets[f], owner[f])'
  <2>1. ASSUME NEW i \in 1..MaxLines, credit'[f][i] > 0
        PROVE  /\ credit'[f][i] = 1 /\ i <= Len(text'[f]) /\ Own(text[f], i)'
               /\ 3 * (i - 1) < offsets'[f]
    <3>1. CASE i \in recs
      BY <1>4, <1>6, <1>9, <1>11, <3>1, SizeLines
    <3>2. CASE i \notin recs
      <4>1. credit'[f][i] = credit[f][i]
        BY <1>11, <3>2
      <4>2. credit[f][i] = 1 /\ i <= Len(text[f]) /\ Own(text[f], i) /\ 3 * (i - 1) < offsets[f]
        BY <1>1, <2>1, <4>1 DEF Position
      <4>3. i \in Int
        OBVIOUS
      <4> QED
        BY <1>2, <1>3, <1>4, <1>9, <4>1, <4>2, <4>3
    <3> QED
      BY <3>1, <3>2
  <2>2. ASSUME NEW i \in 1..Len(text'[f]), Claims(f, i)', 3 * (i - 1) < offsets'[f]
        PROVE  credit'[f][i] > 0
    <3>1. i \in 1..Len(text[f]) /\ Claims(f, i) /\ 3 * (i - 1) < new
      BY <1>4, <1>9, <2>2
    <3>2. i \in 1..MaxLines /\ i \in Int
      BY <3>1, LineStarts
    <3>3. CASE offsets[f] <= 3 * (i - 1)
      <4>1. i \in recs
        BY <1>7, <3>1, <3>3 DEF Claims
      <4> QED
        BY <1>11, <3>2, <4>1
    <3>4. CASE 3 * (i - 1) < offsets[f]
      <4>1. credit[f][i] > 0
        BY <1>1, <1>8, <3>1, <3>4 DEF Position
      <4> QED
        BY <1>11, <3>2, <4>1
    <3> QED
      BY <1>2, <3>2, <3>3, <3>4
  <2>3. f \in tracked' /\ f \in preexisting' => mark'[f] <= offsets'[f]
    <3>1. mark[f] \in Nat /\ (f \in tracked /\ f \in preexisting => mark[f] <= offsets[f])
      BY <1>1 DEF Position, TypeOK, Sizes
    <3> QED
      BY <1>2, <1>3, <1>4, <3>1
  <2>4. /\ offsets'[f] <= Size(f)'
        /\ owner'[f] = "mine" => Claimed(f)'
        /\ owner'[f] # "other"
        /\ ad'.zstd /\ Aligned(f)' => offsets'[f] % 3 = 0
    BY <1>1, <1>3, <1>4, <1>8, <1>9, <1>10 DEF Position
  <2> QED
    BY <2>1, <2>2, <2>3, <2>4 DEF Position
<1>13. Settled(f)'
  <2> SUFFICES ASSUME stamps'[f] = Stamp(f)', Aligned(f)', NEW i \in 1..Len(text'[f]),
                      Own(text[f], i)', CompleteIn(Size(f), i)'
               PROVE  3 * (i - 1) < offsets'[f]
    BY DEF Settled
  <2>1. /\ i \in 1..Len(text[f]) /\ Own(text[f], i) /\ Aligned(f)
        /\ CompleteIn(Size(f), i)
    BY <1>4, <1>9 DEF CompleteIn
  <2>2. i \in Nat /\ i >= 1
    BY <2>1, LineStarts
  <2>3. Stamp(f)' = Stamp(f)
    BY <1>4, <1>9 DEF Stamp
  <2>4. CASE full
    <3>1. stamps[f] = Stamp(f)
      BY <1>4, <2>3, <2>4
    <3>2. 3 * (i - 1) < offsets[f]
      BY <1>1, <1>8, <2>1, <3>1 DEF Settled
    <3> QED
      BY <1>2, <1>3, <1>4, <2>2, <3>2
  <2>5. CASE ~full
    <3>1. stamp[2] = Size(f)
      BY <1>4, <2>3, <2>5 DEF Stamp
    <3>2. ad.zstd => offsets[f] % 3 = 0 /\ ~(Size(f) - offsets[f] > 3 * TailFrames)
      BY <1>10, <2>1, <2>5, <3>1
    <3>3. Parses(text[f][i])
      BY <2>1 DEF Own, Collected, Parses
    <3> QED
      BY <1>2, <1>4, <2>1, <2>2, <3>2, <3>3, NothingLeft DEF new
  <2> QED
    BY <2>4, <2>5
<1>14. Kept(f)'
  <2>1. stamps'[f][1] <= gen'[f] /\ (stamps'[f][1] = gen'[f] => stamps'[f][2] <= Size(f)')
    BY <1>1, <1>4, <1>9 DEF Kept, StampSound
  <2>2. seen'[f] = Absent => credit'[f] = NoCredit
    <3> SUFFICES ASSUME seen'[f] = Absent
                 PROVE  credit'[f] = NoCredit
      OBVIOUS
    <3>1. recs = {} /\ seen[f] = Absent
      BY <1>4
    <3>2. credit[f] = NoCredit
      BY <1>1, <3>1 DEF Kept
    <3>3. credit'[f] = [i \in 1..MaxLines |-> credit[f][i]]
      BY <1>5, <3>1
    <3> QED
      BY <1>5, <3>2, <3>3
  <2>3. f \in tracked' => \A i \in 1..MaxLines : credit'[f][i] > 0 => mark'[f] <= 3 * (i - 1)
    BY <1>1, <1>4, <1>6, <1>11 DEF Kept
  <2> QED
    BY <1>1, <1>4, <1>9, <2>1, <2>2, <2>3 DEF Kept
<1> QED
  BY <1>4, <1>12, <1>13, <1>14 DEF FileInv

(***************************************************************************)
(* Every step                                                              *)
(***************************************************************************)
\* The steps of the agents.
LEMMA WriterKeeps ==
  ASSUME WatchInv, NEW f \in Files, Writer(f)
  PROVE  WatchInv'
<1>1. TypeOK /\ TypeOK' /\ FileInv(f)
  BY WriterTypes DEF WatchInv
<1>2. FileInv(f)'
  <2>1. CASE Age(f)
    <3>1. SameText(f) /\ SameCredit(f) /\ SameBooks(f)
      BY <2>1 DEF Age, books, history, SameText, SameCredit, SameBooks
    <3> QED
      BY <1>1, <3>1, FileStays
  <2> QED
    BY <1>1, <2>1, BeginKeeps, ExtendKeeps, RewriteKeeps DEF Writer
<1>3. ASSUME NEW g \in Files, g # f
      PROVE  FileInv(g)'
  <2>1. FileInv(g)
    BY DEF WatchInv
  <2>2. UNCHANGED <<ad, offsets, preexisting, stamps, owner, seen, tracked>>
    BY DEF Writer, BeginLine, ExtendLine, Rewrite, Age, books, history
  <2>3. text'[g] = text[g] /\ phase'[g] = phase[g] /\ gen'[g] = gen[g]
    BY <1>1, <1>3 DEF Writer, BeginLine, ExtendLine, Rewrite, Age, TypeOK
  <2>4. mark'[g] = mark[g] /\ credit'[g] = credit[g]
    BY <1>1, <1>3 DEF Writer, BeginLine, ExtendLine, Rewrite, Age, TypeOK, history
  <2>5. g \in swapped' <=> g \in swapped
    BY <1>3 DEF Writer, BeginLine, ExtendLine, Rewrite, Age
  <2>6. SameText(g) /\ SameCredit(g) /\ SameBooks(g)
    BY <2>2, <2>3, <2>4, <2>5 DEF SameText, SameCredit, SameBooks
  <2> QED
    BY <2>1, <2>6, FileStays
<1>4. UNCHANGED <<pc, todo, cur, tracked, offsets, owner, ad, seen, base>>
  BY DEF Writer, BeginLine, ExtendLine, Rewrite, Age, books, call, history
<1>5. CallInv'
  <2>1. CallInv
    BY DEF WatchInv
  <2>2. ASSUME pc = "attach"
        PROVE  swapped' = {} /\ \A g \in Files : credit'[g] = NoCredit
    <3>1. swapped' = swapped /\ credit' = credit
      BY <2>2 DEF Writer, BeginLine, ExtendLine, Rewrite, Age, history
    <3> QED
      BY <2>1, <2>2, <3>1 DEF CallInv
  <2>3. ASSUME cur # NoFile
        PROVE  Reading(cur.file, cur.stamp)'
    <3>0. PICK g, stamp : g = cur.file /\ stamp = cur.stamp
      OBVIOUS
    <3>1. Reading(g, stamp) /\ g \in Files /\ stamp \in Stamps
      BY <1>1, <2>1, <2>3, <3>0 DEF CallInv, TypeOK, Stamps
    <3>2. stamp[1] \in Nat /\ stamp[2] \in Nat /\ Size(g) \in Nat /\ gen[g] \in Nat
      <4>1. stamp[1] \in 0..MaxRewrites /\ stamp[2] \in Sizes
        BY <3>1 DEF Stamps
      <4>2. gen[g] \in 0..MaxRewrites /\ Size(g) \in Nat
        BY <1>1, <3>1, SizeLines DEF TypeOK
      <4> QED
        BY <4>1, <4>2, ConstantTypes DEF Sizes
    <3>3. ASSUME g # f
          PROVE  Reading(g, stamp)'
      <4>1. text'[g] = text[g] /\ phase'[g] = phase[g] /\ gen'[g] = gen[g]
        BY <1>1, <3>1, <3>3 DEF Writer, BeginLine, ExtendLine, Rewrite, Age, TypeOK
      <4>2. g \in swapped' <=> g \in swapped
        BY <3>3 DEF Writer, BeginLine, ExtendLine, Rewrite, Age
      <4>3. Size(g)' = Size(g)
        BY <1>4, <4>1 DEF Size, SizeOf
      <4> QED
        BY <1>4, <3>1, <4>1, <4>2, <4>3 DEF Reading
    <3>4. ASSUME g = f, gen' = gen, swapped' = swapped
          PROVE  Reading(g, stamp)'
      <4>1. Size(g)' = Size(g) \/ (Size(g)' = Size(g) + 1 /\ StaysShort(f, Size(f) + 1))
        <5>1. CASE Age(f)
          <6>1. SameText(f)
            BY <5>1 DEF Age, SameText
          <6> QED
            BY <3>4, <6>1, TextKept
        <5>2. CASE ExtendLine(f)
          <6>1. text[f] # <<>> /\ text' = text /\ phase'[f] = phase[f] + 1
            BY <1>1, <5>2 DEF ExtendLine, Exists, TypeOK
          <6>2. Size(f)' = 3 * (Len(text[f]) - 1) + (phase[f] + 1)
            BY <6>1 DEF Size, SizeOf
          <6>3. Size(f) = 3 * (Len(text[f]) - 1) + phase[f] /\ phase[f] \in 1..3
                /\ Len(text[f]) \in Nat
            BY <1>1, <6>1, SizeLines
          <6>4. Size(f)' = Size(f) + 1
            BY <6>2, <6>3
          <6>5. StaysShort(f, Size(f) + 1)
            BY <5>2 DEF ExtendLine
          <6> QED
            BY <3>4, <6>4, <6>5
        <5>3. ASSUME NEW l \in LineKinds, BeginLine(f, l)
              PROVE  Size(f)' = Size(f) + 1 /\ StaysShort(f, Size(f) + 1)
          <6>1. text[f] \in Seq(LineKinds) /\ text'[f] = Append(text[f], l) /\ phase'[f] = 1
            BY <1>1, <5>3 DEF BeginLine, TypeOK
          <6>2. Size(f) = 3 * Len(text[f]) /\ Len(text[f]) \in Nat
            BY <1>1, <5>3, SizeLines DEF BeginLine, Exists, Terminated
          <6>3. text'[f] # <<>> /\ Len(text'[f]) = Len(text[f]) + 1
            BY <6>1
          <6>4. Size(f)' = 3 * (Len(text'[f]) - 1) + 1
            BY <6>1, <6>3 DEF Size, SizeOf
          <6> QED
            BY <5>3, <6>2, <6>3, <6>4 DEF BeginLine
        <5>4. ASSUME NEW l \in LineKinds, Rewrite(f, l)
              PROVE  FALSE
          BY <1>1, <3>4, <5>4 DEF Rewrite, TypeOK
        <5>5. Writer(f)
          OBVIOUS
        <5>6. Size(f)' = Size(f) \/ (Size(f)' = Size(f) + 1 /\ StaysShort(f, Size(f) + 1))
          BY <5>1, <5>2, <5>3, <5>4, <5>5, <3>4 DEF Writer
        <5> QED
          BY <3>4, <5>6
      <4>2. g \in swapped /\ Size(g)' # Size(g) => Size(g)' < offsets[g]
        BY <3>4, <4>1 DEF StaysShort
      <4> QED
        BY <1>4, <3>1, <3>2, <3>4, <4>1, <4>2 DEF Reading
    <3>5. ASSUME g = f, NEW l \in LineKinds, Rewrite(f, l)
          PROVE  Reading(g, stamp)'
      <4>1. /\ gen'[f] = gen[f] + 1 /\ text'[f] = <<l>> /\ phase'[f] = 1 /\ offsets[f] > 1
        BY <1>1, <3>5 DEF Rewrite, TypeOK
      <4>2. Size(f)' = 1
        BY <4>1 DEF Size, SizeOf
      <4> QED
        BY <1>4, <3>1, <3>2, <3>5, <4>1, <4>2 DEF Reading
    <3>6. (gen' = gen /\ swapped' = swapped) \/ \E l \in LineKinds : Rewrite(f, l)
      BY DEF Writer, BeginLine, ExtendLine, Age
    <3>7. Reading(g, stamp)'
      BY <3>3, <3>4, <3>5, <3>6
    <3>8. cur'.file = g /\ cur'.stamp = stamp
      BY <1>4, <3>0
    <3> QED
      BY <3>7, <3>8 DEF Reading
  <2> QED
    BY <1>4, <2>1, <2>2, <2>3 DEF CallInv
<1>6. CountInv'
  BY <1>4 DEF WatchInv, CountInv
<1> QED
  BY <1>1, <1>2, <1>3, <1>5, <1>6 DEF WatchInv

\* The steps of a visit, up to the read.
LEMMA ReaderKeeps ==
  ASSUME WatchInv, NEW f \in Files, Reader(f)
  PROVE  WatchInv'
<1>1. TypeOK /\ TypeOK' /\ FileInv(f) /\ CallInv
  BY ReaderTypes DEF WatchInv
<1>2. \A g \in Files : g # f => FileInv(g)'
  BY VisitsPass DEF Reader
<1>3. seen' = seen /\ base' = base
  BY DEF Reader, AttachStat, StatFails, Untouched, Undetermined, SkipForeign, LeaveUnread,
     OpenFile, Decides, Visits, At
<1>4. CountInv'
  BY <1>3 DEF WatchInv, CountInv
<1>5. CASE AttachStat(f)
  BY <1>1, <1>2, <1>4, <1>5, AttachKeeps DEF WatchInv
<1>6. CASE StatFails(f)
  <2>1. SameText(f) /\ SameCredit(f) /\ SameBooks(f)
    BY <1>6 DEF StatFails, At, history, SameText, SameCredit, SameBooks
  <2>2. FileInv(f)'
    BY <1>1, <2>1, FileStays
  <2>3. CallInv'
    BY <1>6 DEF StatFails, At, Leaves, CallInv
  <2> QED
    BY <1>1, <1>2, <1>4, <2>2, <2>3 DEF WatchInv
<1>7. CASE Untouched(f) \/ Undetermined(f) \/ SkipForeign(f) \/ LeaveUnread(f)
  <2>1. pc' = "poll" /\ cur' = NoFile
    BY <1>7 DEF Untouched, Undetermined, SkipForeign, LeaveUnread, Decides, Visits, At, Leaves
  <2>2. CallInv'
    BY <2>1 DEF CallInv
  <2>3. FileInv(f)'
    BY <1>7, VisitsKeep
  <2> QED
    BY <1>1, <1>2, <1>4, <2>2, <2>3 DEF WatchInv
<1>8. CASE OpenFile(f)
  <2>1. pc' = "poll" /\ cur' = [file |-> f, stamp |-> Stamp(f)]
    BY <1>8 DEF OpenFile, Decides, Visits, At
  <2>2. FileInv(f)'
    BY <1>8, VisitsKeep
  <2>3. UNCHANGED <<ad, text, phase, gen>> /\ swapped' = swapped \ {f} /\ Decides(f, "mine")
    BY <1>8 DEF OpenFile, Decides, Visits, At
  <2>4. ad'.headerCwd => owner'[f] = "mine"
    BY <1>1, <2>3 DEF Decides, TypeOK
  <2>5. cur'.file = f /\ cur'.stamp = <<gen[f], Size(f)>>
    BY <2>1 DEF Stamp
  <2>6. Size(f)' = Size(f) /\ Size(f) \in Nat /\ gen[f] \in Nat
    <3>1. SameText(f)
      BY <2>3 DEF SameText
    <3>2. Size(f)' = Size(f) /\ Size(f) \in Nat
      BY <1>1, <3>1, TextKept, SizeLines
    <3>3. gen[f] \in 0..MaxRewrites
      BY <1>1 DEF TypeOK
    <3> QED
      BY <3>2, <3>3, ConstantTypes
  <2>7. Reading(cur.file, cur.stamp)'
    BY <2>3, <2>4, <2>5, <2>6 DEF Reading
  <2>8. CallInv'
    BY <2>1, <2>7 DEF CallInv
  <2> QED
    BY <1>1, <1>2, <1>4, <2>2, <2>8 DEF WatchInv
<1> QED
  BY <1>5, <1>6, <1>7, <1>8 DEF Reader

\* The read.
LEMMA ReadKeeps ==
  ASSUME WatchInv, ReadFile
  PROVE  WatchInv'
<1>0. PICK f, stamp : f = cur.file /\ stamp = cur.stamp
  OBVIOUS
<1> DEFINE recs == Records(text[f], Size(f), offsets[f])
<1>1. TypeOK /\ TypeOK' /\ CallInv /\ CountInv
  BY ReadTypes DEF WatchInv
<1>2. f \in Files /\ stamp \in Stamps /\ pc = "poll" /\ cur # NoFile
  BY <1>0, <1>1 DEF ReadFile, TypeOK, Stamps
<1>3. FileInv(f) /\ Reading(f, stamp)
  BY <1>0, <1>1, <1>2 DEF WatchInv, CallInv
<1>4. /\ UNCHANGED <<ad, text, phase, gen, swapped, preexisting, owner, pc, mark, tracked>>
      /\ cur' = NoFile
  BY DEF ReadFile
<1>5. CallInv'
  BY <1>2, <1>4 DEF CallInv
<1>6. CASE UNCHANGED <<offsets, stamps, base, seen, total, credit>>
  <2>1. \A g \in Files : FileInv(g)'
    <3> SUFFICES ASSUME NEW g \in Files
                 PROVE  FileInv(g)'
      OBVIOUS
    <3>1. SameText(g) /\ SameCredit(g) /\ SameBooks(g)
      BY <1>4, <1>6 DEF SameText, SameCredit, SameBooks
    <3>2. FileInv(g)
      BY DEF WatchInv
    <3> QED
      BY <3>1, <3>2, FileStays
  <2>2. CountInv'
    BY <1>1, <1>6 DEF CountInv
  <2> QED
    BY <1>1, <1>5, <2>1, <2>2 DEF WatchInv
<1>7. CASE /\ applyRecords(f, recs)
           /\ offsets' = [offsets EXCEPT ![f] = Committed(text[f], Size(f), @)]
           /\ stamps' = [stamps EXCEPT ![f] = IF Capped THEN @ ELSE stamp]
           /\ credit' = [credit EXCEPT ![f] =
                [i \in 1..MaxLines |-> IF i \in recs THEN @[i] + 1 ELSE @[i]]]
  <2>1. recs \subseteq 1..MaxLines
    BY <1>1, <1>2, RecordsAreLines
  <2>2. /\ CountInv'
        /\ \A g \in Files : g # f => seen'[g] = seen[g]
        /\ recs = {} => seen' = seen
        /\ recs # {} => seen'[f] # Absent
    BY <1>1, <1>2, <1>7, <2>1, AppliedCounts
  <2>3. PICK full \in BOOLEAN : full <=> Capped
    <3>1. CASE Capped
      BY <3>1
    <3>2. CASE ~Capped
      BY <3>2
    <3> QED
      BY <3>1, <3>2
  <2>8. full <=> ad.zstd /\ stamp[2] - offsets[f] > 3 * TailFrames
    BY <1>0, <2>3 DEF Capped
  <2>9. stamps' = [stamps EXCEPT ![f] = IF full THEN @ ELSE stamp]
    BY <1>7, <2>3
  <2>4. Reads(f, stamp, full)
    BY <1>4, <1>7, <2>2, <2>9, Zenon DEF Reads
  <2>5. StampSound(f, stamp)
    BY <1>3 DEF Reading, StampSound
  <2>6. FileInv(f)'
    <3>1. CASE f \in swapped
      <4>1. stamp[1] < gen[f] /\ Size(f) < offsets[f]
        BY <1>3, <3>1 DEF Reading
      <4> QED
        BY <1>1, <1>2, <1>3, <2>3, <2>4, <2>5, <3>1, <4>1, ReplacedRead
    <3>2. CASE f \notin swapped
      <4>1. ad.headerCwd => owner[f] = "mine"
        BY <1>2, <1>3 DEF Reading
      <4> QED
        BY <1>1, <1>2, <1>3, <2>3, <2>4, <2>5, <2>8, <3>2, <4>1, CountingRead
    <3> QED
      BY <3>1, <3>2
  <2>7. ASSUME NEW g \in Files, g # f
        PROVE  FileInv(g)'
    <3>1. offsets'[g] = offsets[g] /\ stamps'[g] = stamps[g] /\ credit'[g] = credit[g]
          /\ seen'[g] = seen[g]
      BY <1>1, <1>7, <2>2, <2>7 DEF TypeOK
    <3>2. SameText(g) /\ SameCredit(g) /\ SameBooks(g)
      BY <1>4, <3>1 DEF SameText, SameCredit, SameBooks
    <3>3. FileInv(g)
      BY DEF WatchInv
    <3> QED
      BY <3>2, <3>3, FileStays
  <2> QED
    BY <1>1, <1>5, <2>2, <2>6, <2>7 DEF WatchInv
<1> QED
  BY <1>0, <1>6, <1>7, Zenon DEF ReadFile

\* A file is forgotten only if nothing of it was counted, and none of what it held
\* at the attach can be counted later (forgetIdle).
LEMMA ForgetKeeps ==
  ASSUME TypeOK, NEW f \in Files, FileInv(f), SameText(f), NEW live, forgetIdle(live),
         UNCHANGED <<gen, swapped, mark, credit>>
  PROVE  FileInv(f)'
<1> DEFINE keep == Keep(live)
<1>1. /\ stamps'[f] = IF f \in keep THEN stamps[f] ELSE NoStamp
      /\ offsets'[f] = IF f \in keep THEN offsets[f] ELSE 0
      /\ owner'[f] = IF f \in keep THEN owner[f] ELSE "unknown"
      /\ f \in preexisting' <=> f \in preexisting /\ f \in keep
      /\ seen' = seen
      /\ f \in tracked' <=> f \in tracked /\ f \notin Lapsing(live)
  BY DEF forgetIdle
<1> HIDE DEF keep
<1>2. Size(f)' = Size(f) /\ Size(f) \in Nat /\ Kept(f)
  BY SizeLines, TextKept DEF FileInv
<1>3. CASE f \in keep /\ f \notin Lapsing(live)
  <2>1. SameCredit(f) /\ SameBooks(f)
    BY <1>1, <1>3 DEF SameCredit, SameBooks
  <2> QED
    BY <2>1, FileStays
<1>4. CASE f \in keep /\ f \in Lapsing(live)
  <2>1. f \notin tracked' /\ offsets'[f] = offsets[f] /\ stamps'[f] = stamps[f]
        /\ owner'[f] = owner[f] /\ seen'[f] = seen[f]
    BY <1>1, <1>4
  <2>2. Kept(f)'
    BY <1>2, <2>1, TextKept DEF Kept, SameText
  <2>3. f \in swapped' => Replaced(f)'
    BY <1>2, <2>1 DEF FileInv, Replaced
  <2>4. f \notin swapped' => Position(f, offsets[f], owner[f])'
    BY <1>2, <2>1, TextKept, MarkKept DEF FileInv, Position, SameText
  <2>5. f \notin swapped' => Settled(f)'
    <3>1. Stamp(f)' = Stamp(f) /\ text'[f] = text[f]
      BY <1>2 DEF Stamp, SameText
    <3>2. \A i : CompleteIn(Size(f), i)' <=> CompleteIn(Size(f), i)
      BY <1>2 DEF CompleteIn, SameText
    <3> QED
      BY <2>1, <3>1, <3>2, TextKept, MarkKept DEF FileInv, Settled
  <2> QED
    BY <2>2, <2>3, <2>4, <2>5 DEF FileInv
<1>5. CASE f \notin keep
  <2>1. /\ stamps'[f] = NoStamp /\ offsets'[f] = 0 /\ owner'[f] = "unknown"
        /\ f \notin preexisting' /\ seen[f] = Absent /\ seen'[f] = Absent
        /\ f \notin live /\ owner[f] # "mine"
        /\ ~ad.headerCwd => f \notin preexisting
    BY <1>1, <1>5 DEF keep, Keep
  <2>2. credit[f] = NoCredit /\ credit'[f] = NoCredit
    BY <1>2, <2>1 DEF Kept
  <2>3. \A i \in 1..MaxLines : ~(credit'[f][i] > 0)
    BY <2>2 DEF NoCredit
  <2>4. ASSUME f \in tracked'
        PROVE  IF ad.headerCwd THEN Late(f) ELSE mark[f] = 0
    <3>1. f \in tracked /\ f \notin Lapsing(live)
      BY <1>1, <2>4
    <3>2. CASE f \notin preexisting
      BY <1>2, <3>1, <3>2 DEF Kept
    <3>3. CASE f \in preexisting
      <4>1. ad.headerCwd /\ owner[f] # "unknown"
        BY <2>1, <3>1, <3>3 DEF Lapsing
      <4>2. owner[f] = "other"
        BY <2>1, <4>1 DEF TypeOK
      <4>3. CASE f \in swapped
        <5>1. mark[f] = 0
          BY <4>3 DEF FileInv, Replaced
        <5>2. ASSUME NEW h \in 1..Len(text[f])
              PROVE  ~CompleteIn(mark[f], h)
          <6>1. h \in Int /\ h >= 1
            OBVIOUS
          <6> QED
            BY <5>1, <6>1 DEF CompleteIn
        <5> QED
          BY <4>1, <5>2 DEF Late
      <4>4. CASE f \notin swapped
        BY <3>1, <4>1, <4>2, <4>4 DEF FileInv, Position
      <4> QED
        BY <4>3, <4>4
    <3> QED
      BY <3>2, <3>3
  <2>5. gen[f] \in Nat /\ mark[f] \in Nat /\ NoStamp[1] = 0 /\ NoStamp[2] = 0
    BY ConstantTypes DEF TypeOK, Sizes, NoStamp
  <2>6. Kept(f)'
    <3>1. /\ Session(text[f])' /\ mark'[f] <= Size(f)'
          /\ stamps'[f][1] <= gen'[f]
          /\ stamps'[f][1] = gen'[f] => stamps'[f][2] <= Size(f)'
          /\ owner'[f] = "unknown"
          /\ credit'[f] = NoCredit
      BY <1>2, <2>1, <2>2, <2>5, TextKept DEF Kept
    <3>2. f \in tracked' => IF ad'.headerCwd THEN Late(f)' ELSE mark'[f] = 0
      BY <2>4, MarkKept DEF SameText
    <3> QED
      BY <2>3, <3>1, <3>2 DEF Kept
  <2>7. f \in swapped' => Replaced(f)'
    <3> SUFFICES ASSUME f \in swapped
                 PROVE  Replaced(f)'
      OBVIOUS
    <3>1. mark[f] = 0 /\ stamps[f][1] < gen[f]
      BY DEF FileInv, Replaced
    <3>2. stamps[f][1] \in Nat
      <4>1. stamps[f] \in (0..MaxRewrites) \X Sizes
        BY DEF TypeOK
      <4>2. stamps[f][1] \in 0..MaxRewrites
        BY <4>1
      <4> QED
        BY <4>2, ConstantTypes
    <3>3. 0 < gen[f]
      BY <2>5, <3>1, <3>2
    <3> QED
      BY <2>1, <2>2, <2>5, <3>1, <3>3 DEF Replaced
  <2>8. Position(f, offsets[f], owner[f])'
    <3>1. \A i \in 1..Len(text'[f]) : ~(3 * (i - 1) < 0)
      BY LineStarts DEF SameText
    <3> QED
      BY <1>2, <2>1, <2>3, <3>1 DEF Position
  <2>9. Settled(f)'
    <3> SUFFICES ASSUME stamps'[f] = Stamp(f)', NEW i \in 1..Len(text'[f])
                 PROVE  FALSE
      BY DEF Settled
    <3>1. Size(f) = 0
      BY <1>2, <2>1, <2>5 DEF Stamp
    <3>2. i \in Nat /\ 3 * (i - 1) < Size(f) /\ i >= 1
      BY LineStarts DEF SameText
    <3> QED
      BY <3>1, <3>2
  <2> QED
    BY <2>6, <2>7, <2>8, <2>9 DEF FileInv
<1> QED
  BY <1>3, <1>4, <1>5

\* The steps between visits: listing, the sample, and the attach.
LEMMA PollKeeps ==
  ASSUME WatchInv,
         PollCached \/ PollRescan \/ Poll \/ EndPoll \/ seedBaseline \/ AttachDone
  PROVE  WatchInv'
<1>1. TypeOK /\ TypeOK' /\ CallInv /\ CountInv
  BY PollTypes DEF WatchInv
<1>2. ASSUME UNCHANGED <<ad, store, offsets, preexisting, stamps, owner, seen, history>>
      PROVE  \A f \in Files : FileInv(f)'
  <2> SUFFICES ASSUME NEW f \in Files
               PROVE  FileInv(f)'
    OBVIOUS
  <2>1. SameText(f) /\ SameCredit(f) /\ SameBooks(f)
    BY <1>2 DEF store, history, SameText, SameCredit, SameBooks
  <2>2. FileInv(f)
    BY DEF WatchInv
  <2> QED
    BY <2>1, <2>2, FileStays
<1>3. CASE PollRescan
  <2>1. PICK live : forgetIdle(live)
    BY <1>3 DEF PollRescan
  <2>2. UNCHANGED <<ad, text, phase, gen, swapped, mark, credit, cur>> /\ pc = "idle" /\ pc' = "poll"
    BY <1>3 DEF PollRescan, store
  <2>3. \A f \in Files : FileInv(f)'
    <3> SUFFICES ASSUME NEW f \in Files
                 PROVE  FileInv(f)'
      OBVIOUS
    <3>1. FileInv(f) /\ SameText(f)
      BY <2>2 DEF WatchInv, SameText
    <3> QED
      BY <1>1, <2>1, <2>2, <3>1, ForgetKeeps
  <2>4. CallInv'
    BY <1>1, <2>2 DEF CallInv
  <2>5. CountInv'
    <3>1. seen' = seen /\ base' = [f \in Files |-> IF f \in Keep(live) THEN base[f] ELSE Absent]
      BY <2>1 DEF forgetIdle
    <3>2. \A f \in Files : base[f] \in Counters /\ Absent \in Counters
      BY <1>1 DEF CountInv, Counters
    <3> QED
      BY <1>1, <3>1, <3>2 DEF CountInv
  <2> QED
    BY <1>1, <2>3, <2>4, <2>5 DEF WatchInv
<1>4. CASE PollCached \/ Poll \/ EndPoll
  <2>1. UNCHANGED <<ad, store, books, cur, history>> /\ cur = NoFile /\ pc' # "attach"
    BY <1>1, <1>4 DEF PollCached, Poll, EndPoll, call, CallInv
  <2>2. \A f \in Files : FileInv(f)'
    BY <1>2, <2>1 DEF books
  <2>3. CallInv' /\ CountInv'
    BY <1>1, <2>1 DEF CallInv, CountInv, books
  <2> QED
    BY <1>1, <2>2, <2>3 DEF WatchInv
<1>5. CASE AttachDone
  <2>1. UNCHANGED <<ad, store, books, cur, history>> /\ cur = NoFile /\ pc' # "attach"
    BY <1>5 DEF AttachDone
  <2>2. \A f \in Files : FileInv(f)'
    BY <1>2, <2>1 DEF books
  <2>3. CallInv' /\ CountInv'
    BY <1>1, <2>1 DEF CallInv, CountInv, books
  <2> QED
    BY <1>1, <2>2, <2>3 DEF WatchInv
<1>6. CASE seedBaseline
  <2>1. /\ UNCHANGED <<ad, store, offsets, preexisting, stamps, owner, seen, pc, todo, history>>
        /\ cur' = NoFile /\ pc = "attach" /\ cur # NoFile
    BY <1>6 DEF seedBaseline
  <2>2. \A f \in Files : FileInv(f)'
    BY <1>2, <2>1
  <2>3. CallInv'
    BY <1>1, <2>1 DEF CallInv, store, history
  <2>4. CountInv'
    <3> DEFINE f == cur.file
               recs == Records(text[f], Size(f), 0)
               spent == {Output(text[f], i) : i \in recs}
    <3>1. f \in Files
      BY <1>1, <2>1 DEF TypeOK
    <3>2. /\ Size(f) \in Nat /\ Len(text[f]) \in Nat /\ Len(text[f]) <= MaxLines
          /\ Size(f) <= 3 * Len(text[f]) /\ MaxLines \in Nat
      BY <1>1, <3>1, SizeLines, ConstantTypes
    <3>3. \A i \in recs : Output(text[f], i) \in Nat /\ Output(text[f], i) <= MaxLines
      <4> SUFFICES ASSUME NEW i \in recs
                   PROVE  Output(text[f], i) \in Nat /\ Output(text[f], i) <= MaxLines
        OBVIOUS
      <4>1. i \in Nat /\ i >= 1 /\ 3 * (i - 1) < Size(f)
        BY <3>2, RecordPlace
      <4>2. Output(text[f], i) \in Nat /\ Output(text[f], i) <= i
        BY <4>1, OutputType
      <4>3. i <= Len(text[f])
        BY <3>2, <4>1
      <4> QED
        BY <3>2, <4>1, <4>2, <4>3
    <3>4. recs # {} => Max(spent) \in Nat
      <4> SUFFICES ASSUME recs # {}
                   PROVE  Max(spent) \in Nat
        OBVIOUS
      <4>1. spent \subseteq Nat /\ spent # {} /\ \A y \in spent : y <= MaxLines
        BY <3>3
      <4> HIDE DEF spent
      <4>2. spent \subseteq Int /\ MaxLines \in Int
        BY <3>2, <4>1
      <4>3. Max(spent) \in spent
        BY <4>1, <4>2, MaxIs
      <4> QED
        BY <4>1, <4>3
    <3>5. base' = base \/ (recs # {} /\ base' = [base EXCEPT ![f] = Max(spent)])
      BY <1>6, Zenon DEF seedBaseline
    <3>6. base \in [Files -> Counters] /\ seen \in [Files -> Counters] /\ seen' = seen
      BY <1>1, <2>1 DEF CountInv
    <3> HIDE DEF spent, recs, f
    <3>7. base' \in [Files -> Counters]
      BY <3>1, <3>4, <3>5, <3>6 DEF Counters
    <3> QED
      BY <3>6, <3>7 DEF CountInv
  <2> QED
    BY <1>1, <2>2, <2>3, <2>4 DEF WatchInv
<1> QED
  BY <1>3, <1>4, <1>5, <1>6

\* Before the attach nothing is counted.
LEMMA InitWatch ==
  ASSUME Init, TypeOK
  PROVE  WatchInv
<1>1. ASSUME NEW f \in Files
      PROVE  FileInv(f)
  <2>1. /\ offsets[f] = 0 /\ stamps[f] = NoStamp /\ owner[f] = "unknown" /\ seen[f] = Absent
        /\ gen[f] = 0 /\ mark[f] = Size(f) /\ credit[f] = NoCredit /\ swapped = {}
        /\ preexisting = {} /\ (f \in tracked <=> ~Exists(f))
    BY DEF Init
  <2>2. Size(f) \in Nat
    BY SizeLines
  <2>3. Session(text[f])
    <3>1. text[f] \in Sessions /\ text[f] \in Seq(LineKinds)
      BY DEF Init, TypeOK
    <3>2. \A i \in 1..Len(text[f]) : MayFollow(SubSeq(text[f], 1, i - 1), text[f][i])
      BY <3>1 DEF Sessions
    <3>3. \A i \in 1..Len(text[f]) :
             /\ Len(SubSeq(text[f], 1, i - 1)) = i - 1
             /\ \A j \in 1..(i - 1) : SubSeq(text[f], 1, i - 1)[j] = text[f][j]
             /\ i = 1 => SubSeq(text[f], 1, i - 1) = <<>>
      BY <3>1
    <3>4. Len(text[f]) \in Nat /\ (text[f] # <<>> => Len(text[f]) >= 1)
      BY <3>1
    <3>5. ASSUME ad.headerCwd, NEW i \in 1..Len(text[f]), text[f][i] \in Headers
          PROVE  \A j \in 1..(i - 1) : text[f][j] \notin Headers
      BY <3>2, <3>3, <3>5 DEF MayFollow, HasHeader
    <3>6. ASSUME ad.headerCwd, NEW i \in 1..Len(text[f]), NEW j \in 1..Len(text[f]),
                 text[f][i] \in Headers, text[f][j] \in Headers
          PROVE  i = j
      <4>1. ~(i < j) /\ ~(j < i)
        BY <3>5, <3>6
      <4> QED
        BY <4>1
    <3>7. ASSUME ad.headerCwd, NEW i \in 1..Len(text[f]), text[f][i] = "use"
          PROVE  \E h \in 1..(i - 1) : text[f][h] \in Headers
      BY <3>2, <3>3, <3>7 DEF MayFollow, HasHeader
    <3>8. ASSUME ad.zstd, text[f] # <<>>
          PROVE  text[f][1] \in Headers
      <4>1. 1 \in 1..Len(text[f])
        BY <3>4, <3>8
      <4>2. SubSeq(text[f], 1, 1 - 1) = <<>>
        BY <3>3, <4>1
      <4>3. MayFollow(SubSeq(text[f], 1, 1 - 1), text[f][1])
        BY <3>2, <4>1
      <4>4. MayFollow(<<>>, text[f][1])
        BY <4>2, <4>3
      <4>5. ad.headerCwd
        BY <3>8, AdapterKinds DEF TypeOK
      <4> QED
        BY <3>8, <4>4, <4>5 DEF MayFollow
    <3> QED
      BY <3>6, <3>7, <3>8 DEF Session
  <2>4. \A i \in 1..MaxLines : ~(credit[f][i] > 0)
    BY <2>1 DEF NoCredit
  <2>5. f \in tracked => text[f] = <<>> /\ Len(text[f]) = 0 /\ mark[f] = 0
    <3>1. f \in tracked => text[f] = <<>>
      BY <2>1 DEF Exists
    <3> QED
      BY <2>1, <3>1, SizeLines
  <2>6. f \in tracked => Late(f)
    BY <2>5 DEF Late
  <2>7. Kept(f)
    <3>1. stamps[f][1] = 0 /\ stamps[f][2] = 0
      BY <2>1 DEF NoStamp
    <3> QED
      BY <2>1, <2>2, <2>3, <2>4, <2>5, <2>6, <3>1 DEF Kept
  <2>8. \A i \in 1..Len(text[f]) : 3 * (i - 1) < Size(f) /\ ~(3 * (i - 1) < 0)
    BY LineStarts
  <2>9. Position(f, offsets[f], owner[f])
    BY <2>1, <2>2, <2>4, <2>8 DEF Position
  <2>10. Settled(f)
    <3> SUFFICES ASSUME stamps[f] = Stamp(f), NEW i \in 1..Len(text[f])
                 PROVE  FALSE
      BY DEF Settled
    <3>1. Size(f) = 0
      BY <2>1 DEF Stamp, NoStamp
    <3> QED
      BY <2>8, <3>1
  <2> QED
    BY <2>1, <2>7, <2>9, <2>10 DEF FileInv
<1>2. CallInv
  BY DEF Init, CallInv, walkTranscripts
<1>3. CountInv
  BY DEF Init, CountInv, Counters
<1> QED
  BY <1>1, <1>2, <1>3 DEF WatchInv

\* Every step keeps it.
LEMMA NextWatch ==
  ASSUME WatchInv, [Next]_vars
  PROVE  WatchInv'
<1>1. CASE UNCHANGED vars
  <2>1. TypeOK'
    BY <1>1 DEF WatchInv, vars, store, books, listing, call, history, TypeOK, LineKinds
  <2>2. \A f \in Files : FileInv(f)'
    <3> SUFFICES ASSUME NEW f \in Files
                 PROVE  FileInv(f)'
      OBVIOUS
    <3>1. SameText(f) /\ SameCredit(f) /\ SameBooks(f)
      BY <1>1 DEF vars, store, books, history, SameText, SameCredit, SameBooks
    <3>2. FileInv(f)
      BY DEF WatchInv
    <3> QED
      BY <3>1, <3>2, FileStays
  <2>3. CallInv'
    BY <1>1 DEF WatchInv, CallInv, Reading, vars, store, books, call, history, Size, SizeOf
  <2>4. CountInv'
    BY <1>1 DEF WatchInv, CountInv, vars, books
  <2> QED
    BY <2>1, <2>2, <2>3, <2>4 DEF WatchInv
<1>2. CASE Next
  BY <1>2, WriterKeeps, ReaderKeeps, ReadKeeps, PollKeeps DEF Next
<1> QED
  BY <1>1, <1>2

\* In every reachable state the watcher knows of each transcript what it takes to
\* go on without counting twice or missing a record (readNew, owns, forgetIdle).
THEOREM WatchInvariant == Spec => []WatchInv
<1>1. Init /\ TypeOK => WatchInv
  BY InitWatch
<1>2. WatchInv /\ [Next]_vars => WatchInv'
  BY NextWatch
<1> QED
  BY <1>1, <1>2, TypeCorrect, PTL DEF Spec

\* A record is counted at most once, and only if it is this directory's and was
\* begun after the watcher attached, for any interleaving of agents that write,
\* tear and replace their transcripts with reads that fail (readNew, Watch).
THEOREM CountsOnce == Spec => []CreditSound
<1>1. WatchInv => CreditSound
  <2> SUFFICES ASSUME WatchInv, NEW f \in tracked, NEW i \in 1..MaxLines, credit[f][i] > 0
               PROVE  /\ credit[f][i] = 1 /\ i <= Len(text[f]) /\ Own(text[f], i)
                      /\ AfterAttach(f, i)
    BY DEF CreditSound
  <2>1. f \in Files /\ TypeOK /\ CallInv
    BY DEF WatchInv, TypeOK
  <2>2. FileInv(f)
    BY <2>1 DEF WatchInv
  <2>3. f \notin swapped
    <3>0. NoCredit[i] = 0
      BY DEF NoCredit
    <3>1. credit[f] # NoCredit
      BY <3>0
    <3> QED
      BY <2>2, <3>1 DEF FileInv, Replaced
  <2>4. credit[f][i] = 1 /\ i <= Len(text[f]) /\ Own(text[f], i)
    BY <2>2, <2>3 DEF FileInv, Position
  <2>5. f \notin Unmarked
    BY <2>1 DEF CallInv, Unmarked
  <2>6. mark[f] \in Nat /\ mark[f] <= 3 * (i - 1)
    BY <2>1, <2>2 DEF FileInv, Kept, TypeOK, Sizes
  <2> QED
    BY <2>4, <2>5, <2>6 DEF AfterAttach
<1> QED
  BY <1>1, WatchInvariant, PTL

\* A transcript whose stamp matches, which polls skip, holds no record that is
\* still to be counted (readNew's untouched check and the stamps it leaves).
THEOREM SkipsNothing == Spec => []SkipHidesNothing
<1>1. WatchInv => SkipHidesNothing
  <2> SUFFICES ASSUME WatchInv, NEW f \in Files, stamps[f] = Stamp(f), NEW i \in 1..MaxLines,
                      Aligned(f), Due(f, i)
               PROVE  credit[f][i] > 0
    BY DEF SkipHidesNothing
  <2>1. TypeOK /\ FileInv(f)
    BY DEF WatchInv
  <2>2. Position(f, offsets[f], owner[f]) /\ Settled(f) /\ Kept(f)
    BY <2>1, Looked DEF FileInv
  <2>3. /\ i \in 1..Len(text[f]) /\ CompleteIn(Size(f), i) /\ Own(text[f], i)
        /\ Attributable(f) /\ mark[f] <= 3 * (i - 1)
    <3>1. mark[f] \in Nat /\ Len(text[f]) \in Nat
      BY <2>1, SizeLines, PlaceTypes
    <3> QED
      BY <3>1 DEF Due, AfterAttach
  <2>4. owner[f] # "other"
    <3> SUFFICES ASSUME owner[f] = "other"
                 PROVE  FALSE
      OBVIOUS
    <3>1. ad.headerCwd /\ Refused(f) /\ Session(text[f]) /\ text[f] \in Seq(LineKinds)
      BY <2>1, <2>2 DEF Position, Kept, TypeOK
    <3>2. \A h \in 1..Len(text[f]) : text[f][h] \in Headers => text[f][h] = "headMine"
      BY <2>3, <3>1, OwnAfterHeader
    <3>3. \A h \in 1..Len(text[f]) : text[f][h] # "headOther"
      BY <3>2 DEF Headers
    <3>4. \A h \in 1..Len(text[f]) : text[f][h] = "headMine" => h >= OwnerScanLines
      BY <3>1, <3>3 DEF Refused
    <3>5. PICK h \in 1..Len(text[f]) : h < OwnerScanLines /\ text[f][h] \in Headers
      BY <2>3, <3>1 DEF Attributable
    <3>6. h >= OwnerScanLines /\ h \in Nat /\ OwnerScanLines \in Nat
      BY <3>2, <3>4, <3>5, WatcherAssumption DEF WatcherAssumption
    <3> QED
      BY <3>5, <3>6
  <2>5. 3 * (i - 1) < offsets[f]
    BY <2>2, <2>3, <2>4 DEF Settled
  <2>6. Claims(f, i)
    BY <2>3 DEF Claims
  <2> QED
    BY <2>2, <2>3, <2>4, <2>5, <2>6 DEF Position
<1> QED
  BY <1>1, WatchInvariant, PTL

(***************************************************************************)
(* What is counted and what was spent                                      *)
(*                                                                         *)
(* used grows with every own record completed since the attach, in this    *)
(* and in earlier transcripts of the name.  Of the present one, the        *)
(* records are either old, complete in what was there at the attach, or    *)
(* new; a counter that accumulates is never more than the old and the new  *)
(* ones, and its baseline never less than the old ones.                    *)
(***************************************************************************)
Old(f) == {i \in 1..Len(text[f]) : Own(text[f], i) /\ CompleteIn(mark[f], i)}

New(f) ==
  {i \in 1..Len(text[f]) :
     Own(text[f], i) /\ CompleteIn(Size(f), i) /\ ~CompleteIn(mark[f], i)}

\* Complete, and still to be counted.
Pending(f) ==
  {i \in 1..Len(text[f]) :
     Claims(f, i) /\ CompleteIn(Size(f), i) /\ credit[f][i] = 0}

SeenOf(f) == IF seen[f] = Absent THEN 0 ELSE seen[f]

SpentInv(f) ==
  f \in tracked =>
    /\ ad.cumulative => /\ Cardinality(New(f)) <= used[f]
                        /\ SeenOf(f) <= used[f]
                        /\ base[f] # Absent => Cardinality(Old(f)) <= base[f]
    /\ ~ad.cumulative => SeenOf(f) + Cardinality(Pending(f)) <= used[f]

AttachInv ==
  pc = "attach" =>
    /\ \A f \in Files : seen[f] = Absent /\ (f \notin tracked => base[f] = Absent)
    /\ cur # NoFile => cur.file \in tracked

TallyInv ==
  /\ used \in [Files -> Nat]
  /\ \A f \in Files : SpentInv(f)
  /\ AttachInv

\* Lines can be counted.
LEMMA LineSets ==
  ASSUME NEW n \in Nat, NEW S, S \subseteq 1..n
  PROVE  /\ IsFiniteSet(S) /\ Cardinality(S) \in Nat
         /\ \A T \in SUBSET S : Cardinality(T) \in Nat /\ Cardinality(T) <= Cardinality(S)
<1>1. IsFiniteSet(1..n)
  BY FS_Interval
<1>2. IsFiniteSet(S)
  BY <1>1, FS_Subset
<1>3. ASSUME NEW T \in SUBSET S
      PROVE  Cardinality(T) \in Nat /\ Cardinality(T) <= Cardinality(S)
  <2>1. IsFiniteSet(T) /\ Cardinality(T) <= Cardinality(S)
    BY <1>2, FS_Subset
  <2> QED
    BY <2>1, FS_CardinalityType
<1> QED
  BY <1>2, <1>3, FS_CardinalityType

\* The counts of old, new and pending lines are numbers.
LEMMA Counts ==
  ASSUME TypeOK, NEW f \in Files
  PROVE  /\ Cardinality(Old(f)) \in Nat /\ Cardinality(New(f)) \in Nat
         /\ Cardinality(Pending(f)) \in Nat
         /\ IsFiniteSet(Old(f)) /\ IsFiniteSet(New(f)) /\ IsFiniteSet(Pending(f))
<1>1. Len(text[f]) \in Nat
  BY SizeLines
<1>2. Old(f) \subseteq 1..Len(text[f]) /\ New(f) \subseteq 1..Len(text[f])
      /\ Pending(f) \subseteq 1..Len(text[f])
  BY DEF Old, New, Pending
<1> QED
  BY <1>1, <1>2, LineSets

\* What a step leaves of the text, the mark and the credit, it leaves of these.
LEMMA SetsKept ==
  ASSUME NEW f \in Files, SameText(f), mark'[f] = mark[f]
  PROVE  /\ Old(f)' = Old(f) /\ New(f)' = New(f)
         /\ credit'[f] = credit[f] => Pending(f)' = Pending(f)
<1>1. Size(f)' = Size(f) /\ text'[f] = text[f] /\ ad' = ad
  BY TextKept DEF SameText
<1>2. (\A i : Own(text[f], i)' <=> Own(text[f], i)) /\ (\A i : Claims(f, i)' <=> Claims(f, i))
  BY TextKept, MarkKept
<1>3. /\ \A i : CompleteIn(Size(f), i)' <=> CompleteIn(Size(f), i)
      /\ \A i : CompleteIn(mark[f], i)' <=> CompleteIn(mark[f], i)
  BY <1>1 DEF CompleteIn
<1> QED
  BY <1>1, <1>2, <1>3 DEF Old, New, Pending

\* A step that leaves a file and its counters alone keeps what was counted in
\* proportion; a baseline may be forgotten, and a file be tracked no more.
LEMMA SpentStays ==
  ASSUME NEW f \in Files, SpentInv(f), SameText(f), mark'[f] = mark[f], credit'[f] = credit[f],
         seen'[f] = seen[f], used'[f] = used[f], f \in tracked' => f \in tracked,
         base'[f] = base[f] \/ base'[f] = Absent
  PROVE  SpentInv(f)'
<1>1. Old(f)' = Old(f) /\ New(f)' = New(f) /\ Pending(f)' = Pending(f) /\ ad' = ad
  BY SetsKept DEF SameText
<1>2. SeenOf(f)' = SeenOf(f)
  BY DEF SeenOf
<1> QED
  BY <1>1, <1>2 DEF SpentInv

\* A new line is complete in nothing yet (BeginLine).
LEMMA BeginSpends ==
  ASSUME TypeOK, NEW f \in Files, FileInv(f), SpentInv(f), NEW l \in LineKinds, BeginLine(f, l)
  PROVE  SpentInv(f)'
<1>0. PICK n : n = Len(text[f])
  OBVIOUS
<1>1. /\ ad' = ad /\ mark' = mark /\ tracked' = tracked /\ credit' = credit /\ used' = used
      /\ seen' = seen /\ base' = base
      /\ MayFollow(text[f], l) /\ text[f] \in Seq(LineKinds) /\ ad \in Adapters
  BY DEF BeginLine, books, history, TypeOK
<1>2. text'[f] = Append(text[f], l) /\ phase'[f] = 1 /\ n \in Nat /\ Len(text'[f]) = n + 1
  <2>1. text'[f] = Append(text[f], l) /\ phase'[f] = 1
    BY DEF BeginLine, TypeOK
  <2> QED
    BY <1>0, <1>1, <2>1
<1>3. Size(f) = 3 * n /\ Size(f) \in Nat
  BY <1>0, SizeLines DEF BeginLine, Exists, Terminated
<1>4. Size(f)' = 3 * n + 1
  <2>1. text'[f] # <<>>
    BY <1>2
  <2>2. Size(f)' = 3 * ((n + 1) - 1) + 1
    BY <1>2, <2>1 DEF Size, SizeOf
  <2> QED
    BY <1>2, <2>2
<1>5. mark[f] \in Nat /\ mark[f] <= 3 * n
  BY <1>3 DEF FileInv, Kept, TypeOK, Sizes
<1>6. \A i \in 1..n : Own(text[f], i)' <=> Own(text[f], i)
  <2>1. \A i \in 1..n : Own(Append(text[f], l), i) <=> Own(text[f], i)
    BY <1>0, <1>1, SessionGrows DEF FileInv, Kept
  <2> QED
    BY <1>1, <1>2, <2>1 DEF Own
<1>7. \A i \in 1..n : (Claims(f, i)' <=> Claims(f, i)) /\ (CompleteIn(Size(f), i)' <=> CompleteIn(Size(f), i))
                      /\ (CompleteIn(mark[f], i)' <=> CompleteIn(mark[f], i))
  <2> SUFFICES ASSUME NEW i \in 1..n
               PROVE  (Claims(f, i)' <=> Claims(f, i))
                      /\ (CompleteIn(Size(f), i)' <=> CompleteIn(Size(f), i))
                      /\ (CompleteIn(mark[f], i)' <=> CompleteIn(mark[f], i))
    OBVIOUS
  <2>1. 3 * i <= 3 * n /\ 3 * i <= 3 * n + 1 /\ 3 * i - 1 <= 3 * n /\ 3 * i - 1 <= 3 * n + 1
    BY <1>2
  <2>2. CompleteIn(Size(f), i) /\ CompleteIn(Size(f), i)'
    BY <1>1, <1>3, <1>4, <2>1 DEF CompleteIn
  <2>3. CompleteIn(mark[f], i)' <=> CompleteIn(mark[f], i)
    BY <1>1 DEF CompleteIn
  <2>4. Claims(f, i)' <=> Claims(f, i)
    BY <1>1, <1>6 DEF Claims
  <2> QED
    BY <2>2, <2>3, <2>4
<1>8. ~CompleteIn(Size(f), n + 1)' /\ ~CompleteIn(mark[f], n + 1)'
  <2>1. ~(3 * (n + 1) <= 3 * n + 1) /\ ~(3 * (n + 1) - 1 <= 3 * n + 1)
    BY <1>2
  <2>2. ~(3 * (n + 1) <= mark[f]) /\ ~(3 * (n + 1) - 1 <= mark[f])
    <3> DEFINE k == mark[f]
    <3>1. k \in Nat /\ k <= 3 * n
      BY <1>5
    <3> HIDE DEF k
    <3>2. ~(3 * (n + 1) <= k) /\ ~(3 * (n + 1) - 1 <= k)
      BY <1>2, <3>1
    <3> QED
      BY <3>2 DEF k
  <2>3. ~CompleteIn(mark[f], n + 1)'
    BY <1>1, <2>2 DEF CompleteIn
  <2>4. ~CompleteIn(Size(f), n + 1)'
    BY <1>1, <1>4, <2>1 DEF CompleteIn
  <2> QED
    BY <2>3, <2>4
<1>9. \A i : i \in 1..Len(text'[f]) <=> i \in 1..n \/ i = n + 1
  BY <1>2
<1>10. Old(f)' = Old(f)
  BY <1>0, <1>6, <1>7, <1>8, <1>9 DEF Old
<1>11. New(f)' = New(f)
  BY <1>0, <1>6, <1>7, <1>8, <1>9 DEF New
<1>12. Pending(f)' = Pending(f)
  BY <1>0, <1>1, <1>7, <1>8, <1>9 DEF Pending
<1> QED
  BY <1>1, <1>10, <1>11, <1>12 DEF SpentInv, SeenOf

\* One line more is one more at most.
LEMMA OneMore ==
  ASSUME NEW S, IsFiniteSet(S), NEW n, NEW T, T \subseteq S \cup {n}
  PROVE  IsFiniteSet(T) /\ Cardinality(T) \in Nat /\ Cardinality(T) <= Cardinality(S) + 1
<1>1. Cardinality(S) \in Nat
  BY FS_CardinalityType
<1>2. IsFiniteSet(S \cup {n})
  BY FS_AddElement
<1>3. Cardinality(S \cup {n}) = Cardinality(S) \/ Cardinality(S \cup {n}) = Cardinality(S) + 1
  BY FS_AddElement
<1>4. IsFiniteSet(T) /\ Cardinality(T) <= Cardinality(S \cup {n})
  BY <1>2, FS_Subset
<1>5. Cardinality(T) \in Nat
  BY <1>4, FS_CardinalityType
<1> QED
  BY <1>1, <1>3, <1>4, <1>5

\* The write that completes a record is the one used counts (ExtendLine).
LEMMA ExtendSpends ==
  ASSUME TypeOK, TypeOK', CountInv, CallInv, used \in [Files -> Nat],
         NEW f \in Files, FileInv(f), SpentInv(f), ExtendLine(f)
  PROVE  SpentInv(f)' /\ used' \in [Files -> Nat] /\ \A g \in Files : g # f => used'[g] = used[g]
<1>0. PICK n : n = Len(text[f])
  OBVIOUS
<1>1. /\ ad' = ad /\ text' = text /\ mark' = mark /\ tracked' = tracked /\ credit' = credit
      /\ seen' = seen /\ base' = base /\ Completes(f, Size(f) + 1)
  BY DEF ExtendLine, books
<1>2. /\ Size(f)' = Size(f) + 1 /\ Size(f) \in Nat /\ n \in Nat /\ n >= 1
      /\ 3 * (n - 1) <= Size(f)
  <2>1. phase'[f] = phase[f] + 1 /\ text[f] # <<>>
    BY DEF ExtendLine, TypeOK, Exists
  <2>2. n \in Nat /\ n >= 1 /\ Size(f) \in Nat /\ Size(f) = 3 * (n - 1) + phase[f]
        /\ phase[f] \in 1..3
    BY <1>0, <2>1, SizeLines
  <2>3. Size(f)' = 3 * (n - 1) + (phase[f] + 1)
    BY <1>0, <1>1, <2>1 DEF Size, SizeOf
  <2> QED
    BY <2>2, <2>3
<1> DEFINE done == /\ CompleteIn(Size(f) + 1, n) /\ ~CompleteIn(Size(f), n)
                   /\ Own(text[f], n) /\ f \notin Unmarked
<1>3. used' = IF done THEN [used EXCEPT ![f] = @ + 1] ELSE used
  BY <1>0, <1>1 DEF Completes
<1>4. used[f] \in Nat /\ used'[f] = IF done THEN used[f] + 1 ELSE used[f]
  BY <1>3
<1>5. used' \in [Files -> Nat] /\ \A g \in Files : g # f => used'[g] = used[g]
  BY <1>3
<1>6. ASSUME f \in tracked
      PROVE  f \notin Unmarked
  BY <1>6 DEF CallInv, Unmarked
<1>7. /\ \A i : Own(text[f], i)' <=> Own(text[f], i)
      /\ \A i : Claims(f, i)' <=> Claims(f, i)
      /\ \A i : CompleteIn(mark[f], i)' <=> CompleteIn(mark[f], i)
      /\ \A i : CompleteIn(Size(f), i)' <=> CompleteIn(Size(f) + 1, i)
  BY <1>1, <1>2 DEF Own, Claims, CompleteIn
<1>8. \A i \in 1..n : i # n => CompleteIn(Size(f), i)
  <2> SUFFICES ASSUME NEW i \in 1..n, i # n
               PROVE  CompleteIn(Size(f), i)
    OBVIOUS
  <2>1. 3 * i <= Size(f) /\ 3 * i - 1 <= Size(f)
    BY <1>2
  <2> QED
    BY <2>1 DEF CompleteIn
<1>9. Old(f)' = Old(f)
  BY <1>1, <1>7 DEF Old
<1>10. New(f)' \subseteq New(f) \cup {n} /\ Pending(f)' \subseteq Pending(f) \cup {n}
  BY <1>0, <1>1, <1>7, <1>8 DEF New, Pending
<1>11. ASSUME ~CompleteIn(Size(f) + 1, n) \/ CompleteIn(Size(f), n) \/ ~Own(text[f], n)
       PROVE  New(f)' \subseteq New(f) /\ Pending(f)' \subseteq Pending(f)
  BY <1>0, <1>1, <1>7, <1>8, <1>11 DEF New, Pending, Claims
<1>12. Cardinality(New(f)) \in Nat /\ Cardinality(Pending(f)) \in Nat
       /\ IsFiniteSet(New(f)) /\ IsFiniteSet(Pending(f))
  BY Counts
<1>13. SeenOf(f)' = SeenOf(f) /\ SeenOf(f) \in Nat
  BY <1>1 DEF SeenOf, CountInv, Counters
<1>14. /\ Cardinality(New(f)') \in Nat /\ Cardinality(New(f)') <= Cardinality(New(f)) + 1
       /\ Cardinality(Pending(f)') \in Nat /\ Cardinality(Pending(f)') <= Cardinality(Pending(f)) + 1
  BY <1>10, <1>12, OneMore
<1>15. ASSUME ~done, f \in tracked
       PROVE  /\ Cardinality(New(f)') <= Cardinality(New(f))
              /\ Cardinality(Pending(f)') <= Cardinality(Pending(f))
  <2>1. New(f)' \subseteq New(f) /\ Pending(f)' \subseteq Pending(f)
    BY <1>6, <1>11, <1>15
  <2> QED
    BY <1>12, <2>1, FS_Subset
<1>16. PICK d \in {0, 1} : /\ used'[f] = used[f] + d
                           /\ f \in tracked =>
                                /\ Cardinality(New(f)') <= Cardinality(New(f)) + d
                                /\ Cardinality(Pending(f)') <= Cardinality(Pending(f)) + d
  <2>1. CASE done
    BY <1>4, <1>14, <2>1
  <2>2. CASE ~done
    <3>1. f \in tracked => /\ Cardinality(New(f)') <= Cardinality(New(f)) + 0
                           /\ Cardinality(Pending(f)') <= Cardinality(Pending(f)) + 0
      BY <1>12, <1>14, <1>15, <2>2
    <3>2. used'[f] = used[f] + 0
      BY <1>4, <2>2
    <3> QED
      BY <3>1, <3>2
  <2> QED
    BY <2>1, <2>2
<1>17. SpentInv(f)'
  <2> SUFFICES ASSUME f \in tracked'
               PROVE  /\ ad'.cumulative => /\ Cardinality(New(f)') <= used'[f]
                                           /\ SeenOf(f)' <= used'[f]
                                           /\ base'[f] # Absent => Cardinality(Old(f)') <= base'[f]
                      /\ ~ad'.cumulative => SeenOf(f)' + Cardinality(Pending(f)') <= used'[f]
    BY DEF SpentInv
  <2>1. f \in tracked
    BY <1>1
  <2>2. CASE ad.cumulative
    <3>1. /\ Cardinality(New(f)) <= used[f] /\ SeenOf(f) <= used[f]
          /\ base[f] # Absent => Cardinality(Old(f)) <= base[f]
      BY <2>1, <2>2 DEF SpentInv
    <3>2. Cardinality(New(f)') <= used'[f] /\ SeenOf(f)' <= used'[f]
      BY <1>4, <1>12, <1>13, <1>14, <1>16, <2>1, <3>1
    <3>3. base'[f] # Absent => Cardinality(Old(f)') <= base'[f]
      BY <1>1, <1>9, <3>1
    <3> QED
      BY <1>1, <2>2, <3>2, <3>3
  <2>3. CASE ~ad.cumulative
    <3>1. SeenOf(f) + Cardinality(Pending(f)) <= used[f]
      BY <2>1, <2>3 DEF SpentInv
    <3>2. SeenOf(f)' + Cardinality(Pending(f)') <= used'[f]
      BY <1>4, <1>12, <1>13, <1>14, <1>16, <2>1, <3>1
    <3> QED
      BY <1>1, <2>3, <3>2
  <2> QED
    BY <2>2, <2>3
<1> QED
  BY <1>5, <1>17

\* Of a replaced transcript nothing is complete yet (Rewrite).
LEMMA RewriteSpends ==
  ASSUME TypeOK, CountInv, used \in [Files -> Nat], NEW f \in Files, SpentInv(f),
         NEW l \in LineKinds, Rewrite(f, l)
  PROVE  SpentInv(f)'
<1>1. /\ ad' = ad /\ tracked' = tracked /\ used' = used /\ seen' = seen /\ base' = base
      /\ text'[f] = <<l>> /\ phase'[f] = 1 /\ mark'[f] = 0
  BY DEF Rewrite, books, TypeOK
<1>2. Size(f)' = 1 /\ Len(text'[f]) = 1
  BY <1>1 DEF Size, SizeOf
<1>3. \A i \in 1..Len(text'[f]) : ~CompleteIn(Size(f), i)' /\ ~CompleteIn(mark[f], i)'
  BY <1>1, <1>2 DEF CompleteIn
<1>4. Old(f)' = {} /\ New(f)' = {} /\ Pending(f)' = {}
  BY <1>3 DEF Old, New, Pending
<1>5. Cardinality({}) = 0
  BY FS_EmptySet
<1>6. SeenOf(f)' = SeenOf(f) /\ SeenOf(f) \in Nat /\ used[f] \in Nat /\ base[f] \in Counters
  BY <1>1 DEF SeenOf, CountInv, Counters
<1>7. base[f] # Absent => base[f] >= 0
  BY <1>6 DEF Counters
<1>8. Cardinality(Pending(f)) \in Nat
  BY Counts
<1>9. ASSUME f \in tracked
      PROVE  SeenOf(f) <= used[f]
  BY <1>6, <1>8, <1>9 DEF SpentInv
<1> QED
  BY <1>1, <1>4, <1>5, <1>6, <1>7, <1>9 DEF SpentInv
\* A read returns complete records only.
LEMMA RecordsComplete ==
  ASSUME NEW lines, NEW size \in Nat, NEW off \in Nat, NEW i \in Records(lines, size, off)
  PROVE  CompleteIn(size, i)
<1>1. i \in Nat /\ i >= 1
  BY RecordPlace
<1>2. PICK last : last = LastRead(lines, size, off)
  OBVIOUS
<1>3. /\ last \in Nat /\ i <= last
      /\ last > Whole(size) => last = Whole(size) + 1 /\ size % 3 = 2
  <2>1. /\ last \in Nat
        /\ last > Whole(size) => last = Whole(size) + 1 /\ size % 3 = 2
    BY <1>2, LastBounds
  <2>2. FirstFrom(off) \in Nat
    BY SeenFrom
  <2>3. i <= last
    BY <1>1, <1>2, <2>1, <2>2 DEF Records
  <2> QED
    BY <2>1, <2>3
<1>4. Whole(size) \in Nat /\ 3 * Whole(size) <= size
  BY WholeLines
<1>5. CASE ad.zstd
  <2>1. TailFrames \in Nat /\ Whole(off) \in Nat
    BY WatcherAssumption, WholeLines DEF WatcherAssumption
  <2>2. last <= Whole(size)
    BY <1>2, <1>4, <1>5, <2>1 DEF LastRead
  <2> QED
    BY <1>1, <1>3, <1>4, <1>5, <2>2 DEF CompleteIn
<1>6. CASE ~ad.zstd
  <2>1. CASE last > Whole(size)
    <3>1. size = 3 * Whole(size) + 2
      BY <1>3, <2>1 DEF Whole
    <3>2. 3 * i - 1 <= size
      BY <1>1, <1>3, <1>4, <2>1, <3>1
    <3> QED
      BY <1>6, <3>2 DEF CompleteIn
  <2>2. CASE last <= Whole(size)
    <3>1. 3 * i - 1 <= size
      BY <1>1, <1>3, <1>4, <2>2
    <3> QED
      BY <1>6, <3>1 DEF CompleteIn
  <2> QED
    BY <1>3, <1>4, <2>1, <2>2
<1> QED
  BY <1>5, <1>6

\* What precedes a complete record in a transcript is complete, also in a larger file.
LEMMA CompleteBefore ==
  ASSUME NEW size \in Nat, NEW n \in Nat, size <= n, NEW i \in Nat, NEW j \in Nat, j <= i,
         CompleteIn(size, i)
  PROVE  CompleteIn(n, j)
BY DEF CompleteIn

\* The counter an own record carries is that of the old and new records up to it.
LEMMA OutputSplit ==
  ASSUME TypeOK, NEW f \in Files, ad.cumulative, NEW i \in 1..Len(text[f]),
         Own(text[f], i), CompleteIn(Size(f), i)
  PROVE  Output(text[f], i) <= Cardinality(Old(f)) + Cardinality(New(f))
<1>1. Size(f) \in Nat /\ Len(text[f]) \in Nat
  BY SizeLines
<1> DEFINE upto == {j \in 1..i : Collected(text[f][j])}
<1>2. \A j \in upto : j \in 1..Len(text[f]) /\ Own(text[f], j) /\ CompleteIn(Size(f), j)
  <2> SUFFICES ASSUME NEW j \in 1..i, Collected(text[f][j])
               PROVE  j \in 1..Len(text[f]) /\ Own(text[f], j) /\ CompleteIn(Size(f), j)
    OBVIOUS
  <2>1. j \in Nat /\ i \in Nat /\ j <= i /\ j \in 1..Len(text[f])
    BY <1>1
  <2>2. CompleteIn(Size(f), j)
    BY <1>1, <2>1, CompleteBefore
  <2> QED
    BY <2>1, <2>2 DEF Own
<1>3. upto \subseteq Old(f) \cup New(f)
  BY <1>2 DEF Old, New
<1>4. /\ Cardinality(Old(f)) \in Nat /\ Cardinality(New(f)) \in Nat
      /\ IsFiniteSet(Old(f)) /\ IsFiniteSet(New(f))
  BY Counts
<1>5. /\ IsFiniteSet(Old(f) \cup New(f))
      /\ Cardinality(Old(f) \cup New(f)) <= Cardinality(Old(f)) + Cardinality(New(f))
  <2>1. /\ IsFiniteSet(Old(f) \cup New(f))
        /\ Cardinality(Old(f) \cup New(f)) =
             Cardinality(Old(f)) + Cardinality(New(f)) - Cardinality(Old(f) \cap New(f))
    BY <1>4, FS_Union
  <2>2. Cardinality(Old(f) \cap New(f)) \in Nat
    BY <1>4, FS_Intersection, FS_CardinalityType
  <2> QED
    BY <1>4, <2>1, <2>2
<1>6. /\ Cardinality(upto) \in Nat
      /\ Cardinality(upto) <= Cardinality(Old(f) \cup New(f))
  BY <1>3, <1>5, FS_Subset, FS_CardinalityType
<1>7. Cardinality(Old(f) \cup New(f)) \in Nat
  BY <1>5, FS_CardinalityType
<1>8. Output(text[f], i) = Cardinality(upto)
  BY DEF Output
<1> QED
  BY <1>4, <1>5, <1>6, <1>7, <1>8

\* It is no less than the number of old records, if they all precede it.
LEMMA OutputCovers ==
  ASSUME TypeOK, NEW f \in Files, ad.cumulative, NEW i \in Nat, i >= 1,
         \A j \in Old(f) : j <= i
  PROVE  Cardinality(Old(f)) <= Output(text[f], i)
<1> DEFINE upto == {j \in 1..i : Collected(text[f][j])}
<1>1. Len(text[f]) \in Nat
  BY SizeLines
<1>2. Old(f) \subseteq upto
  <2> SUFFICES ASSUME NEW j \in Old(f)
               PROVE  j \in upto
    OBVIOUS
  <2>1. j \in 1..Len(text[f]) /\ Own(text[f], j) /\ j <= i
    BY DEF Old
  <2>2. Collected(text[f][j]) /\ j \in 1..i
    BY <1>1, <2>1 DEF Own
  <2> QED
    BY <2>2
<1>3. IsFiniteSet(upto)
  BY LineSets
<1>4. Output(text[f], i) = Cardinality(upto)
  BY DEF Output
<1> HIDE DEF upto
<1> QED
  BY <1>2, <1>3, <1>4, FS_Subset

\* seedBaseline reads no less than what the session had spent before the attach.
LEMMA SeedSpends ==
  ASSUME TypeOK, CountInv, NEW f \in Files, FileInv(f), SpentInv(f), f \in tracked, SameText(f),
         UNCHANGED <<mark, credit, seen, used, tracked>>,
         NEW recs, recs = Records(text[f], Size(f), 0), recs # {},
         base' = [base EXCEPT ![f] = Max({Output(text[f], i) : i \in recs})]
  PROVE  SpentInv(f)'
<1> DEFINE outputs == {Output(text[f], i) : i \in recs}
<1>0. Size(f) \in Nat /\ Len(text[f]) \in Nat /\ Len(text[f]) <= MaxLines
      /\ Size(f) <= 3 * Len(text[f]) /\ ad \in Adapters
  BY SizeLines DEF TypeOK
<1>1. \A i \in recs : i \in Nat /\ i >= 1 /\ i <= Len(text[f])
  <2> SUFFICES ASSUME NEW i \in recs
               PROVE  i \in Nat /\ i >= 1 /\ i <= Len(text[f])
    OBVIOUS
  <2>1. i \in Nat /\ i >= 1 /\ 3 * (i - 1) < Size(f)
    BY <1>0, RecordPlace
  <2> QED
    BY <1>0, <2>1
<1>2. \A i \in recs : Output(text[f], i) \in Nat /\ Output(text[f], i) <= Len(text[f])
  <2> SUFFICES ASSUME NEW i \in recs
               PROVE  Output(text[f], i) \in Nat /\ Output(text[f], i) <= Len(text[f])
    OBVIOUS
  <2>1. Output(text[f], i) \in Nat /\ Output(text[f], i) <= i
    BY <1>1, OutputType
  <2> QED
    BY <1>0, <1>1, <2>1
<1>3. outputs \subseteq Int /\ outputs # {} /\ \A y \in outputs : y <= Len(text[f])
  BY <1>2
<1>4. Max(outputs) \in outputs /\ \A y \in outputs : y <= Max(outputs)
  <2> HIDE DEF outputs
  <2>1. Len(text[f]) \in Int
    BY <1>0
  <2> QED
    BY <1>3, <2>1, MaxIs
<1>5. Max(outputs) \in Nat /\ \A i \in recs : Output(text[f], i) <= Max(outputs)
  BY <1>2, <1>4
<1>6. /\ Old(f)' = Old(f) /\ New(f)' = New(f) /\ Pending(f)' = Pending(f)
      /\ SeenOf(f)' = SeenOf(f) /\ ad' = ad
  BY SetsKept DEF SeenOf, SameText
<1>7. base'[f] = Max(outputs)
  BY DEF CountInv
<1>8. ASSUME ad.cumulative
      PROVE  Cardinality(Old(f)) <= Max(outputs)
  <2>1. CASE Old(f) = {}
    <3>1. Cardinality(Old(f)) = 0
      BY <2>1, FS_EmptySet
    <3> QED
      BY <1>5, <3>1
  <2>2. CASE Old(f) # {}
    <3>1. Old(f) \subseteq Int /\ \A y \in Old(f) : y <= Len(text[f])
      BY <1>0 DEF Old
    <3>0. Len(text[f]) \in Int
      BY <1>0
    <3>2. PICK m : m \in Old(f) /\ \A y \in Old(f) : y <= m
      BY <2>2, <3>0, <3>1, MaxIs
    <3>3. /\ m \in 1..Len(text[f]) /\ m \in Nat /\ m >= 1
          /\ Collected(text[f][m]) /\ CompleteIn(mark[f], m)
      BY <1>0, <3>2 DEF Old, Own
    <3>4. CompleteIn(Size(f), m)
      <4>1. mark[f] \in Nat /\ mark[f] <= Size(f)
        BY PlaceTypes DEF FileInv, Kept
      <4> QED
        BY <1>0, <3>3, <4>1, CompleteBefore
    <3>5. Parses(text[f][m]) /\ ~ad.zstd
      BY <1>0, <1>8, <3>3, AdapterKinds DEF Collected, Parses
    <3>6. 3 * (m - 1) < Committed(text[f], Size(f), 0)
      BY <1>0, <3>3, <3>4, <3>5, NothingLeft
    <3>7. m \in recs
      BY <1>0, <3>3, <3>6, RecordsAll
    <3>8. Cardinality(Old(f)) <= Output(text[f], m)
      BY <1>8, <3>2, <3>3, OutputCovers
    <3>9. Output(text[f], m) \in Nat /\ Output(text[f], m) <= Max(outputs)
      BY <1>2, <1>5, <3>7
    <3>10. Cardinality(Old(f)) \in Nat
      BY Counts
    <3> HIDE DEF outputs
    <3> QED
      BY <1>5, <3>8, <3>9, <3>10
  <2> QED
    BY <2>1, <2>2
<1> HIDE DEF outputs
<1> QED
  BY <1>6, <1>7, <1>8 DEF SpentInv

\* A record read for a watcher whose records are counted one by one is pending no more.
LEMMA EachSpends ==
  ASSUME TypeOK, CountInv, NEW f \in Files, FileInv(f), SpentInv(f), f \in tracked,
         f \notin swapped, ad.headerCwd => owner[f] = "mine", SameText(f), ~ad.cumulative,
         UNCHANGED <<mark, used>>, used[f] \in Nat,
         NEW recs, recs = Records(text[f], Size(f), offsets[f]), recs # {},
         applyRecords(f, recs),
         credit' = [credit EXCEPT ![f] =
           [i \in 1..MaxLines |-> IF i \in recs THEN @[i] + 1 ELSE @[i]]]
  PROVE  SpentInv(f)'
<1>0. Size(f) \in Nat /\ Len(text[f]) \in Nat /\ Len(text[f]) <= MaxLines
      /\ offsets[f] \in Nat /\ MaxLines \in Nat
  <2>1. offsets[f] \in Sizes
    BY DEF TypeOK
  <2> QED
    BY <2>1, SizeLines, ConstantTypes DEF Sizes
<1>1. recs \subseteq Pending(f)
  <2> SUFFICES ASSUME NEW i \in recs
               PROVE  i \in Pending(f)
    OBVIOUS
  <2>1. i \in 1..Len(text[f])
    BY RecordsAreLines
  <2>2. Own(text[f], i) /\ credit[f][i] = 0 /\ mark[f] <= 3 * (i - 1)
    BY FreshRecords
  <2>3. CompleteIn(Size(f), i)
    BY <1>0, RecordsComplete
  <2> QED
    BY <2>1, <2>2, <2>3 DEF Pending, Claims
<1>2. \A i \in 1..Len(text[f]) : i \in 1..MaxLines
      /\ credit'[f][i] = IF i \in recs THEN credit[f][i] + 1 ELSE credit[f][i]
  BY <1>0 DEF TypeOK
<1>3. /\ Size(f)' = Size(f) /\ text'[f] = text[f] /\ ad' = ad
      /\ \A i : Claims(f, i)' <=> Claims(f, i)
      /\ \A i : CompleteIn(Size(f), i)' <=> CompleteIn(Size(f), i)
  BY TextKept, MarkKept DEF SameText, CompleteIn
<1>4. Pending(f)' = Pending(f) \ recs
  <2>1. \A i \in 1..Len(text[f]) : credit[f][i] \in Nat
    <3>1. credit[f] \in [1..MaxLines -> Nat]
      BY DEF TypeOK
    <3> QED
      BY <1>2, <3>1
  <2>2. \A i \in 1..Len(text[f]) : credit'[f][i] = 0 <=> credit[f][i] = 0 /\ i \notin recs
    BY <1>1, <1>2, <2>1 DEF Pending
  <2> QED
    BY <1>3, <2>2 DEF Pending
<1>5. IsFiniteSet(Pending(f)) /\ Cardinality(Pending(f)) \in Nat
  BY Counts
<1>6. /\ IsFiniteSet(recs) /\ Cardinality(recs) \in Nat
      /\ Cardinality(Pending(f)') = Cardinality(Pending(f)) - Cardinality(recs)
  <2>1. Pending(f) \cap recs = recs
    BY <1>1
  <2>2. Cardinality(Pending(f)') = Cardinality(Pending(f)) - Cardinality(recs)
    BY <1>4, <1>5, <2>1, FS_Difference
  <2> QED
    BY <1>1, <1>5, <2>2, FS_Subset, FS_CardinalityType
<1>7. seen'[f] = SeenOf(f) + Cardinality(recs) /\ SeenOf(f) \in Nat
  BY DEF applyRecords, SeenOf, CountInv, Counters
<1>8. SeenOf(f)' = SeenOf(f) + Cardinality(recs)
  BY <1>6, <1>7 DEF SeenOf, Absent
<1>9. SeenOf(f) + Cardinality(Pending(f)) <= used[f]
  BY DEF SpentInv
<1>10. SeenOf(f)' + Cardinality(Pending(f)') <= used'[f]
  BY <1>5, <1>6, <1>7, <1>8, <1>9
<1>11. ~ad'.cumulative
  BY <1>3
<1> QED
  BY <1>10, <1>11, Zenon DEF SpentInv

\* What the first counter of this attach is measured from covers the old records.
LEMMA BaselineCovers ==
  ASSUME TypeOK, CountInv, NEW f \in Files, FileInv(f), SpentInv(f), f \in tracked,
         f \notin swapped, ad.headerCwd => owner[f] = "mine", ad.cumulative,
         NEW recs, recs = Records(text[f], Size(f), offsets[f]), recs # {}
  PROVE  Baseline(f, recs) \in Nat /\ Cardinality(Old(f)) <= Baseline(f, recs)
<1>0. Size(f) \in Nat /\ Len(text[f]) \in Nat /\ offsets[f] \in Nat /\ mark[f] \in Nat
      /\ ad \in Adapters
  <2>1. ad \in Adapters
    BY DEF TypeOK
  <2> QED
    BY <2>1, SizeLines, PlaceTypes
<1>1. \A i \in recs : i \in 1..Len(text[f]) /\ Own(text[f], i) /\ mark[f] <= 3 * (i - 1)
  BY RecordsAreLines, FreshRecords
<1>2. ~ad.zstd
  BY <1>0, AdapterKinds
<1>3. ASSUME NEW i \in recs, NEW j \in Old(f)
      PROVE  j <= i
  <2>1. i \in Nat /\ j \in Nat /\ mark[f] <= 3 * (i - 1) /\ 3 * j - 1 <= mark[f]
    BY <1>0, <1>1, <1>2 DEF Old, CompleteIn
  <2> QED
    BY <1>0, <2>1
<1>4. CASE base[f] # Absent
  BY <1>4 DEF Baseline, SpentInv, CountInv, Counters
<1>5. CASE base[f] = Absent /\ f \in preexisting
  <2>1. recs \subseteq Nat
    BY <1>0, <1>1
  <2>2. Min(recs) \in recs
    BY <2>1, MinIs
  <2>3. Min(recs) \in Nat /\ Min(recs) >= 1 /\ \A j \in Old(f) : j <= Min(recs)
    BY <1>0, <1>1, <1>3, <2>2
  <2>4. Cardinality(Old(f)) <= Output(text[f], Min(recs)) /\ Output(text[f], Min(recs)) \in Nat
    BY <2>3, OutputCovers, OutputType
  <2> QED
    BY <1>5, <2>4 DEF Baseline
<1>6. CASE base[f] = Absent /\ f \notin preexisting
  <2>1. Baseline(f, recs) = 0
    BY <1>6 DEF Baseline
  <2>2. ASSUME NEW j \in Old(f)
        PROVE  FALSE
    <3>1. j \in 1..Len(text[f]) /\ Own(text[f], j) /\ CompleteIn(mark[f], j) /\ j \in Nat /\ j >= 1
      BY <1>0 DEF Old
    <3>2. CASE ad.headerCwd
      <4>1. Late(f) /\ Claimed(f) /\ Session(text[f])
        BY <1>6, <3>2 DEF FileInv, Kept, Position
      <4>2. PICK h \in 1..Len(text[f]) : h <= OwnerScanLines /\ text[f][h] = "headMine"
        BY <4>1 DEF Claimed
      <4>3. ~CompleteIn(mark[f], h)
        BY <4>1, <4>2 DEF Late
      <4>4. text[f] \in Seq(LineKinds) /\ text[f][h] \in Headers
        BY <4>2 DEF TypeOK, Headers
      <4>5. h < j /\ h \in Nat
        BY <1>0, <3>1, <3>2, <4>1, <4>4, OwnAfterHeader
      <4>6. h <= j
        BY <3>1, <4>5
      <4> QED
        BY <1>0, <3>1, <4>3, <4>5, <4>6, CompleteBefore
    <3>3. CASE ~ad.headerCwd
      <4>1. mark[f] = 0
        BY <1>6, <3>3 DEF FileInv, Kept
      <4> QED
        BY <1>2, <3>1, <4>1 DEF CompleteIn
    <3> QED
      BY <3>2, <3>3
  <2>3. Cardinality(Old(f)) = 0
    BY <2>2, FS_EmptySet
  <2> QED
    BY <2>1, <2>3
<1> QED
  BY <1>4, <1>5, <1>6

\* A counter that accumulates, less its baseline, is covered by the new records.
LEMMA SumSpends ==
  ASSUME TypeOK, CountInv, NEW f \in Files, FileInv(f), SpentInv(f), f \in tracked,
         f \notin swapped, ad.headerCwd => owner[f] = "mine", SameText(f), ad.cumulative,
         UNCHANGED <<mark, used>>, used[f] \in Nat,
         NEW recs, recs = Records(text[f], Size(f), offsets[f]), recs # {},
         applyRecords(f, recs)
  PROVE  SpentInv(f)'
<1> DEFINE start  == Baseline(f, recs)
           growth == {Output(text[f], i) - start : i \in recs}
<1>0. Size(f) \in Nat /\ Len(text[f]) \in Nat /\ offsets[f] \in Nat
  <2>1. offsets[f] \in Sizes
    BY DEF TypeOK
  <2> QED
    BY <2>1, SizeLines, ConstantTypes DEF Sizes
<1>1. start \in Nat /\ Cardinality(Old(f)) <= start
  BY BaselineCovers
<1>2. /\ Cardinality(Old(f)) \in Nat /\ Cardinality(New(f)) \in Nat
      /\ Cardinality(New(f)) <= used[f] /\ SeenOf(f) <= used[f] /\ SeenOf(f) \in Nat
  BY Counts DEF SpentInv, SeenOf, CountInv, Counters
<1>3. ASSUME NEW i \in recs
      PROVE  Output(text[f], i) \in Nat /\ Output(text[f], i) <= start + used[f]
  <2>1. i \in 1..Len(text[f])
    BY RecordsAreLines
  <2>2. Own(text[f], i)
    BY FreshRecords
  <2>3. CompleteIn(Size(f), i)
    BY <1>0, RecordsComplete
  <2>4. Output(text[f], i) <= Cardinality(Old(f)) + Cardinality(New(f))
    BY <2>1, <2>2, <2>3, OutputSplit
  <2>5. Output(text[f], i) \in Nat
    BY <1>0, <2>1, OutputType
  <2> HIDE DEF start
  <2> QED
    BY <1>1, <1>2, <2>4, <2>5
<1>4. growth \subseteq Int /\ \A y \in growth : y <= used[f]
  <2> HIDE DEF start
  <2> QED
    BY <1>1, <1>3
<1>5. Max(growth \cup {SeenOf(f)}) \in Nat /\ Max(growth \cup {SeenOf(f)}) <= used[f]
  <2> HIDE DEF growth
  <2>1. Max(growth \cup {SeenOf(f)}) \in Nat
        /\ Max(growth \cup {SeenOf(f)}) \in growth \cup {SeenOf(f)}
    BY <1>2, <1>4, CountMax
  <2> QED
    BY <1>2, <1>4, <2>1
<1>6. base'[f] = start /\ seen'[f] = Max(growth \cup {SeenOf(f)})
  <2>1. /\ base' = [base EXCEPT ![f] = start]
        /\ seen' = [seen EXCEPT ![f] = Max(growth \cup {SeenOf(f)})]
    BY Zenon DEF applyRecords, SeenOf
  <2> HIDE DEF start, growth
  <2> QED
    BY <2>1 DEF CountInv
<1>7. SeenOf(f)' <= used'[f]
  <2> HIDE DEF start, growth
  <2> QED
    BY <1>5, <1>6 DEF SeenOf, Absent
<1>8. Old(f)' = Old(f) /\ New(f)' = New(f) /\ ad' = ad
  BY SetsKept DEF SameText
<1>9. Cardinality(New(f)') <= used'[f] /\ Cardinality(Old(f)') <= base'[f]
  <2> HIDE DEF start, growth
  <2> QED
    BY <1>1, <1>2, <1>6, <1>8
<1> QED
  BY <1>7, <1>8, <1>9 DEF SpentInv

\* Writers: what they complete is used, what they replace is gone (Writer).
LEMMA WriterTally ==
  ASSUME WatchInv, TypeOK', TallyInv, NEW f \in Files, Writer(f)
  PROVE  TallyInv'
<1>1. TypeOK /\ CountInv /\ CallInv /\ FileInv(f) /\ SpentInv(f) /\ used \in [Files -> Nat]
  BY DEF WatchInv, TallyInv
<1>2. UNCHANGED <<ad, seen, base, tracked, cur, pc>>
  BY DEF Writer, BeginLine, ExtendLine, Rewrite, Age, books, call, history
<1>3. AttachInv'
  BY <1>2 DEF AttachInv, TallyInv
<1>4. ASSUME NEW g \in Files, g # f, used'[g] = used[g], SameText(g), mark'[g] = mark[g],
             credit'[g] = credit[g]
      PROVE  SpentInv(g)'
  BY <1>2, <1>4, SpentStays DEF TallyInv
<1>5. CASE \E l \in LineKinds : BeginLine(f, l)
  <2>1. PICK l \in LineKinds : BeginLine(f, l)
    BY <1>5
  <2>2. UNCHANGED <<used, mark, credit>>
    BY <2>1 DEF BeginLine, history
  <2>3. SpentInv(f)'
    BY <1>1, <2>1, BeginSpends
  <2>4. \A g \in Files : g # f => SameText(g)
    BY <1>1, <1>2, <2>1 DEF BeginLine, SameText, TypeOK
  <2> QED
    BY <1>1, <1>3, <1>4, <2>2, <2>3, <2>4 DEF TallyInv
<1>6. CASE ExtendLine(f)
  <2>1. SpentInv(f)' /\ used' \in [Files -> Nat] /\ \A g \in Files : g # f => used'[g] = used[g]
    BY <1>1, <1>6, ExtendSpends
  <2>2. UNCHANGED <<text, mark, credit>>
    BY <1>6 DEF ExtendLine
  <2>3. \A g \in Files : g # f => SameText(g)
    BY <1>1, <1>2, <1>6, <2>2 DEF ExtendLine, SameText, TypeOK
  <2> QED
    BY <1>3, <1>4, <2>1, <2>2, <2>3 DEF TallyInv
<1>7. CASE \E l \in LineKinds : Rewrite(f, l)
  <2>1. PICK l \in LineKinds : Rewrite(f, l)
    BY <1>7
  <2>2. used' = used
    BY <2>1 DEF Rewrite
  <2>3. SpentInv(f)'
    BY <1>1, <2>1, RewriteSpends
  <2>4. \A g \in Files : g # f => SameText(g) /\ mark'[g] = mark[g] /\ credit'[g] = credit[g]
    BY <1>1, <1>2, <2>1 DEF Rewrite, SameText, TypeOK
  <2> QED
    BY <1>1, <1>3, <1>4, <2>2, <2>3, <2>4 DEF TallyInv
<1>8. CASE Age(f)
  <2>1. UNCHANGED <<text, phase, used, mark, credit>>
    BY <1>8 DEF Age, history
  <2>2. \A g \in Files : SpentInv(g)'
    BY <1>2, <2>1, SpentStays DEF SameText, TallyInv
  <2> QED
    BY <1>1, <1>3, <2>1, <2>2 DEF TallyInv
<1> QED
  BY <1>5, <1>6, <1>7, <1>8 DEF Writer

\* At its stat a file has nothing that is new, and nothing that is counted (Watch).
LEMMA AttachSpends ==
  ASSUME WatchInv, TallyInv, NEW f \in Files, pc = "attach", f \in todo, SameText(f),
         mark'[f] = Size(f), UNCHANGED <<used, seen, base>>
  PROVE  SpentInv(f)'
<1>1. used[f] \in Nat /\ seen[f] = Absent /\ base[f] = Absent
  BY DEF TallyInv, AttachInv, WatchInv, CallInv
<1>2. Size(f)' = Size(f) /\ Size(f) \in Nat /\ Len(text[f]) \in Nat /\ text'[f] = text[f]
  BY TextKept, SizeLines DEF WatchInv, SameText
<1>3. New(f)' = {}
  BY <1>2 DEF New, CompleteIn
<1>4. Pending(f)' = {}
  <2> SUFFICES ASSUME NEW i \in 1..Len(text[f]), Claims(f, i)', CompleteIn(Size(f), i)'
               PROVE  FALSE
    BY <1>2 DEF Pending
  <2>1. Size(f) <= 3 * (i - 1)
    BY <1>2 DEF Claims
  <2>2. 3 * i <= Size(f) \/ 3 * i - 1 <= Size(f)
    BY <1>2 DEF CompleteIn
  <2> QED
    BY <1>2, <2>1, <2>2
<1>5. Cardinality(New(f)') = 0 /\ Cardinality(Pending(f)') = 0
  BY <1>3, <1>4, FS_EmptySet
<1>6. SeenOf(f)' = 0
  BY <1>1 DEF SeenOf
<1> QED
  BY <1>1, <1>5, <1>6 DEF SpentInv

\* The visits of a poll count nothing; those of the attach start the count.
LEMMA ReaderTally ==
  ASSUME WatchInv, TallyInv, NEW f \in Files, Reader(f)
  PROVE  TallyInv'
<1>1. TypeOK /\ CallInv /\ used \in [Files -> Nat] /\ AttachInv
  BY DEF WatchInv, TallyInv
<1>2. UNCHANGED <<ad, text, phase, used, seen, base, pc, credit>>
  BY Zenon DEF Reader, AttachStat, StatFails, Untouched, Undetermined, SkipForeign, LeaveUnread,
        OpenFile, Decides, Visits, At, store, history
<1>3. \A g \in Files : SameText(g)
  BY <1>2 DEF SameText
<1>4. CASE ~AttachStat(f)
  <2>1. pc = "poll" /\ UNCHANGED <<mark, tracked>>
    BY <1>4, Zenon DEF Reader, StatFails, Untouched, Undetermined, SkipForeign, LeaveUnread,
          OpenFile, Decides, Visits, At, history
  <2>2. \A g \in Files : SpentInv(g)'
    BY <1>2, <1>3, <2>1, SpentStays DEF TallyInv
  <2>3. AttachInv'
    BY <1>2, <2>1 DEF AttachInv
  <2> QED
    BY <1>1, <1>2, <2>2, <2>3 DEF TallyInv
<1>5. CASE AttachStat(f)
  <2>1. pc = "attach" /\ f \in todo /\ cur = NoFile
    BY <1>5 DEF AttachStat
  <2>2. CASE UNCHANGED <<mark, tracked, cur>>
    <3>1. \A g \in Files : SpentInv(g)'
      BY <1>2, <1>3, <2>2, SpentStays DEF TallyInv
    <3>2. AttachInv'
      BY <1>1, <1>2, <2>2 DEF AttachInv
    <3> QED
      BY <1>1, <1>2, <3>1, <3>2 DEF TallyInv
  <2>3. CASE /\ mark' = [mark EXCEPT ![f] = Size(f)]
             /\ tracked' = tracked \cup {f}
             /\ cur' = IF ad.cumulative THEN [file |-> f, stamp |-> Stamp(f)] ELSE NoFile
    <3>1. mark'[f] = Size(f) /\ \A g \in Files : g # f => mark'[g] = mark[g]
      BY <1>1, <2>3 DEF TypeOK
    <3>2. SpentInv(f)'
      BY <1>2, <1>3, <2>1, <3>1, AttachSpends
    <3>3. ASSUME NEW g \in Files, g # f
          PROVE  SpentInv(g)'
      BY <1>2, <1>3, <2>3, <3>1, <3>3, SpentStays DEF TallyInv
    <3>4. AttachInv'
      <4>1. cur' # NoFile => cur'.file \in tracked'
        BY <2>3
      <4> QED
        BY <1>1, <1>2, <2>1, <2>3, <4>1 DEF AttachInv
    <3> QED
      BY <1>1, <1>2, <3>2, <3>3, <3>4 DEF TallyInv
  <2> QED
    BY <1>5, <2>2, <2>3, Zenon DEF AttachStat
<1> QED
  BY <1>4, <1>5

\* A read that counts, or one that fails (ReadFile).
LEMMA ReadTally ==
  ASSUME WatchInv, TallyInv, ReadFile
  PROVE  TallyInv'
<1>0. PICK f, stamp : f = cur.file /\ stamp = cur.stamp
  OBVIOUS
<1> DEFINE recs == Records(text[f], Size(f), offsets[f])
<1>1. TypeOK /\ CallInv /\ CountInv /\ used \in [Files -> Nat]
  BY DEF WatchInv, TallyInv
<1>2. f \in Files /\ pc = "poll" /\ cur # NoFile
  BY <1>0, <1>1 DEF ReadFile, TypeOK
<1>3. FileInv(f) /\ Reading(f, stamp) /\ SpentInv(f)
  BY <1>0, <1>1, <1>2 DEF WatchInv, CallInv, TallyInv
<1>4. UNCHANGED <<ad, text, phase, pc, mark, tracked, used>>
  BY DEF ReadFile
<1>5. AttachInv'
  BY <1>2, <1>4 DEF AttachInv
<1>6. \A g \in Files : SameText(g)
  BY <1>4 DEF SameText
<1>7. CASE UNCHANGED <<base, seen, credit>>
  <2>1. \A g \in Files : SpentInv(g)'
    BY <1>4, <1>6, <1>7, SpentStays DEF TallyInv
  <2> QED
    BY <1>1, <1>4, <1>5, <2>1 DEF TallyInv
<1>8. CASE /\ applyRecords(f, recs)
           /\ credit' = [credit EXCEPT ![f] =
                [i \in 1..MaxLines |-> IF i \in recs THEN @[i] + 1 ELSE @[i]]]
  <2>1. CASE recs = {}
    <3>1. base' = base /\ seen' = seen
      BY <1>8, <2>1 DEF applyRecords
    <3>2. credit' = credit
      BY <1>1, <1>2, <1>8, <2>1 DEF TypeOK
    <3> QED
      BY <1>7, <3>1, <3>2
  <2>2. CASE recs # {}
    <3>1. f \notin swapped
      <4>1. SUFFICES ASSUME f \in swapped
                     PROVE  FALSE
        OBVIOUS
      <4>2. Size(f) < offsets[f] /\ Size(f) \in Nat /\ offsets[f] \in Sizes
        BY <1>1, <1>2, <1>3, <4>1, SizeLines DEF Reading, TypeOK
      <4>3. offsets[f] \in Nat
        BY <4>2, ConstantTypes DEF Sizes
      <4> QED
        BY <2>2, <4>2, <4>3, NothingBehind
    <3>2. ad.headerCwd => owner[f] = "mine"
      BY <1>2, <1>3 DEF Reading
    <3>3. SpentInv(f)'
      <4>1. CASE f \notin tracked
        BY <1>4, <4>1 DEF SpentInv
      <4>2. CASE f \in tracked /\ ad.cumulative
        BY <1>1, <1>2, <1>3, <1>4, <1>6, <1>8, <2>2, <3>1, <3>2, <4>2, SumSpends
      <4>3. CASE f \in tracked /\ ~ad.cumulative
        BY <1>1, <1>2, <1>3, <1>4, <1>6, <1>8, <2>2, <3>1, <3>2, <4>3, EachSpends
      <4> QED
        BY <4>1, <4>2, <4>3
    <3>4. ASSUME NEW g \in Files, g # f
          PROVE  SpentInv(g)'
      <4>1. seen'[g] = seen[g] /\ base'[g] = base[g]
        <5>1. /\ \E s : seen' = [seen EXCEPT ![f] = s]
              /\ base' = base \/ \E b : base' = [base EXCEPT ![f] = b]
          BY <1>8, <2>2, Zenon DEF applyRecords
        <5> QED
          BY <1>1, <3>4, <5>1 DEF CountInv
      <4>2. credit'[g] = credit[g]
        BY <1>1, <1>8, <3>4 DEF TypeOK
      <4> QED
        BY <1>4, <1>6, <3>4, <4>1, <4>2, SpentStays DEF TallyInv
    <3> QED
      BY <1>1, <1>4, <1>5, <3>3, <3>4 DEF TallyInv
  <2> QED
    BY <2>1, <2>2
<1> QED
  BY <1>0, <1>7, <1>8, Zenon DEF ReadFile

\* Listing, ending a poll, and seeding a baseline.
LEMMA PollTally ==
  ASSUME WatchInv, TallyInv,
         PollCached \/ PollRescan \/ Poll \/ EndPoll \/ seedBaseline \/ AttachDone
  PROVE  TallyInv'
<1>1. TypeOK /\ CallInv /\ CountInv /\ used \in [Files -> Nat] /\ AttachInv
  BY DEF WatchInv, TallyInv
<1>2. UNCHANGED <<ad, text, phase, used, seen, mark, credit>>
  BY Zenon DEF PollCached, PollRescan, Poll, EndPoll, seedBaseline, AttachDone, store, books,
        history, forgetIdle
<1>3. \A g \in Files : SameText(g)
  BY <1>2 DEF SameText
<1>4. CASE PollRescan
  <2>1. PICK live : forgetIdle(live)
    BY <1>4 DEF PollRescan
  <2>2. tracked' \subseteq tracked /\ \A g \in Files : base'[g] = base[g] \/ base'[g] = Absent
    BY <2>1 DEF forgetIdle
  <2>3. \A g \in Files : SpentInv(g)'
    BY <1>2, <1>3, <2>2, SpentStays DEF TallyInv
  <2>4. pc' = "poll"
    BY <1>4 DEF PollRescan
  <2> QED
    BY <1>1, <1>2, <2>3, <2>4 DEF TallyInv, AttachInv
<1>5. CASE PollCached \/ Poll \/ EndPoll \/ AttachDone
  <2>1. UNCHANGED <<base, tracked, cur>> /\ pc' # "attach"
    BY <1>5 DEF PollCached, Poll, EndPoll, AttachDone, books, call, history
  <2>2. \A g \in Files : SpentInv(g)'
    BY <1>2, <1>3, <2>1, SpentStays DEF TallyInv
  <2> QED
    BY <1>1, <1>2, <2>1, <2>2 DEF TallyInv, AttachInv
<1>6. CASE seedBaseline
  <2>0. PICK f :
          /\ f = cur.file
          /\ \/ base' = base
             \/ base' = IF Records(text[f], Size(f), 0) = {} THEN base
                        ELSE [base EXCEPT
                                ![f] = Max({Output(text[f], i) : i \in Records(text[f], Size(f), 0)})]
    BY <1>6, Zenon DEF seedBaseline
  <2> DEFINE recs == Records(text[f], Size(f), 0)
  <2>1. pc = "attach" /\ cur # NoFile /\ cur' = NoFile /\ pc' = pc /\ tracked' = tracked
    BY <1>6 DEF seedBaseline, history
  <2>2. f \in Files /\ f \in tracked
    BY <1>1, <2>0, <2>1 DEF TypeOK, AttachInv
  <2>3. CASE base' = base
    <3>1. \A g \in Files : SpentInv(g)'
      BY <1>2, <1>3, <2>1, <2>3, SpentStays DEF TallyInv
    <3>2. AttachInv'
      BY <1>1, <1>2, <2>1, <2>3 DEF AttachInv
    <3> QED
      BY <1>1, <1>2, <3>1, <3>2 DEF TallyInv
  <2>4. CASE /\ recs # {}
             /\ base' = [base EXCEPT ![f] = Max({Output(text[f], i) : i \in recs})]
    <3>1. SpentInv(f)'
      <4>1. FileInv(f) /\ SpentInv(f)
        BY <2>2 DEF WatchInv, TallyInv
      <4> QED
        BY <1>1, <1>2, <1>3, <2>1, <2>2, <2>4, <4>1, SeedSpends
    <3>2. \A g \in Files : g # f => base'[g] = base[g]
      <4> HIDE DEF recs
      <4> QED
        BY <1>1, <2>4 DEF CountInv
    <3>3. ASSUME NEW g \in Files, g # f
          PROVE  SpentInv(g)'
      BY <1>2, <1>3, <2>1, <3>2, <3>3, SpentStays DEF TallyInv
    <3>4. AttachInv'
      <4> HIDE DEF recs
      <4>1. \A g \in Files : seen[g] = Absent /\ (g \notin tracked => base[g] = Absent)
        BY <1>1, <2>1 DEF AttachInv
      <4>2. \A g \in Files : g \notin tracked' => base'[g] = Absent
        BY <2>1, <2>2, <3>2, <4>1
      <4>3. \A g \in Files : seen'[g] = Absent
        BY <1>2, <4>1
      <4> QED
        BY <2>1, <4>2, <4>3 DEF AttachInv
    <3> QED
      BY <1>1, <1>2, <3>1, <3>3, <3>4 DEF TallyInv
  <2>5. \/ base' = base
        \/ base' = IF recs = {} THEN base
                   ELSE [base EXCEPT ![f] = Max({Output(text[f], i) : i \in recs})]
    BY <2>0
  <2> QED
    BY <2>3, <2>4, <2>5
<1> QED
  BY <1>4, <1>5, <1>6

\* Before the attach nothing is counted, and what is tracked is empty.
LEMMA InitTally ==
  ASSUME Init, TypeOK
  PROVE  TallyInv
<1>1. used \in [Files -> Nat]
  BY DEF Init
<1>2. AttachInv
  BY DEF Init, AttachInv
<1>3. ASSUME NEW f \in Files, f \in tracked
      PROVE  SpentInv(f)
  <2>1. text[f] = <<>>
    BY <1>3 DEF Init, Exists
  <2>2. New(f) = {} /\ Pending(f) = {}
    BY <2>1 DEF New, Pending
  <2>3. Cardinality(New(f)) = 0 /\ Cardinality(Pending(f)) = 0
    BY <2>2, FS_EmptySet
  <2>4. base[f] = Absent /\ SeenOf(f) = 0 /\ used[f] = 0
    BY DEF Init, SeenOf
  <2> QED
    BY <2>3, <2>4 DEF SpentInv
<1>4. \A f \in Files : SpentInv(f)
  BY <1>3 DEF SpentInv
<1> QED
  BY <1>1, <1>2, <1>4 DEF TallyInv

\* Every step keeps what is counted covered by what was spent.
LEMMA NextTally ==
  ASSUME WatchInv, WatchInv', TallyInv, [Next]_vars
  PROVE  TallyInv'
<1>1. CASE UNCHANGED vars
  <2>1. UNCHANGED <<ad, text, phase, used, seen, base, mark, tracked, credit, pc, cur>>
    BY <1>1 DEF vars, store, books, call, history
  <2>2. \A g \in Files : SameText(g)
    BY <2>1 DEF SameText
  <2>3. \A g \in Files : SpentInv(g)'
    BY <2>1, <2>2, SpentStays DEF TallyInv
  <2> QED
    BY <2>1, <2>3 DEF TallyInv, AttachInv
<1>2. TypeOK'
  BY DEF WatchInv
<1> QED
  BY <1>1, <1>2, WriterTally, ReaderTally, ReadTally, PollTally DEF Next

\* It holds in every reachable state.
LEMMA TallyInvariant == Spec => []TallyInv
<1>1. Init /\ WatchInv => TallyInv
  BY InitTally DEF WatchInv
<1>2. WatchInv /\ WatchInv' /\ TallyInv /\ [Next]_vars => TallyInv'
  BY NextTally
<1> QED
  BY <1>1, <1>2, WatchInvariant, PTL DEF Spec

\* The contribution of a transcript is never more than its agent spent since the
\* attach (applyRecord, seedBaseline).
THEOREM Invents == Spec => []NeverInvents
<1>1. WatchInv /\ TallyInv => NeverInvents
  <2> SUFFICES ASSUME WatchInv, TallyInv, NEW f \in tracked, seen[f] # Absent
               PROVE  seen[f] <= used[f]
    BY DEF NeverInvents
  <2>1. f \in Files /\ used[f] \in Nat /\ SeenOf(f) = seen[f] /\ SpentInv(f) /\ seen[f] \in Nat
    BY DEF WatchInv, TallyInv, TypeOK, SeenOf, CountInv, Counters
  <2>2. Cardinality(Pending(f)) \in Nat
    BY <2>1, Counts DEF WatchInv
  <2> QED
    BY <2>1, <2>2 DEF SpentInv
<1> QED
  BY <1>1, TallyInvariant, WatchInvariant, PTL


(***************************************************************************)
(* Sums over the transcripts                                               *)
(*                                                                         *)
(* SumFunction is a fold, a function defined by recursion on subsets of    *)
(* its domain.  That it exists, and what it gives, goes by induction on    *)
(* the number of elements.                                                 *)
(***************************************************************************)
Some(s) == CHOOSE x \in s : TRUE

\* it gives for every subset of D the sum of fun over it, taking out some element
\* at a time.
Adds(fun, it, D) ==
  it = [s \in SUBSET D |-> IF s = {} THEN 0 ELSE fun[Some(s)] + it[s \ {Some(s)}]]

\* The same, for subsets of at most n elements.
AddsUpTo(fun, it, D, n) ==
  it = [s \in {t \in SUBSET D : Cardinality(t) <= n} |->
          IF s = {} THEN 0 ELSE fun[Some(s)] + it[s \ {Some(s)}]]

\* SumFunction is what such a function gives for the whole domain.
LEMMA SumUnfolds ==
  ASSUME NEW fun
  PROVE  SumFunction(fun) = (CHOOSE it : Adds(fun, it, DOMAIN fun))[DOMAIN fun]
BY DEF SumFunction, SumFunctionOnSet, FoldFunctionOnSet, MapThenFoldSet, Adds, Some

\* A set of numbers that holds the successor of each of its members, and zero,
\* holds them all.
LEMMA AllNumbers ==
  ASSUME NEW S, 0 \in S, \A n \in Nat : n \in S => n + 1 \in S
  PROVE  Nat \subseteq S
<1> SUFFICES ASSUME Nat \ S # {}
             PROVE  FALSE
  OBVIOUS
<1>1. PICK m \in Nat \ S : \A n \in Nat \ S : m <= n
  BY MinIs
<1>2. m # 0 /\ m - 1 \in Nat
  BY <1>1
<1>3. m - 1 \in Nat \ S
  BY <1>1, <1>2
<1> QED
  BY <1>1, <1>2, <1>3

\* Taking an element out of a set takes one off its size.
LEMMA TakenOut ==
  ASSUME NEW D, IsFiniteSet(D), NEW s \in SUBSET D, s # {}
  PROVE  /\ Some(s) \in s /\ s \ {Some(s)} \in SUBSET D
         /\ Cardinality(s) \in Nat /\ Cardinality(s) > 0
         /\ Cardinality(s \ {Some(s)}) = Cardinality(s) - 1
<1>1. IsFiniteSet(s)
  BY FS_Subset
<1>2. Some(s) \in s
  BY DEF Some
<1>3. Cardinality(s) \in Nat /\ Cardinality(s) # 0
  BY <1>1, FS_CardinalityType, FS_EmptySet
<1>4. Cardinality(s \ {Some(s)}) = Cardinality(s) - 1
  BY <1>1, <1>2, FS_RemoveElement
<1> QED
  BY <1>2, <1>3, <1>4

\* There is one, if there are finitely many elements: with it for subsets of n
\* elements, the equation itself defines it for those of one more.
LEMMA SumExists ==
  ASSUME NEW D, IsFiniteSet(D), NEW fun
  PROVE  \E it : Adds(fun, it, D)
<1> DEFINE S == {n \in Nat : \E it : AddsUpTo(fun, it, D, n)}
           Upto(n) == {t \in SUBSET D : Cardinality(t) <= n}
<1>0. \A t \in SUBSET D : IsFiniteSet(t) /\ Cardinality(t) \in Nat /\ (Cardinality(t) = 0 <=> t = {})
  BY FS_Subset, FS_CardinalityType, FS_EmptySet
<1>1. 0 \in S
  <2>1. \A t \in Upto(0) : t = {}
    BY <1>0
  <2>2. AddsUpTo(fun, [t \in Upto(0) |-> 0], D, 0)
    BY <2>1 DEF AddsUpTo
  <2> QED
    BY <2>2
<1>2. ASSUME NEW n \in Nat, n \in S
      PROVE  n + 1 \in S
  <2>1. PICK it : AddsUpTo(fun, it, D, n)
    BY <1>2
  <2>2. PICK jt : jt = [s \in Upto(n + 1) |->
                          IF s = {} THEN 0 ELSE fun[Some(s)] + it[s \ {Some(s)}]]
    OBVIOUS
  <2>3. ASSUME NEW s \in Upto(n + 1), s # {}
        PROVE  jt[s \ {Some(s)}] = it[s \ {Some(s)}]
    <3> DEFINE t == s \ {Some(s)}
    <3>1. t \in Upto(n) /\ t \in Upto(n + 1)
      BY <2>3, TakenOut
    <3>2. it[t] = IF t = {} THEN 0 ELSE fun[Some(t)] + it[t \ {Some(t)}]
      BY <2>1, <3>1, Zenon DEF AddsUpTo
    <3>3. jt[t] = IF t = {} THEN 0 ELSE fun[Some(t)] + it[t \ {Some(t)}]
      BY <2>2, <3>1, Zenon
    <3> QED
      BY <3>2, <3>3
  <2>4. jt = [s \in Upto(n + 1) |-> IF s = {} THEN 0 ELSE fun[Some(s)] + jt[s \ {Some(s)}]]
    BY <2>2, <2>3
  <2>5. AddsUpTo(fun, jt, D, n + 1)
    BY <2>4, Zenon DEF AddsUpTo
  <2> QED
    BY <2>5
<1>3. Nat \subseteq S
  <2> HIDE DEF S
  <2> QED
    BY <1>1, <1>2, AllNumbers
<1>4. Cardinality(D) \in Nat
  BY FS_CardinalityType
<1>5. PICK it : AddsUpTo(fun, it, D, Cardinality(D))
  BY <1>3, <1>4
<1>6. Upto(Cardinality(D)) = SUBSET D
  BY FS_Subset
<1> QED
  BY <1>5, <1>6, Zenon DEF AddsUpTo, Adds

\* A sum of numbers is a number; it is zero if they all are, and not greater than
\* that of numbers that are not smaller.
LEMMA SumOrder ==
  ASSUME NEW D, IsFiniteSet(D), NEW fun \in [D -> Nat], NEW gun \in [D -> Nat],
         \A x \in D : fun[x] <= gun[x]
  PROVE  /\ SumFunction(fun) \in Nat /\ SumFunction(gun) \in Nat
         /\ SumFunction(fun) <= SumFunction(gun)
         /\ (\A x \in D : fun[x] = 0) => SumFunction(fun) = 0
<1>1. PICK it : Adds(fun, it, D) /\ SumFunction(fun) = it[D]
  BY SumExists, SumUnfolds
<1>2. PICK jt : Adds(gun, jt, D) /\ SumFunction(gun) = jt[D]
  BY SumExists, SumUnfolds
<1> DEFINE Good(s) == /\ it[s] \in Nat /\ jt[s] \in Nat /\ it[s] <= jt[s]
                      /\ (\A x \in D : fun[x] = 0) => it[s] = 0
           S == {n \in Nat : \A s \in SUBSET D : Cardinality(s) = n => Good(s)}
<1>3. \A s \in SUBSET D : IsFiniteSet(s) /\ Cardinality(s) \in Nat /\ (Cardinality(s) = 0 <=> s = {})
  BY FS_Subset, FS_CardinalityType, FS_EmptySet
<1>4. 0 \in S
  <2>1. it[{}] = 0 /\ jt[{}] = 0
    BY <1>1, <1>2 DEF Adds
  <2> QED
    BY <1>3, <2>1
<1>5. ASSUME NEW n \in Nat, n \in S
      PROVE  n + 1 \in S
  <2> SUFFICES ASSUME NEW s \in SUBSET D, Cardinality(s) = n + 1
               PROVE  Good(s)
    OBVIOUS
  <2>1. s # {}
    BY <1>3
  <2>2. PICK t, x : t = s \ {Some(s)} /\ x = Some(s)
    OBVIOUS
  <2>3. x \in D /\ t \in SUBSET D /\ Cardinality(t) = n
    BY <2>1, <2>2, TakenOut
  <2>4. it[s] = fun[x] + it[t] /\ jt[s] = gun[x] + jt[t]
    BY <1>1, <1>2, <2>1, <2>2, Zenon DEF Adds
  <2>5. Good(t)
    BY <1>5, <2>3
  <2> QED
    BY <2>3, <2>4, <2>5
<1>6. Good(D)
  <2> HIDE DEF Good
  <2>1. Nat \subseteq S
    <3> HIDE DEF S
    <3> QED
      BY <1>4, <1>5, AllNumbers
  <2> QED
    BY <1>3, <2>1
<1> QED
  BY <1>1, <1>2, <1>6

(***************************************************************************)
(* The sample                                                              *)
(***************************************************************************)
\* Both counters of a transcript start with its first counted record, and what
\* the sample holds is never more than their sums.
SampleInv ==
  /\ total \in [Files -> Nat]
  /\ \A f \in Files : seen[f] = Absent => total[f] = 0
  /\ pc = "attach" => \A f \in Files : seen[f] = Absent
  /\ sample \in [output : Nat, total : Nat]
  /\ sample.output <= Counted /\ sample.total <= Context
  /\ pc \in {"attach", "idle"} => sample = Sums

\* The sums of the counters grow with each of them.
LEMMA SumsGrow ==
  ASSUME CountInv, CountInv', total \in [Files -> Nat], total' \in [Files -> Nat],
         \A f \in Files : SeenOf(f) <= SeenOf(f)' /\ total[f] <= total'[f]
  PROVE  /\ Counted \in Nat /\ Context \in Nat /\ Counted' \in Nat /\ Context' \in Nat
         /\ Counted <= Counted' /\ Context <= Context'
<1> DEFINE c == [f \in Files |-> IF seen[f] = Absent THEN 0 ELSE seen[f]]
<1>1. IsFiniteSet(Files)
  BY WatcherAssumption DEF WatcherAssumption
<1>2. PICK d : d = [f \in Files |-> IF seen'[f] = Absent THEN 0 ELSE seen'[f]]
  OBVIOUS
<1>3. c \in [Files -> Nat] /\ d \in [Files -> Nat] /\ \A f \in Files : c[f] <= d[f]
  BY <1>2 DEF CountInv, Counters, SeenOf
<1>4. SumFunction(c) \in Nat /\ SumFunction(d) \in Nat /\ SumFunction(c) <= SumFunction(d)
  <2> HIDE DEF c
  <2> QED
    BY <1>1, <1>3, SumOrder
<1>5. Counted = SumFunction(c) /\ Counted' = SumFunction(d)
  BY <1>2 DEF Counted
<1>6. /\ SumFunction(total) \in Nat /\ SumFunction(total') \in Nat
      /\ SumFunction(total) <= SumFunction(total')
  BY <1>1, SumOrder
<1> QED
  BY <1>4, <1>5, <1>6 DEF Context

\* What a read counts makes both counters of the transcript grow (applyRecords).
LEMMA AppliedGrows ==
  ASSUME CountInv, total \in [Files -> Nat], NEW f \in Files,
         NEW recs, recs \subseteq 1..MaxLines, recs # {}, applyRecords(f, recs)
  PROVE  /\ CountInv' /\ total' \in [Files -> Nat]
         /\ seen'[f] # Absent
         /\ \A g \in Files : /\ SeenOf(g) <= SeenOf(g)' /\ total[g] <= total'[g]
                             /\ g # f => seen'[g] = seen[g] /\ total'[g] = total[g]
<1>1. MaxLines \in Nat
  BY ConstantTypes
<1>2. CountInv' /\ seen'[f] # Absent /\ \A g \in Files : g # f => seen'[g] = seen[g]
  BY AppliedCounts
<1>3. \A g \in Files : SeenOf(g) \in Nat /\ SeenOf(g)' \in Nat
  BY <1>2 DEF SeenOf, CountInv, Counters
<1>4. PICK m : total' = [total EXCEPT ![f] = m] /\ m = Max(recs \cup {total[f]})
  <2>1. total' = [total EXCEPT ![f] = Max(recs \cup {total[f]})]
    BY DEF applyRecords
  <2> QED
    BY <2>1, Zenon
<1>5. m \in Nat /\ total[f] <= m
  <2>0. total[f] \in Nat /\ recs \subseteq Int
    BY <1>1
  <2>1. recs \cup {total[f]} \subseteq Int /\ recs \cup {total[f]} # {} /\ total[f] \in Nat
    <3>1. total[f] \in Int
      BY <2>0
    <3>2. recs \cup {total[f]} \subseteq Int
      BY <2>0, <3>1, Zenon
    <3>3. total[f] \in recs \cup {total[f]}
      OBVIOUS
    <3> QED
      BY <2>0, <3>2, <3>3, Zenon
  <2>2. PICK b \in Int : \A y \in recs \cup {total[f]} : y <= b
    <3>1. \A y \in recs \cup {total[f]} : y <= MaxLines + total[f]
      BY <1>1, <2>1
    <3>2. MaxLines + total[f] \in Int
      BY <1>1, <2>1
    <3> QED
      BY <3>1, <3>2
  <2>3. m \in recs \cup {total[f]} /\ \A y \in recs \cup {total[f]} : y <= m
    BY <1>4, <2>1, <2>2, MaxIs
  <2>4. m \in Nat
    BY <1>1, <2>1, <2>3
  <2> QED
    BY <2>3, <2>4
<1>6. total' \in [Files -> Nat] /\ total'[f] = m /\ \A g \in Files : g # f => total'[g] = total[g]
  BY <1>4, <1>5
<1>7. SeenOf(f) <= SeenOf(f)'
  <2>1. SeenOf(f)' = seen'[f]
    BY <1>2 DEF SeenOf
  <2>2. CASE ad.cumulative
    <3> DEFINE growth == {Output(text[f], i) - Baseline(f, recs) : i \in recs}
    <3>1. seen' = [seen EXCEPT ![f] = Max(growth \cup {SeenOf(f)})]
      BY <2>2, Zenon DEF applyRecords, SeenOf
    <3>2. \A i \in recs : Output(text[f], i) \in Nat /\ Output(text[f], i) <= MaxLines
      <4> SUFFICES ASSUME NEW i \in recs
                   PROVE  Output(text[f], i) \in Nat /\ Output(text[f], i) <= MaxLines
        OBVIOUS
      <4>1. i \in Nat /\ i >= 1 /\ i <= MaxLines
        BY <1>1
      <4>2. Output(text[f], i) \in Nat /\ Output(text[f], i) <= i
        BY <4>1, OutputType
      <4> QED
        BY <1>1, <4>1, <4>2
    <3>3. Baseline(f, recs) \in Nat
      <4>1. recs \subseteq Nat
        BY <1>1
      <4>2. Min(recs) \in recs
        BY <4>1, MinIs
      <4>3. Output(text[f], Min(recs)) \in Nat
        BY <3>2, <4>2
      <4> QED
        BY <4>3 DEF Baseline, CountInv, Counters
    <3>4. growth \cup {SeenOf(f)} \subseteq Int
          /\ \A y \in growth \cup {SeenOf(f)} : y <= MaxLines + SeenOf(f)
      <4>1. \A i \in recs : /\ Output(text[f], i) - Baseline(f, recs) \in Int
                            /\ Output(text[f], i) - Baseline(f, recs) <= MaxLines + SeenOf(f)
        BY <1>1, <1>3, <3>2, <3>3
      <4> QED
        BY <1>1, <1>3, <4>1
    <3>5. SeenOf(f) <= Max(growth \cup {SeenOf(f)})
      <4> HIDE DEF growth
      <4>1. MaxLines + SeenOf(f) \in Int
        BY <1>1, <1>3
      <4> QED
        BY <3>4, <4>1, MaxIs
    <3>6. seen'[f] = Max(growth \cup {SeenOf(f)})
      <4> HIDE DEF growth
      <4> QED
        BY <3>1 DEF CountInv
    <3> QED
      BY <2>1, <3>5, <3>6
  <2>3. CASE ~ad.cumulative
    <3>1. seen' = [seen EXCEPT ![f] = SeenOf(f) + Cardinality(recs)]
      BY <2>3, Zenon DEF applyRecords, SeenOf
    <3>2. seen'[f] = SeenOf(f) + Cardinality(recs)
      BY <3>1 DEF CountInv
    <3>3. Cardinality(recs) \in Nat
      BY <1>1, LineSets
    <3> QED
      BY <1>3, <2>1, <3>2, <3>3
  <2> QED
    BY <2>2, <2>3
<1>8. \A g \in Files : SeenOf(g) <= SeenOf(g)' /\ total[g] <= total'[g]
  <2>1. \A g \in Files : g # f => SeenOf(g)' = SeenOf(g)
    BY <1>2 DEF SeenOf
  <2> QED
    BY <1>3, <1>5, <1>6, <1>7, <2>1
<1> QED
  BY <1>2, <1>6, <1>8

\* A step that leaves the counters and the sample, and ends no attach and no poll.
LEMMA SampleStays ==
  ASSUME SampleInv, UNCHANGED <<seen, total, sample>>,
         pc' = pc \/ pc' = "poll" \/ (pc = "attach" /\ pc' = "idle")
  PROVE  SampleInv'
<1>1. Counted' = Counted /\ Context' = Context /\ Sums' = Sums
  BY DEF Counted, Context, Sums
<1> QED
  BY <1>1 DEF SampleInv

\* Every step keeps it.
LEMMA NextSample ==
  ASSUME WatchInv, WatchInv', SampleInv, [Next]_vars
  PROVE  SampleInv' /\ sample'.output >= sample.output /\ sample'.total >= sample.total
<1>0. CountInv /\ CountInv' /\ TypeOK /\ total \in [Files -> Nat]
      /\ sample.output \in Nat /\ sample.total \in Nat
  BY DEF WatchInv, SampleInv
<1>1. CASE sample' = sample /\ SampleInv'
  BY <1>0, <1>1
<1>2. CASE UNCHANGED vars
  <2>1. UNCHANGED <<seen, total, sample, pc>>
    BY <1>2 DEF vars, books, call
  <2> QED
    BY <1>1, <2>1, SampleStays
<1>3. ASSUME NEW f \in Files, Reader(f) \/ Writer(f)
      PROVE  UNCHANGED <<seen, total, sample, pc>>
  BY <1>3, Zenon DEF Reader, AttachStat, StatFails, Untouched, Undetermined, SkipForeign,
     LeaveUnread, OpenFile, Decides, Visits, At, Writer, BeginLine, ExtendLine, Rewrite, Age,
     books, call
<1>4. CASE \E f \in Files : Reader(f) \/ Writer(f)
  BY <1>1, <1>3, <1>4, SampleStays
<1>5. CASE seedBaseline \/ AttachDone \/ PollCached \/ Poll
  <2>1. /\ UNCHANGED <<seen, total, sample>>
        /\ pc' = pc \/ pc' = "poll" \/ (pc = "attach" /\ pc' = "idle")
    BY <1>5 DEF seedBaseline, AttachDone, PollCached, Poll, books, call
  <2> QED
    BY <1>1, <2>1, SampleStays
<1>6. CASE PollRescan
  <2>1. PICK live : forgetIdle(live)
    BY <1>6 DEF PollRescan
  <2>2. UNCHANGED <<seen, sample>> /\ pc' = "poll"
    BY <1>6, <2>1 DEF PollRescan, forgetIdle
  <2>3. total' = [f \in Files |-> IF f \in Keep(live) THEN total[f] ELSE 0]
    BY <2>1 DEF forgetIdle
  <2>4. \A f \in Files : f \notin Keep(live) => total[f] = 0
    BY DEF Keep, SampleInv
  <2>5. total' = total
    BY <1>0, <2>3, <2>4
  <2> QED
    BY <1>1, <2>2, <2>5, SampleStays
<1>7. CASE ReadFile
  <2>0. PICK f : f = cur.file
    OBVIOUS
  <2> DEFINE recs == Records(text[f], Size(f), offsets[f])
  <2>1. f \in Files /\ pc = "poll" /\ pc' = pc /\ sample' = sample
    BY <1>0, <1>7, <2>0 DEF ReadFile, TypeOK
  <2>2. UNCHANGED <<seen, total>> \/ applyRecords(f, recs)
    BY <1>7, <2>0, Zenon DEF ReadFile
  <2>3. recs \subseteq 1..MaxLines
    BY <1>0, <2>1, RecordsAreLines
  <2>4. CASE UNCHANGED <<seen, total>>
    BY <1>1, <2>1, <2>4, SampleStays
  <2>5. CASE applyRecords(f, recs) /\ recs = {}
    <3>1. UNCHANGED <<seen, total>>
      BY <2>5 DEF applyRecords
    <3> QED
      BY <2>4, <3>1
  <2>6. CASE applyRecords(f, recs) /\ recs # {}
    <3> HIDE DEF recs
    <3>1. /\ total' \in [Files -> Nat]
          /\ seen'[f] # Absent
          /\ \A g \in Files : /\ SeenOf(g) <= SeenOf(g)' /\ total[g] <= total'[g]
                              /\ g # f => seen'[g] = seen[g] /\ total'[g] = total[g]
      BY <1>0, <2>1, <2>3, <2>6, AppliedGrows
    <3>2. /\ Counted \in Nat /\ Context \in Nat /\ Counted' \in Nat /\ Context' \in Nat
          /\ Counted <= Counted' /\ Context <= Context'
      BY <1>0, <3>1, SumsGrow
    <3>3. sample'.output <= Counted' /\ sample'.total <= Context'
      BY <1>0, <2>1, <3>2 DEF SampleInv
    <3>4. \A g \in Files : seen'[g] = Absent => total'[g] = 0
      BY <3>1 DEF SampleInv
    <3>5. SampleInv'
      BY <2>1, <3>1, <3>3, <3>4 DEF SampleInv
    <3> QED
      BY <1>1, <2>1, <3>5
  <2> QED
    BY <2>2, <2>4, <2>5, <2>6
<1>8. CASE EndPoll
  <2>1. UNCHANGED <<seen, total>> /\ pc' = "idle" /\ sample' = IF Grew THEN Sums ELSE sample
    BY <1>8 DEF EndPoll, books, Refreshed
  <2>2. Counted' = Counted /\ Context' = Context /\ Sums' = Sums
    BY <2>1 DEF Counted, Context, Sums
  <2>3. Counted \in Nat /\ Context \in Nat
    <3>1. \A f \in Files : SeenOf(f) \in Nat /\ total[f] \in Nat /\ SeenOf(f)' = SeenOf(f)
      BY <1>0, <2>1 DEF CountInv, Counters, SeenOf
    <3>2. \A f \in Files : SeenOf(f) <= SeenOf(f)' /\ total[f] <= total'[f]
      BY <2>1, <3>1
    <3>3. total' \in [Files -> Nat]
      BY <1>0, <2>1
    <3> QED
      BY <1>0, <3>2, <3>3, SumsGrow
  <2>4. sample' = Sums
    <3>1. CASE Grew
      BY <2>1, <3>1
    <3>2. CASE ~Grew
      <4>1. sample.output = Counted /\ sample.total = Context
        BY <1>0, <2>3, <3>2 DEF Grew, SampleInv
      <4>2. sample = [output |-> sample.output, total |-> sample.total]
        BY DEF SampleInv
      <4> QED
        BY <2>1, <3>2, <4>1, <4>2 DEF Sums
    <3> QED
      BY <3>1, <3>2
  <2>5. sample'.output = Counted /\ sample'.total = Context /\ sample' \in [output : Nat, total : Nat]
    BY <2>3, <2>4 DEF Sums
  <2>6. SampleInv'
    BY <2>1, <2>2, <2>3, <2>4, <2>5 DEF SampleInv
  <2> QED
    BY <2>5, <2>6 DEF SampleInv
<1> QED
  BY <1>2, <1>4, <1>5, <1>6, <1>7, <1>8 DEF Next

\* Nothing is counted before the attach, and the sample is of nothing.
LEMMA InitSample ==
  ASSUME Init
  PROVE  SampleInv
<1> DEFINE c == [f \in Files |-> IF seen[f] = Absent THEN 0 ELSE seen[f]]
<1>1. IsFiniteSet(Files)
  BY WatcherAssumption DEF WatcherAssumption
<1>2. /\ c \in [Files -> Nat] /\ total \in [Files -> Nat]
      /\ \A f \in Files : c[f] = 0 /\ total[f] = 0 /\ seen[f] = Absent
      /\ pc = "attach" /\ sample = [output |-> 0, total |-> 0]
  BY DEF Init
<1>3. SumFunction(c) = 0 /\ SumFunction(total) = 0
  <2> HIDE DEF c
  <2>1. (\A f \in Files : c[f] <= c[f]) /\ (\A f \in Files : total[f] <= total[f])
    BY <1>2
  <2>2. SumFunction(c) = 0
    BY <1>1, <1>2, <2>1, SumOrder
  <2>3. SumFunction(total) = 0
    BY <1>1, <1>2, <2>1, SumOrder
  <2> QED
    BY <2>2, <2>3
<1>4. Counted = 0 /\ Context = 0
  BY <1>3 DEF Counted, Context
<1> QED
  BY <1>2, <1>4 DEF SampleInv, Sums

\* It holds in every reachable state.
LEMMA SampleInvariant == Spec => []SampleInv
<1>1. WatchInv /\ WatchInv' /\ SampleInv /\ [Next]_vars => SampleInv'
  BY NextSample
<1> QED
  BY <1>1, InitSample, WatchInvariant, PTL DEF Spec

\* Between polls the sample is the sum over all transcripts, those forgotten
\* included (poll, forgetIdle).
THEOREM SamplesAll == Spec => []SampleCurrent
<1>1. SampleInv => SampleCurrent
  BY DEF SampleInv, SampleCurrent
<1> QED
  BY <1>1, SampleInvariant, PTL

\* The sample never goes back, also when transcripts are forgotten or replaced
\* (poll, forgetIdle).
THEOREM SampleGrows == Spec => SampleMonotone
<1>1. WatchInv /\ WatchInv' /\ SampleInv /\ [Next]_vars
        => [sample'.output >= sample.output /\ sample'.total >= sample.total]_sample
  BY NextSample
<1> QED
  BY <1>1, SampleInvariant, WatchInvariant, PTL DEF Spec, SampleMonotone

(***************************************************************************)
(* The watcher is a meter                                                  *)
(***************************************************************************)
\* What a transcript may have added to the sample.
Added(f) == used[f] + IF f \in tracked \/ seen[f] = Absent THEN 0 ELSE seen[f]

\* What was spent and what was counted only grow, and the watcher learns where a
\* transcript ended before it counts any of it (Watch, forgetIdle).
LEMMA StepGrows ==
  ASSUME WatchInv, WatchInv', TallyInv, TallyInv', SampleInv, [Next]_vars, NEW f \in Files
  PROVE  /\ used[f] <= used'[f]
         /\ SeenOf(f) <= SeenOf(f)'
         /\ f \in tracked' => f \in tracked \/ seen[f] = Absent
<1>0. /\ used \in [Files -> Nat] /\ TypeOK /\ CountInv /\ AttachInv /\ total \in [Files -> Nat]
      /\ SeenOf(f) \in Nat
  BY DEF WatchInv, TallyInv, SampleInv, CountInv, Counters, SeenOf
<1>1. CASE UNCHANGED <<used, seen, tracked>>
  BY <1>0, <1>1 DEF SeenOf
<1>2. CASE UNCHANGED vars
  BY <1>1, <1>2 DEF vars, books, history
<1>3. ASSUME NEW g \in Files, Writer(g)
      PROVE  UNCHANGED <<seen, tracked>> /\ used[f] <= used'[f]
  <2>1. UNCHANGED <<seen, tracked>>
    BY <1>3, Zenon DEF Writer, BeginLine, ExtendLine, Rewrite, Age, books, history
  <2>2. used' = used \/ used' = [used EXCEPT ![g] = @ + 1]
    BY <1>3, Zenon DEF Writer, BeginLine, ExtendLine, Rewrite, Age, Completes, history
  <2>3. used[f] <= used'[f]
    BY <1>0, <2>2
  <2> QED
    BY <2>1, <2>3
<1>4. ASSUME NEW g \in Files, Reader(g)
      PROVE  /\ UNCHANGED <<seen, used>>
             /\ f \in tracked' => f \in tracked \/ seen[f] = Absent
  <2>1. UNCHANGED <<seen, used>>
    BY <1>4, Zenon DEF Reader, AttachStat, StatFails, Untouched, Undetermined, SkipForeign,
       LeaveUnread, OpenFile, Decides, Visits, At, history
  <2>2. tracked' = tracked \/ pc = "attach"
    BY <1>4, Zenon DEF Reader, AttachStat, StatFails, Untouched, Undetermined, SkipForeign,
       LeaveUnread, OpenFile, Decides, Visits, At, history
  <2> QED
    BY <1>0, <2>1, <2>2 DEF AttachInv
<1>5. CASE seedBaseline \/ AttachDone \/ PollCached \/ Poll \/ EndPoll
  <2>1. UNCHANGED <<used, seen, tracked>>
    BY <1>5 DEF seedBaseline, AttachDone, PollCached, Poll, EndPoll, books, history
  <2> QED
    BY <1>1, <2>1
<1>6. CASE PollRescan
  <2>1. UNCHANGED <<used, seen>> /\ tracked' \subseteq tracked
    BY <1>6 DEF PollRescan, forgetIdle
  <2> QED
    BY <1>0, <2>1 DEF SeenOf
<1>7. CASE ReadFile
  <2>0. PICK g : g = cur.file
    OBVIOUS
  <2> DEFINE recs == Records(text[g], Size(g), offsets[g])
  <2>1. g \in Files /\ UNCHANGED <<tracked, used>>
    BY <1>0, <1>7, <2>0 DEF ReadFile, TypeOK
  <2>2. UNCHANGED <<seen, total>> \/ applyRecords(g, recs)
    BY <1>7, <2>0, Zenon DEF ReadFile
  <2>3. recs \subseteq 1..MaxLines
    BY <1>0, <2>1, RecordsAreLines
  <2>4. SeenOf(f) <= SeenOf(f)'
    <3>1. CASE seen' = seen
      BY <1>0, <3>1 DEF SeenOf
    <3>2. CASE applyRecords(g, recs) /\ recs # {}
      <4> HIDE DEF recs
      <4> QED
        BY <1>0, <2>1, <2>3, <3>2, AppliedGrows
    <3>3. CASE applyRecords(g, recs) /\ recs = {}
      BY <3>1, <3>3 DEF applyRecords
    <3> QED
      BY <2>2, <3>1, <3>2, <3>3
  <2> QED
    BY <1>0, <2>1, <2>4
<1>8. CASE \E g \in Files : Writer(g)
  <2>1. SeenOf(f)' = SeenOf(f)
    BY <1>3, <1>8 DEF SeenOf
  <2> QED
    BY <1>0, <1>3, <1>8, <2>1
<1>9. CASE \E g \in Files : Reader(g)
  <2>1. SeenOf(f)' = SeenOf(f)
    BY <1>4, <1>9 DEF SeenOf
  <2> QED
    BY <1>0, <1>4, <1>9, <2>1
<1> QED
  BY <1>2, <1>5, <1>6, <1>7, <1>8, <1>9 DEF Next

\* So what the meter owes only grows, and is a number.
LEMMA SpentGrows ==
  ASSUME WatchInv, WatchInv', TallyInv, TallyInv', SampleInv, [Next]_vars
  PROVE  Spent \in Nat /\ Spent' \in Nat /\ Spent <= Spent'
<1> DEFINE c == [f \in Files |-> Added(f)]
<1>1. IsFiniteSet(Files)
  BY WatcherAssumption DEF WatcherAssumption
<1>2. PICK d : d = [f \in Files |-> Added(f)']
  OBVIOUS
<1>3. \A f \in Files : Added(f) \in Nat /\ Added(f)' \in Nat /\ Added(f) <= Added(f)'
  <2> SUFFICES ASSUME NEW f \in Files
               PROVE  Added(f) \in Nat /\ Added(f)' \in Nat /\ Added(f) <= Added(f)'
    OBVIOUS
  <2>1. /\ used[f] \in Nat /\ used'[f] \in Nat
        /\ seen[f] \in Nat \cup {Absent} /\ seen'[f] \in Nat \cup {Absent}
    BY DEF WatchInv, TallyInv, CountInv, Counters
  <2>2. /\ used[f] <= used'[f] /\ SeenOf(f) <= SeenOf(f)'
        /\ f \in tracked' => f \in tracked \/ seen[f] = Absent
    BY StepGrows
  <2> QED
    BY <2>1, <2>2 DEF Added, SeenOf
<1>4. c \in [Files -> Nat] /\ d \in [Files -> Nat] /\ \A f \in Files : c[f] <= d[f]
  BY <1>2, <1>3
<1>5. SumFunction(c) \in Nat /\ SumFunction(d) \in Nat /\ SumFunction(c) <= SumFunction(d)
  <2> HIDE DEF c
  <2> QED
    BY <1>1, <1>4, SumOrder
<1>6. Spent = SumFunction(c) /\ Spent' = SumFunction(d)
  BY <1>2 DEF Spent, Added
<1> QED
  BY <1>5, <1>6

\* What was counted is covered by what may have been added (NeverInvents).
LEMMA CountedIsSpent ==
  ASSUME WatchInv, TallyInv
  PROVE  Counted \in Nat /\ Counted <= Spent
<1> DEFINE c == [f \in Files |-> IF seen[f] = Absent THEN 0 ELSE seen[f]]
           d == [f \in Files |-> Added(f)]
<1>1. IsFiniteSet(Files)
  BY WatcherAssumption DEF WatcherAssumption
<1>2. \A f \in Files : SeenOf(f) \in Nat /\ Added(f) \in Nat /\ SeenOf(f) <= Added(f)
  <2> SUFFICES ASSUME NEW f \in Files
               PROVE  SeenOf(f) \in Nat /\ Added(f) \in Nat /\ SeenOf(f) <= Added(f)
    OBVIOUS
  <2>1. used[f] \in Nat /\ seen[f] \in Nat \cup {Absent} /\ SpentInv(f)
    BY DEF WatchInv, TallyInv, CountInv, Counters
  <2>2. CASE f \in tracked
    <3>1. Cardinality(Pending(f)) \in Nat
      BY Counts DEF WatchInv
    <3>2. SeenOf(f) \in Nat
      BY <2>1 DEF SeenOf
    <3>3. SeenOf(f) <= used[f]
      BY <2>1, <2>2, <3>1, <3>2 DEF SpentInv
    <3> QED
      BY <2>1, <2>2, <3>2, <3>3 DEF Added
  <2>3. CASE f \notin tracked
    BY <2>1, <2>3 DEF Added, SeenOf
  <2> QED
    BY <2>2, <2>3
<1>3. c \in [Files -> Nat] /\ d \in [Files -> Nat] /\ \A f \in Files : c[f] <= d[f]
  BY <1>2 DEF SeenOf
<1>4. SumFunction(c) \in Nat /\ SumFunction(c) <= SumFunction(d)
  <2> HIDE DEF c, d
  <2> QED
    BY <1>1, <1>3, SumOrder
<1>5. Counted = SumFunction(c) /\ Spent = SumFunction(d)
  BY DEF Counted, Spent, Added
<1> QED
  BY <1>4, <1>5

\* At first nothing was spent and nothing is shown.
LEMMA MeterStarts ==
  ASSUME Init
  PROVE  Meter!MeterInit
<1> DEFINE d == [f \in Files |-> Added(f)]
<1>1. IsFiniteSet(Files)
  BY WatcherAssumption DEF WatcherAssumption
<1>2. d \in [Files -> Nat] /\ \A f \in Files : d[f] = 0
  BY DEF Init, Added
<1>3. SumFunction(d) = 0
  <2> HIDE DEF d
  <2>1. \A f \in Files : d[f] <= d[f]
    BY <1>2
  <2> QED
    BY <1>1, <1>2, <2>1, SumOrder
<1>4. Spent = 0
  BY <1>3 DEF Spent, Added
<1>5. sample.output = 0
  BY DEF Init
<1> QED
  BY <1>4, <1>5 DEF Meter!MeterInit

\* The sample is replaced by a poll that ends, and what is owed stays.
LEMMA MeterSteps ==
  ASSUME WatchInv, WatchInv', TallyInv, TallyInv', SampleInv, SampleInv', [Next]_vars
  PROVE  [Meter!Due \/ Meter!Show]_<<[c \in {"output"} |-> Spent],
                                     [c \in {"output"} |-> sample.output]>>
<1>1. Spent \in Nat /\ Spent' \in Nat /\ Spent <= Spent'
  BY SpentGrows
<1>2. sample.output \in Nat /\ sample'.output \in Nat /\ sample'.output >= sample.output
  BY NextSample DEF SampleInv
<1>3. CASE sample'.output = sample.output
  BY <1>1, <1>3 DEF Meter!Due
<1>4. CASE sample'.output # sample.output
  <2>1. EndPoll
    <3>1. ASSUME NEW f \in Files, Reader(f) \/ Writer(f)
          PROVE  sample' = sample
      BY <3>1, Zenon DEF Reader, AttachStat, StatFails, Untouched, Undetermined, SkipForeign,
         LeaveUnread, OpenFile, Decides, Visits, At, Writer, BeginLine, ExtendLine, Rewrite, Age
    <3>2. CASE UNCHANGED vars \/ seedBaseline \/ AttachDone \/ PollCached \/ PollRescan \/ ReadFile
               \/ Poll
      BY <1>4, <3>2 DEF vars, seedBaseline, AttachDone, PollCached, PollRescan, ReadFile, Poll
    <3> QED
      BY <1>4, <3>1, <3>2 DEF Next
  <2>2. UNCHANGED <<seen, used, tracked>> /\ pc' = "idle"
    BY <2>1 DEF EndPoll, books, history
  <2>3. Spent' = Spent /\ Counted' = Counted
    BY <2>2 DEF Spent, Counted
  <2>4. sample'.output = Counted'
    BY <2>2 DEF SampleInv, Sums
  <2>5. sample'.output <= Spent /\ sample'.output > sample.output
    BY <1>2, <1>4, <2>3, <2>4, CountedIsSpent
  <2> QED
    BY <2>3, <2>5 DEF Meter!Show
<1> QED
  BY <1>3, <1>4

\* A watcher keeps the promise that every source of usage makes: what it shows was
\* spent, and each new reading shows more (poll).
THEOREM WatcherIsMeter == Spec => ImplementsMeter
<1>1. WatchInv /\ WatchInv' /\ TallyInv /\ TallyInv' /\ SampleInv /\ SampleInv' /\ [Next]_vars
        => [Meter!Due \/ Meter!Show]_<<[c \in {"output"} |-> Spent],
                                       [c \in {"output"} |-> sample.output]>>
  BY MeterSteps
<1> QED
  BY <1>1, MeterStarts, WatchInvariant, TallyInvariant, SampleInvariant, SampleGrows, PTL
     DEF Spec, ImplementsMeter, Meter!MeterSpec

=============================================================================
