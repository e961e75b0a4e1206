--------------------------- MODULE DashboardProofs ---------------------------
(***************************************************************************)
(* What the dashboard promises to who looks at it.  Its screen never goes  *)
(* back in time, for any number of frames; and what Surface asks of the    *)
(* conversions between what it is told and what it shows holds for inputs  *)
(* of every size, of which the bounded ones of Surface are some.           *)
(***************************************************************************)
EXTENDS Screen, Surface, TLAPS, FiniteSetTheorems, WellFoundedInduction

(***************************************************************************)
(* The screen                                                              *)
(***************************************************************************)
\* What the commands of the Model produce.
Messages == [kind : Commands, no : Nat, at : Nat, probe : Nat]

\* The types that TypeOK leaves open: those of what is on its way and on the screen.
Typed ==
  /\ waiting \in [Commands -> 0..1] /\ mail \subseteq Messages
  /\ queue \in Seq(Messages)
  /\ prober \in [asked : Nat, newest : Nat]
  /\ ui \in [paused : BOOLEAN, help : BOOLEAN, quit : BOOLEAN, clock : Nat, shown : Messages,
             probing : BOOLEAN, probeReq : Nat, down : BOOLEAN]
  /\ once \in [left : 0..Wanted, shown : Nat, ended : {"no", "printed", "interrupted", "timeout"}]
  /\ once.ended = "no" => once.left > 0

\* A goroutine of a command or its one message, never both and never neither.
OneOut ==
  \A c \in Commands :
    /\ waiting[c] = 1 => \A msg \in mail : msg.kind # c
    /\ waiting[c] = 0 => \E msg \in mail : /\ msg.kind = c
                                           /\ \A other \in mail : other.kind = c => other = msg

\* Frames leave the channel in the order they were made, so the one that was handed over
\* is older than those in the channel, and the one on the screen is no newer than it.
Order ==
  /\ Len(queue) <= made
  /\ \A i \in 1..Len(queue) : queue[i].kind = "snap" /\ queue[i].no = made - Len(queue) + i
  /\ \A msg \in mail : msg.kind = "snap" => /\ msg.no <= made - Len(queue)
                                            /\ ui.shown.no <= msg.no
  /\ ui.shown.no <= made - Len(queue)

ScreenInv == TypeOK /\ Typed /\ OneOut /\ Order

\* Bounds are numbers.
LEMMA ScreenConstants ==
  /\ Buffer \in Nat /\ MarkerLife \in Nat /\ Wanted \in Nat /\ Wanted > 0
  /\ MaxTime \in Nat /\ MaxFrames \in Nat
  BY ScreenAssumption DEF ScreenAssumption

\* Nothing is shown and each command has been started (Init).
LEMMA ScreenStarts ==
  ASSUME Init
  PROVE  ScreenInv
<1>1. TypeOK
  BY ScreenConstants DEF Init, TypeOK, Commands
<1>2. Blank \in Messages
  BY DEF Blank, Messages, Commands
<1>3. Typed
  BY <1>2, ScreenConstants DEF Init, Typed, Commands
<1>4. OneOut /\ Order
  BY DEF Init, OneOut, Order, Blank
<1> QED
  BY <1>1, <1>3, <1>4 DEF ScreenInv

\* The world, the keys: what is on its way stays there.
LEMMA WorldKeeps ==
  ASSUME ScreenInv,
         Second \/ ProbeLands \/ FeedDies \/ KeyProbe \/ \E k \in {"quit", "help", "pause"} : Key(k)
  PROVE  /\ ScreenInv' /\ ui'.shown = ui.shown
<1>1. TypeOK /\ Typed /\ OneOut /\ Order
  BY DEF ScreenInv
<1>2. UNCHANGED <<made, queue, waiting, mail, mode, once>>
  BY DEF Second, ProbeLands, FeedDies, KeyProbe, Key, collector
<1>3. TypeOK' /\ now' \in Nat
  BY <1>1, <1>2, ScreenConstants DEF TypeOK, Second, ProbeLands, FeedDies, KeyProbe, Key, collector
<1>4. prober' \in [asked : Nat, newest : Nat]
  <2>1. now \in Nat
    BY <1>1, ScreenConstants DEF TypeOK
  <2> QED
    BY <1>1, <2>1 DEF Typed, Second, ProbeLands, FeedDies, KeyProbe, Key, collector
<1>5. /\ ui' \in [paused : BOOLEAN, help : BOOLEAN, quit : BOOLEAN, clock : Nat, shown : Messages,
                  probing : BOOLEAN, probeReq : Nat, down : BOOLEAN]
      /\ ui'.shown = ui.shown
  <2>1. ui' = ui \/ \E b \in BOOLEAN : \/ ui' = [ui EXCEPT !.help = b]
                                       \/ ui' = [ui EXCEPT !.quit = b]
                                       \/ ui' = [ui EXCEPT !.paused = b]
                 \/ ui' = [ui EXCEPT !.probing = TRUE, !.probeReq = ui.clock]
    <3>1. CASE Second \/ ProbeLands \/ FeedDies
      BY <3>1 DEF Second, ProbeLands, FeedDies
    <3>2. CASE KeyProbe
      BY <3>2 DEF KeyProbe
    <3>3. ASSUME NEW k \in {"quit", "help", "pause"}, Key(k)
          PROVE  \E b \in BOOLEAN : \/ ui' = [ui EXCEPT !.help = b]
                                    \/ ui' = [ui EXCEPT !.quit = b]
                                    \/ ui' = [ui EXCEPT !.paused = b]
      <4>1. ui.help \in BOOLEAN /\ ui.paused \in BOOLEAN /\ (~ui.help) \in BOOLEAN /\ (~ui.paused) \in BOOLEAN
        BY <1>1 DEF Typed
      <4> QED
        BY <3>3, <4>1, Zenon DEF Key
    <3> QED
      BY <3>1, <3>2, <3>3
  <2>2. ui.clock \in Nat
    BY <1>1 DEF Typed
  <2> QED
    BY <1>1, <2>1, <2>2 DEF Typed
<1>6. Typed' /\ OneOut' /\ Order'
  BY <1>1, <1>2, <1>4, <1>5 DEF Typed, OneOut, Order
<1> QED
  BY <1>3, <1>5, <1>6 DEF ScreenInv

\* A new frame is the newest, at the end of the channel (emit).
LEMMA FrameKeeps ==
  ASSUME ScreenInv, Frame
  PROVE  ScreenInv' /\ ui' = ui
<1>0. TypeOK /\ Typed /\ OneOut /\ Order /\ Buffer \in Nat /\ MaxTime \in Nat /\ MaxFrames \in Nat
  BY ScreenConstants DEF ScreenInv
<1> DEFINE msg == [kind |-> "snap", no |-> made + 1, at |-> now, probe |-> prober.newest]
<1>1. msg \in Messages
  BY <1>0 DEF Messages, TypeOK, Typed, Commands
<1>2. /\ queue' = Append(queue, msg) /\ made' = made + 1
      /\ UNCHANGED <<mode, now, waiting, mail, ui, prober, feed, once>>
  BY DEF Frame
<1>3. made \in Nat /\ Len(queue) \in Nat /\ queue' \in Seq(Messages) /\ Len(queue') = Len(queue) + 1
  BY <1>0, <1>1, <1>2 DEF TypeOK, Typed
<1>4. TypeOK'
  BY <1>0, <1>2, <1>3 DEF Frame, TypeOK
<1>5. Typed' /\ OneOut'
  BY <1>0, <1>2, <1>3 DEF Typed, OneOut
<1>6. \A i \in 1..Len(queue') : queue'[i] = IF i <= Len(queue) THEN queue[i] ELSE msg
  <2> HIDE DEF msg
  <2> QED
    BY <1>0, <1>1, <1>2, <1>3 DEF Typed
<1>7. \A i \in 1..Len(queue') : queue'[i].kind = "snap" /\ queue'[i].no = made' - Len(queue') + i
  BY <1>0, <1>2, <1>3, <1>6, SMTT(30) DEF Order
<1>8. made' - Len(queue') = made - Len(queue) /\ Len(queue') <= made'
  BY <1>0, <1>2, <1>3 DEF Order
<1>9. Order'
  BY <1>0, <1>2, <1>7, <1>8 DEF Order
<1> QED
  BY <1>2, <1>4, <1>5, <1>9 DEF ScreenInv

\* A command hands over its message: the only goroutine, now the only message.
LEMMA DeliverKeeps ==
  ASSUME ScreenInv, NEW c \in Commands, NEW msg \in Messages, Deliver(c, msg), msg.kind = c
  PROVE  /\ waiting' \in [Commands -> 0..1] /\ mail' \subseteq Messages /\ OneOut'
         /\ mail' = mail \cup {msg} /\ \A other \in mail : other.kind # c
<1>1. waiting[c] = 1 /\ \A other \in mail : other.kind # c
  BY DEF ScreenInv, Typed, OneOut, Deliver
<1>2. waiting' = [waiting EXCEPT ![c] = 0] /\ mail' = mail \cup {msg}
  BY <1>1 DEF Deliver
<1>3. waiting' \in [Commands -> 0..1] /\ mail' \subseteq Messages
  BY <1>2 DEF ScreenInv, Typed
<1>4. ASSUME NEW d \in Commands
      PROVE  /\ waiting'[d] = 1 => \A m \in mail' : m.kind # d
             /\ waiting'[d] = 0 => \E m \in mail' : /\ m.kind = d
                                                    /\ \A other \in mail' : other.kind = d => other = m
  <2>1. CASE d = c
    BY <1>1, <1>2, <2>1 DEF ScreenInv, Typed
  <2>2. CASE d # c
    <3>1. waiting'[d] = waiting[d]
      BY <1>2, <2>2 DEF ScreenInv, Typed
    <3> QED
      BY <1>2, <2>2, <3>1 DEF ScreenInv, OneOut
  <2> QED
    BY <2>1, <2>2
<1> QED
  BY <1>1, <1>2, <1>3, <1>4 DEF OneOut

\* The oldest frame leaves the channel.
LEMMA Taken ==
  ASSUME ScreenInv, queue # <<>>, queue' = Tail(queue), UNCHANGED made
  PROVE  /\ Head(queue) \in Messages /\ Head(queue).kind = "snap"
         /\ Head(queue).no = made' - Len(queue') /\ ui.shown.no <= Head(queue).no
         /\ made - Len(queue) <= made' - Len(queue')
         /\ queue' \in Seq(Messages) /\ Len(queue') <= Buffer /\ Len(queue') <= made'
         /\ \A i \in 1..Len(queue') : queue'[i].kind = "snap" /\ queue'[i].no = made' - Len(queue') + i
<1>0. /\ queue \in Seq(Messages) /\ made \in Nat /\ Len(queue) <= Buffer /\ Len(queue) <= made
      /\ Buffer \in Nat /\ Order /\ ui.shown \in Messages
  BY ScreenConstants DEF ScreenInv, TypeOK, Typed, Order
<1>1. Len(queue) \in Nat \ {0} /\ Len(queue') = Len(queue) - 1 /\ queue' \in Seq(Messages)
  BY <1>0
<1>2. Head(queue) = queue[1] /\ queue[1] \in Messages
  BY <1>0, <1>1
<1>3. queue[1].kind = "snap" /\ queue[1].no = made - Len(queue) + 1
  BY <1>0, <1>1 DEF Order
<1>4. \A i \in 1..Len(queue') : i + 1 \in 1..Len(queue) /\ queue'[i] = queue[i + 1]
  BY <1>0, <1>1
<1>5. \A i \in 1..Len(queue') : queue'[i].kind = "snap" /\ queue'[i].no = made' - Len(queue') + i
  BY <1>0, <1>1, <1>4 DEF Order
<1>6. ui.shown.no \in Nat /\ ui.shown.no <= made - Len(queue)
  BY <1>0 DEF Order, Messages
<1>7. /\ made' - Len(queue') = made - Len(queue) + 1
      /\ ui.shown.no <= made - Len(queue) + 1
      /\ made - Len(queue) <= made' - Len(queue')
      /\ Len(queue') <= Buffer /\ Len(queue') <= made'
  BY <1>0, <1>1, <1>6
<1> QED
  BY <1>1, <1>2, <1>3, <1>5, <1>7

\* A command that is started runs as one goroutine, and its message is delivered once.
LEMMA CommandsKeep ==
  ASSUME ScreenInv, waitSnap \/ tickClock \/ waitFeedErr \/ waitForFrames
  PROVE  ScreenInv' /\ ui' = ui
<1>0. TypeOK /\ Typed /\ OneOut /\ Order
  BY DEF ScreenInv
<1>1. UNCHANGED <<mode, now, made, ui, prober>>
  BY DEF waitSnap, tickClock, waitFeedErr, waitForFrames, Deliver
<1>2. made \in Nat /\ now \in Nat /\ Wanted \in Nat /\ Len(queue) \in Nat
  BY <1>0, ScreenConstants DEF TypeOK, Typed
<1>3. CASE waitSnap
  <2> DEFINE msg == Head(queue)
  <2>1. queue # <<>> /\ queue' = Tail(queue) /\ Deliver("snap", msg) /\ UNCHANGED <<feed, once>>
    BY <1>3 DEF waitSnap, Deliver
  <2>2. /\ msg \in Messages /\ msg.kind = "snap"
        /\ msg.no = made' - Len(queue') /\ ui.shown.no <= msg.no
        /\ made - Len(queue) <= made' - Len(queue')
        /\ queue' \in Seq(Messages) /\ Len(queue') <= Buffer /\ Len(queue') <= made'
        /\ \A i \in 1..Len(queue') : queue'[i].kind = "snap" /\ queue'[i].no = made' - Len(queue') + i
    BY <1>1, <2>1, Taken
  <2>3. "snap" \in Commands
    BY DEF Commands
  <2>4. /\ waiting' \in [Commands -> 0..1] /\ mail' \subseteq Messages /\ OneOut'
        /\ mail' = mail \cup {msg} /\ \A other \in mail : other.kind # "snap"
    <3> HIDE DEF msg
    <3> QED
      BY <2>1, <2>2, <2>3, DeliverKeeps
  <2>5. Typed'
    BY <1>0, <1>1, <2>1, <2>2, <2>4 DEF Typed
  <2>6. Order'
    <3> HIDE DEF msg
    <3>1. \A m \in mail' : m.kind = "snap" => m = msg
      BY <2>4
    <3>2. msg.no \in Nat /\ ui.shown.no \in Nat
      BY <1>0, <2>2 DEF Messages, Typed
    <3> QED
      BY <1>1, <2>2, <3>1, <3>2 DEF Order
  <2>7. TypeOK'
    BY <1>0, <1>1, <2>1, <2>2, <2>4 DEF TypeOK
  <2> QED
    BY <1>1, <2>4, <2>5, <2>6, <2>7 DEF ScreenInv
<1>4. ASSUME NEW c \in {"tick", "down"}, NEW msg \in Messages, Deliver(c, msg), msg.kind = c,
             UNCHANGED queue, feed' \in {"up", "down", "told"}
      PROVE  ScreenInv'
  <2>1. c \in Commands /\ c # "snap" /\ UNCHANGED once
    BY <1>4 DEF Commands, Deliver
  <2>2. /\ waiting' \in [Commands -> 0..1] /\ mail' \subseteq Messages /\ OneOut'
        /\ mail' = mail \cup {msg}
    BY <1>4, <2>1, DeliverKeeps
  <2>3. Typed' /\ TypeOK'
    BY <1>0, <1>1, <1>4, <2>1, <2>2 DEF Typed, TypeOK
  <2>4. Order'
    BY <1>0, <1>1, <1>4, <2>1, <2>2 DEF Order
  <2> QED
    BY <2>2, <2>3, <2>4 DEF ScreenInv
<1>5. CASE tickClock
  <2>1. [Blank EXCEPT !.kind = "tick", !.at = now] \in Messages
    BY <1>2 DEF Blank, Messages, Commands
  <2>2. [Blank EXCEPT !.kind = "tick", !.at = now].kind = "tick"
    BY DEF Blank
  <2> QED
    BY <1>0, <1>1, <1>4, <1>5, <2>1, <2>2 DEF tickClock, TypeOK
<1>6. CASE waitFeedErr
  <2>1. [Blank EXCEPT !.kind = "down"] \in Messages /\ [Blank EXCEPT !.kind = "down"].kind = "down"
    BY DEF Blank, Messages, Commands
  <2> QED
    BY <1>1, <1>4, <1>6, <2>1 DEF waitFeedErr
<1>7. CASE waitForFrames
  <2>1. UNCHANGED <<waiting, mail, feed>> /\ once.ended = "no"
    BY <1>7 DEF waitForFrames
  <2>2. CASE /\ queue # <<>> /\ queue' = Tail(queue)
             /\ once' = [left |-> once.left - 1, shown |-> Head(queue).no,
                         ended |-> IF once.left = 1 THEN "printed" ELSE "no"]
    <3>1. /\ Head(queue) \in Messages
          /\ Head(queue).no = made' - Len(queue')
          /\ made - Len(queue) <= made' - Len(queue')
          /\ queue' \in Seq(Messages) /\ Len(queue') <= Buffer /\ Len(queue') <= made'
          /\ \A i \in 1..Len(queue') : queue'[i].kind = "snap" /\ queue'[i].no = made' - Len(queue') + i
      BY <1>1, <2>2, Taken
    <3>2. once.left \in 1..Wanted /\ Head(queue).no \in Nat
      BY <1>0, <1>2, <2>1, <3>1, SMTT(30) DEF Typed, Messages
    <3>3. /\ once' \in [left : 0..Wanted, shown : Nat,
                        ended : {"no", "printed", "interrupted", "timeout"}]
          /\ once'.ended = "no" => once'.left > 0
      BY <1>2, <2>2, <3>2
    <3>4. Typed' /\ TypeOK' /\ OneOut'
      BY <1>0, <1>1, <2>1, <3>1, <3>3 DEF Typed, TypeOK, OneOut
    <3>5. Order'
      <4>1. /\ made - Len(queue) \in Int /\ made' - Len(queue') \in Int
            /\ \A m \in mail : m.no \in Nat
            /\ ui.shown.no \in Nat
        <5>1. made' \in Nat /\ Len(queue') \in Nat /\ mail \subseteq Messages /\ ui.shown \in Messages
          BY <1>0, <1>1, <1>2, <3>1 DEF Typed
        <5> QED
          BY <1>2, <5>1 DEF Messages
      <4>2. \A m \in mail' : m.kind = "snap" => m.no <= made' - Len(queue') /\ ui'.shown.no <= m.no
        BY <1>0, <1>1, <2>1, <3>1, <4>1 DEF Order
      <4>3. ui'.shown.no <= made' - Len(queue')
        BY <1>0, <1>1, <3>1, <4>1 DEF Order
      <4> QED
        BY <3>1, <4>2, <4>3 DEF Order
    <3> QED
      BY <1>1, <3>4, <3>5 DEF ScreenInv
  <2>3. CASE /\ \E why \in {"interrupted", "timeout"} : once' = [once EXCEPT !.ended = why]
             /\ UNCHANGED queue
    <3>1. /\ once' \in [left : 0..Wanted, shown : Nat,
                        ended : {"no", "printed", "interrupted", "timeout"}]
          /\ once'.ended # "no"
      BY <1>0, <2>3 DEF Typed
    <3>2. Typed' /\ TypeOK'
      BY <1>0, <1>1, <2>1, <2>3, <3>1 DEF Typed, TypeOK
    <3>3. OneOut' /\ Order'
      BY <1>0, <1>1, <2>1, <2>3 DEF OneOut, Order
    <3> QED
      BY <1>1, <3>2, <3>3 DEF ScreenInv
  <2> QED
    BY <1>7, <2>2, <2>3 DEF waitForFrames
<1> QED
  BY <1>1, <1>3, <1>5, <1>6, <1>7

\* A message is answered with the command it came from; a frame in it is no older than
\* the one on the screen (Update).
LEMMA UpdateKeeps ==
  ASSUME ScreenInv, Update
  PROVE  /\ ScreenInv'
         /\ ui'.shown.no >= ui.shown.no
         /\ ui.paused => ui'.shown = ui.shown
<1>0. TypeOK /\ Typed /\ OneOut /\ Order
  BY DEF ScreenInv
<1>1. PICK msg \in mail :
        /\ mail' = mail \ {msg}
        /\ waiting' = [c \in Commands |-> waiting[c] + IF c \in Reissued(msg.kind) THEN 1 ELSE 0]
        /\ ui' = CASE msg.kind = "tick" -> OnTick(msg)
                   [] msg.kind = "snap" -> OnSnap(msg)
                   [] OTHER -> [ui EXCEPT !.down = TRUE]
  BY Zenon DEF Update
<1>2. UNCHANGED <<mode, now, made, queue, prober, feed, once>>
  BY DEF Update, collector
<1>3. msg \in Messages /\ msg.kind \in Commands /\ msg.at \in Nat /\ msg.no \in Nat /\ msg.probe \in Nat
  BY <1>0, <1>1 DEF Typed, Messages
<1>4. /\ waiting[msg.kind] = 0 /\ \A other \in mail : other.kind = msg.kind => other = msg
  BY <1>0, <1>1, <1>3 DEF OneOut, Typed
<1>5. /\ waiting'[msg.kind] = 1
      /\ \A c \in Commands : c # msg.kind => waiting'[c] = waiting[c]
      /\ waiting' \in [Commands -> 0..1]
  BY <1>0, <1>1, <1>3, <1>4, SMTT(30) DEF Typed, Reissued
<1>6. OneOut'
  <2> SUFFICES ASSUME NEW c \in Commands
               PROVE  /\ waiting'[c] = 1 => \A m \in mail' : m.kind # c
                      /\ waiting'[c] = 0 => \E m \in mail' : /\ m.kind = c
                                              /\ \A other \in mail' : other.kind = c => other = m
    BY DEF OneOut
  <2>1. CASE c = msg.kind
    BY <1>1, <1>4, <1>5, <2>1
  <2>2. CASE c # msg.kind
    <3>1. waiting'[c] = waiting[c]
      BY <1>5, <2>2
    <3> QED
      BY <1>0, <1>1, <2>2, <3>1 DEF OneOut
  <2> QED
    BY <2>1, <2>2
<1>7. /\ ui' \in [paused : BOOLEAN, help : BOOLEAN, quit : BOOLEAN, clock : Nat, shown : Messages,
                  probing : BOOLEAN, probeReq : Nat, down : BOOLEAN]
      /\ ui'.shown = ui.shown \/ (ui'.shown = msg /\ msg.kind = "snap" /\ ~ui.paused)
  <2>0. /\ ui.clock \in Nat /\ ui.paused \in BOOLEAN /\ ui.shown \in Messages
        /\ ui \in [paused : BOOLEAN, help : BOOLEAN, quit : BOOLEAN, clock : Nat, shown : Messages,
                   probing : BOOLEAN, probeReq : Nat, down : BOOLEAN]
    BY <1>0 DEF Typed
  <2>1. CASE msg.kind = "tick"
    <3>1. PICK clock \in Nat, b \in BOOLEAN : ui' = [ui EXCEPT !.clock = clock, !.probing = b]
      BY <1>1, <1>3, <2>0, <2>1 DEF OnTick
    <3> QED
      BY <2>0, <3>1
  <2>2. CASE msg.kind = "snap" /\ ui.paused
    BY <1>1, <2>0, <2>2 DEF OnSnap
  <2>3. CASE msg.kind = "snap" /\ ~ui.paused
    <3>1. PICK b \in BOOLEAN : ui' = [ui EXCEPT !.shown = msg, !.probing = b]
      BY <1>1, <1>3, <2>0, <2>3 DEF OnSnap
    <3> QED
      BY <1>3, <2>0, <2>3, <3>1
  <2>4. CASE msg.kind = "down"
    BY <1>1, <2>0, <2>4
  <2> QED
    BY <1>3, <2>1, <2>2, <2>3, <2>4 DEF Commands
<1>8. /\ ui.shown.no \in Nat /\ made - Len(queue) \in Int
      /\ msg.kind = "snap" => ui.shown.no <= msg.no /\ msg.no <= made - Len(queue)
      /\ ui.shown.no <= made - Len(queue)
  BY <1>0, <1>1, SMTT(30) DEF Typed, TypeOK, Order, Messages
<1>9. ui'.shown.no >= ui.shown.no /\ (ui.paused => ui'.shown = ui.shown)
  BY <1>3, <1>7, <1>8
<1>10. Order'
  <2>1. \A m \in mail' : m.kind = "snap" => m.no <= made - Len(queue) /\ ui'.shown.no <= m.no
    BY <1>0, <1>1, <1>4, <1>7 DEF Order
  <2>2. ui'.shown.no <= made - Len(queue)
    BY <1>7, <1>8
  <2> QED
    BY <1>0, <1>2, <2>1, <2>2 DEF Order
<1>11. Typed' /\ TypeOK'
  BY <1>0, <1>1, <1>2, <1>5, <1>7 DEF Typed, TypeOK
<1> QED
  BY <1>6, <1>9, <1>10, <1>11 DEF ScreenInv

\* Every step keeps the invariant, and shows no older frame.
LEMMA ScreenKeeps ==
  ASSUME ScreenInv, [Next]_vars
  PROVE  /\ ScreenInv'
         /\ ui'.shown.no >= ui.shown.no
         /\ ui.paused => ui'.shown = ui.shown
<1>1. ui.shown.no \in Nat
  BY DEF ScreenInv, Typed, Messages
<1>2. CASE UNCHANGED vars
  <2>1. UNCHANGED <<mode, now, made, queue, waiting, mail, ui, prober, feed, once>>
    BY <1>2 DEF vars, collector
  <2>2. ScreenInv'
    BY <2>1 DEF ScreenInv, TypeOK, Typed, OneOut, Order
  <2> QED
    BY <1>1, <2>1, <2>2
<1> QED
  BY <1>1, <1>2, WorldKeeps, FrameKeeps, CommandsKeep, UpdateKeeps DEF Next

\* It holds in every state.
LEMMA ScreenInvariant == Spec => []ScreenInv
<1>1. ScreenInv /\ [Next]_vars => ScreenInv'
  BY ScreenKeeps
<1> QED
  BY <1>1, ScreenStarts, PTL DEF Spec

\* Each command is out once, as a goroutine or as a message (Update).
LEMMA CommandsOut == ScreenInv => OneOfEach
<1> SUFFICES ASSUME ScreenInv, NEW c \in Commands
             PROVE  waiting[c] + Cardinality({msg \in mail : msg.kind = c}) = 1
  BY DEF OneOfEach, ScreenInv
<1>1. waiting[c] \in 0..1
  BY DEF ScreenInv, Typed
<1>2. CASE waiting[c] = 1
  <2>1. {msg \in mail : msg.kind = c} = {}
    BY <1>2 DEF ScreenInv, OneOut
  <2> QED
    BY <1>2, <2>1, FS_EmptySet
<1>3. CASE waiting[c] = 0
  <2>1. PICK msg \in mail : msg.kind = c /\ \A other \in mail : other.kind = c => other = msg
    BY <1>3 DEF ScreenInv, OneOut
  <2>2. {m \in mail : m.kind = c} = {msg}
    BY <2>1
  <2> QED
    BY <1>3, <2>2, FS_Singleton
<1> QED
  BY <1>1, <1>2, <1>3

\* Whatever the order in which messages reach Update, no command is lost or doubled, the
\* screen never goes back to an older frame, and a paused one stays (Update, waitSnap).
THEOREM FramesInOrder == Spec => ShownInOrder
<1>1. ScreenInv /\ [Next]_vars
        => [/\ ui'.shown.no >= ui.shown.no
            /\ ui.paused => ui'.shown = ui.shown]_vars
  BY ScreenKeeps
<1>2. ScreenInv /\ [Next]_vars /\ OneOfEach'
        => [/\ OneOfEach'
            /\ ui'.shown.no >= ui.shown.no
            /\ ui.paused => ui'.shown = ui.shown]_vars
  BY <1>1
<1> QED
  BY <1>2, ScreenInvariant, CommandsOut, PTL DEF Spec, ShownInOrder

(***************************************************************************)
(* Sums over a finite set                                                  *)
(*                                                                         *)
(* MapThenSumSet is a fold: the value, for the whole set, of a function    *)
(* defined by recursion on its subsets.                                    *)
(***************************************************************************)
Some(s) == CHOOSE x \in s : TRUE

\* The function it gives the sum of fun over each subset of D, taking out some element at a time.
Adds(fun, it, D) ==
  it = [s \in SUBSET D |-> IF s = {} THEN 0 ELSE fun[Some(s)] + it[s \ {Some(s)}]]

\* The same, for subsets of at most n elements.
AddsUpTo(fun, it, D, n) ==
  it = [s \in {t \in SUBSET D : Cardinality(t) <= n} |->
          IF s = {} THEN 0 ELSE fun[Some(s)] + it[s \ {Some(s)}]]

SumOver(fun, D) == (CHOOSE it : Adds(fun, it, D))[D]

\* The smallest of a set of numbers.
LEMMA SmallestOf ==
  ASSUME NEW S, S \subseteq Nat, S # {}
  PROVE  \E m \in S : \A y \in S : m <= y
<1>1. PICK m \in S : \A y \in S : ~(<<y, m>> \in OpToRel(<, Nat))
  BY NatLessThanWellFounded, WFMin
<1>2. \A y \in S : ~(y < m)
  BY <1>1 DEF OpToRel
<1> QED
  BY <1>2

\* A set of numbers that holds zero, and the successor of each of its members, holds
\* them all.
LEMMA AllNumbers ==
  ASSUME NEW S, 0 \in S, \A n \in Nat : n \in S => n + 1 \in S
  PROVE  Nat \subseteq S
<1> SUFFICES ASSUME Nat \ S # {}
             PROVE  FALSE
  OBVIOUS
<1>1. PICK m \in Nat \ S : \A n \in Nat \ S : m <= n
  BY SmallestOf
<1>2. m # 0 /\ m - 1 \in Nat
  BY <1>1
<1>3. m - 1 \in Nat \ S
  BY <1>1, <1>2
<1> QED
  BY <1>1, <1>2, <1>3

\* A family that holds a set once it holds it less any one element holds all subsets
\* of a finite set.
LEMMA AllSubsets ==
  ASSUME NEW D, IsFiniteSet(D), NEW G,
         \A s \in SUBSET D : (\A x \in s : s \ {x} \in G) => s \in G
  PROVE  SUBSET D \subseteq G
<1> DEFINE Bad == {Cardinality(s) : s \in (SUBSET D) \ G}
<1>0. \A s \in SUBSET D : IsFiniteSet(s) /\ Cardinality(s) \in Nat
  BY FS_Subset, FS_CardinalityType
<1> SUFFICES ASSUME Bad # {}
             PROVE  FALSE
  OBVIOUS
<1>1. PICK m \in Bad : \A y \in Bad : m <= y
  <2>1. Bad \subseteq Nat
    BY <1>0
  <2> HIDE DEF Bad
  <2> QED
    BY <2>1, SmallestOf
<1>2. PICK s \in (SUBSET D) \ G : m = Cardinality(s)
  BY <1>1
<1>3. PICK x \in s : s \ {x} \notin G
  BY <1>2
<1>4. s \ {x} \in (SUBSET D) \ G
  BY <1>2, <1>3
<1>5. Cardinality(s \ {x}) = m - 1 /\ m \in Nat
  BY <1>0, <1>2, <1>3, FS_RemoveElement
<1>6. Cardinality(s \ {x}) \in Bad
  BY <1>4
<1> HIDE DEF Bad
<1>7. m <= m - 1
  BY <1>1, <1>5, <1>6
<1> QED
  BY <1>5, <1>7

\* Taking an element out of a set takes one off its size.
LEMMA TakenOut ==
  ASSUME NEW D, IsFiniteSet(D), NEW s \in SUBSET D, s # {}
  PROVE  /\ Some(s) \in s /\ s \ {Some(s)} \in SUBSET D
         /\ Cardinality(s) \in Nat /\ Cardinality(s) > 0
         /\ Cardinality(s \ {Some(s)}) = Cardinality(s) - 1
<1>1. IsFiniteSet(s)
  BY FS_Subset
<1>2. Some(s) \in s
  BY DEF Some
<1>3. Cardinality(s) \in Nat /\ Cardinality(s) # 0
  BY <1>1, FS_CardinalityType, FS_EmptySet
<1>4. Cardinality(s \ {Some(s)}) = Cardinality(s) - 1
  BY <1>1, <1>2, FS_RemoveElement
<1> QED
  BY <1>2, <1>3, <1>4

\* There is one, if there are finitely many elements: with it for subsets of n
\* elements, the equation itself defines it for those of one more.
LEMMA SumExists ==
  ASSUME NEW D, IsFiniteSet(D), NEW fun
  PROVE  \E it : Adds(fun, it, D)
<1> DEFINE S == {n \in Nat : \E it : AddsUpTo(fun, it, D, n)}
           Upto(n) == {t \in SUBSET D : Cardinality(t) <= n}
<1>0. \A t \in SUBSET D : IsFiniteSet(t) /\ Cardinality(t) \in Nat /\ (Cardinality(t) = 0 <=> t = {})
  BY FS_Subset, FS_CardinalityType, FS_EmptySet
<1>1. 0 \in S
  <2>1. \A t \in Upto(0) : t = {}
    BY <1>0
  <2>2. AddsUpTo(fun, [t \in Upto(0) |-> 0], D, 0)
    BY <2>1 DEF AddsUpTo
  <2> QED
    BY <2>2
<1>2. ASSUME NEW n \in Nat, n \in S
      PROVE  n + 1 \in S
  <2>1. PICK it : AddsUpTo(fun, it, D, n)
    BY <1>2
  <2>2. PICK jt : jt = [s \in Upto(n + 1) |->
                          IF s = {} THEN 0 ELSE fun[Some(s)] + it[s \ {Some(s)}]]
    OBVIOUS
  <2>3. ASSUME NEW s \in Upto(n + 1), s # {}
        PROVE  jt[s \ {Some(s)}] = it[s \ {Some(s)}]
    <3> DEFINE t == s \ {Some(s)}
    <3>1. t \in Upto(n) /\ t \in Upto(n + 1)
      BY <2>3, TakenOut
    <3>2. it[t] = IF t = {} THEN 0 ELSE fun[Some(t)] + it[t \ {Some(t)}]
      BY <2>1, <3>1, Zenon DEF AddsUpTo
    <3>3. jt[t] = IF t = {} THEN 0 ELSE fun[Some(t)] + it[t \ {Some(t)}]
      BY <2>2, <3>1, Zenon
    <3> QED
      BY <3>2, <3>3
  <2>4. jt = [s \in Upto(n + 1) |-> IF s = {} THEN 0 ELSE fun[Some(s)] + jt[s \ {Some(s)}]]
    BY <2>2, <2>3
  <2>5. AddsUpTo(fun, jt, D, n + 1)
    BY <2>4, Zenon DEF AddsUpTo
  <2> QED
    BY <2>5
<1>3. Nat \subseteq S
  <2> HIDE DEF S
  <2> QED
    BY <1>1, <1>2, AllNumbers
<1>4. Cardinality(D) \in Nat
  BY FS_CardinalityType
<1>5. PICK it : AddsUpTo(fun, it, D, Cardinality(D))
  BY <1>3, <1>4
<1>6. Upto(Cardinality(D)) = SUBSET D
  BY FS_Subset
<1> QED
  BY <1>5, <1>6, Zenon DEF AddsUpTo, Adds

(***************************************************************************)
(* Walks: functions defined by recursion over 0..N                         *)
(***************************************************************************)
Walks(f, N, base, step) ==
  f = [n \in 0..N |-> IF n = 0 THEN base ELSE step[<<n, f[n - 1]>>]]

\* There is one, and it stays in the set of values of its step.
LEMMA WalkExists ==
  ASSUME NEW N \in Nat, NEW X, NEW base \in X, NEW step \in [(1..N) \X X -> X]
  PROVE  \E f \in [0..N -> X] : Walks(f, N, base, step)
<1> DEFINE S == {k \in Nat : k <= N => \E f \in [0..k -> X] : Walks(f, k, base, step)}
<1>1. 0 \in S
  <2>1. /\ [n \in 0..0 |-> base] \in [0..0 -> X]
        /\ Walks([n \in 0..0 |-> base], 0, base, step)
    BY DEF Walks
  <2> QED
    BY <2>1
<1>2. ASSUME NEW k \in Nat, k \in S
      PROVE  k + 1 \in S
  <2> SUFFICES ASSUME k + 1 <= N
               PROVE  \E f \in [0..k + 1 -> X] : Walks(f, k + 1, base, step)
    OBVIOUS
  <2>1. PICK f \in [0..k -> X] : Walks(f, k, base, step)
    BY <1>2
  <2> DEFINE g == [n \in 0..k + 1 |-> IF n = k + 1 THEN step[<<k + 1, f[k]>>] ELSE f[n]]
  <2>2. g \in [0..k + 1 -> X]
    <3>1. step[<<k + 1, f[k]>>] \in X
      BY <2>1
    <3> QED
      BY <2>1, <3>1
  <2>3. \A n \in 0..k + 1 : g[n] = IF n = 0 THEN base ELSE step[<<n, g[n - 1]>>]
    <3> TAKE n \in 0..k + 1
    <3>1. CASE n = k + 1
      <4>1. k \in 0..k + 1 /\ n # 0 /\ n - 1 = k /\ k # k + 1
        BY <3>1
      <4>2. g[k] = f[k] /\ g[n] = step[<<n, f[k]>>]
        BY <3>1, <4>1
      <4> QED
        BY <4>1, <4>2
    <3>2. CASE n # k + 1
      <4>1. n \in 0..k
        BY <3>2
      <4>2. f[n] = IF n = 0 THEN base ELSE step[<<n, f[n - 1]>>]
        BY <2>1, <4>1, Zenon DEF Walks
      <4>3. g[n] = f[n] /\ (n # 0 => g[n - 1] = f[n - 1])
        BY <4>1
      <4> QED
        BY <4>2, <4>3
    <3> QED
      BY <3>1, <3>2
  <2>4. Walks(g, k + 1, base, step)
    <3> HIDE DEF g
    <3>1. g = [n \in 0..k + 1 |-> g[n]]
      BY <2>2
    <3> QED
      BY <2>3, <3>1, Zenon DEF Walks
  <2> QED
    BY <2>2, <2>4
<1>3. Nat \subseteq S
  <2> HIDE DEF S
  <2> QED
    BY <1>1, <1>2, AllNumbers
<1> QED
  BY <1>3

(***************************************************************************)
(* Requests, times and text                                                *)
(***************************************************************************)
\* One line is logged for a POST or a refusal, none for a read (withUnhandledLog).
LEMMA OneLineEach ==
  ASSUME NEW r \in Wire!Requests
  PROVE  Wire!LoggedOnce(r)
BY DEF Wire!Requests, Wire!LoggedOnce, Wire!LogLines, Wire!Status, Wire!skipUnhandledLog,
       Wire!Reads, Wire!knownIngestPath

\* Nine and ten digits of seconds are told apart from the same time in a finer unit.
LEMMA UnitsTold ==
  ASSUME NEW digits \in 9..10
  PROVE  Wire!UnitsAgree(digits)
BY DEF Wire!UnitsAgree, Wire!Units, Wire!unixEpochTime, Wire!unixEpochInt, Wire!MaxDigits

\* What holds of a place once it holds of all later ones holds of all.
LEMMA Backwards ==
  ASSUME NEW n \in Nat, NEW S, \A i \in 1..n : (\A j \in i + 1..n : j \in S) => i \in S
  PROVE  1..n \subseteq S
<1> DEFINE Left == {n - i : i \in (1..n) \ S}
<1> SUFFICES ASSUME Left # {}
             PROVE  FALSE
  OBVIOUS
<1>1. PICK m \in Left : \A y \in Left : m <= y
  <2>1. Left \subseteq Nat
    OBVIOUS
  <2> HIDE DEF Left
  <2> QED
    BY <2>1, SmallestOf
<1>2. PICK i \in (1..n) \ S : m = n - i
  BY <1>1
<1>3. PICK j \in i + 1..n : j \notin S
  BY <1>2
<1>4. n - j \in Left
  BY <1>2, <1>3
<1> HIDE DEF Left
<1>5. n - i <= n - j
  BY <1>1, <1>2, <1>4
<1> QED
  BY <1>2, <1>3, <1>5

\* The first of some places is one of them, and none is before it.
LEMMA FirstInside ==
  ASSUME NEW S, S \subseteq Nat, NEW else
  PROVE  /\ S = {} => Wire!FirstIn(S, else) = else
         /\ S # {} => /\ Wire!FirstIn(S, else) \in S
                      /\ \A j \in S : Wire!FirstIn(S, else) <= j
  BY SmallestOf DEF Wire!FirstIn

\* Skipping an escape sequence goes forward, and no further than past the end.
LEMMA SkipsForward ==
  ASSUME NEW s \in Seq(Wire!Chars), NEW i \in 2..Len(s) + 1
  PROVE  Wire!skipEscapeSeq(s, i) \in i..Len(s) + 1
<1> DEFINE N == Len(s)
           csi == {k \in i + 1..N : s[k] # "?"}
           osc == {k \in i + 1..N : s[k] = "bel" \/ (s[k] = "esc" /\ Wire!At(s, k + 1) = "\\")}
           f == Wire!FirstIn(csi, N + 1)
           g == Wire!FirstIn(osc, N + 1)
           skip == Wire!skipEscapeSeq(s, i)
<1>0. N \in Nat /\ "end" \notin {"x", "[", "]", "\\"} /\ \A k \in Nat : k > N => Wire!At(s, k) = "end"
  BY DEF Wire!At
<1>1. f \in csi \cup {N + 1} /\ g \in osc \cup {N + 1}
  <2>1. csi \subseteq Nat /\ osc \subseteq Nat
    BY <1>0
  <2> HIDE DEF csi, osc
  <2> QED
    BY <2>1, FirstInside
<1>2. skip = CASE Wire!At(s, i) = "end" -> i
               [] Wire!At(s, i) = "[" -> IF Wire!At(s, f) \in {"x", "[", "]", "\\"} THEN f + 1 ELSE f
               [] Wire!At(s, i) = "]" -> IF g > N THEN g ELSE IF s[g] = "bel" THEN g + 1 ELSE g + 2
               [] OTHER -> i + 1
  BY Zenon DEF Wire!skipEscapeSeq
<1> HIDE DEF skip, f, g
<1>3. i <= N => f \in i + 1..N + 1 /\ g \in i + 1..N + 1
  <2>1. csi \subseteq i + 1..N /\ osc \subseteq i + 1..N
    BY <1>0
  <2> HIDE DEF csi, osc
  <2> HIDE DEF N
  <2>2. i <= N => i + 1..N \subseteq i + 1..N + 1 /\ N + 1 \in i + 1..N + 1
    <3>1. i \in 2..N + 1
      BY DEF N
    <3> QED
      BY <1>0, <3>1
  <2> QED
    BY <1>1, <2>1, <2>2
<1>4. CASE Wire!At(s, i) = "end"
  BY <1>0, <1>2, <1>4 DEF skip
<1>5. CASE Wire!At(s, i) = "["
  <2>0. i <= N
    BY <1>0, <1>5
  <2>1. skip = IF Wire!At(s, f) \in {"x", "[", "]", "\\"} THEN f + 1 ELSE f
    BY <1>2, <1>5
  <2>2. Wire!At(s, f) \in {"x", "[", "]", "\\"} => f <= N
    BY <1>0, <1>3, <2>0
  <2> QED
    BY <1>0, <1>3, <2>0, <2>1, <2>2 DEF skip
<1>6. CASE Wire!At(s, i) = "]"
  <2>0. i <= N
    BY <1>0, <1>6
  <2>1. skip = IF g > N THEN g ELSE IF s[g] = "bel" THEN g + 1 ELSE g + 2
    BY <1>2, <1>6
  <2>2. g <= N /\ s[g] # "bel" => g + 1 <= N
    <3> SUFFICES ASSUME g <= N, s[g] # "bel", g + 1 > N
                 PROVE  FALSE
      BY <1>0, <1>3, <2>0
    <3>1. g \in osc
      BY <1>0, <1>1
    <3>2. Wire!At(s, g + 1) = "\\"
      BY <3>1
    <3> QED
      BY <1>0, <1>3, <2>0, <3>2
  <2> QED
    BY <1>0, <1>3, <2>0, <2>1, <2>2 DEF skip
<1>7. CASE Wire!At(s, i) \notin {"end", "[", "]"}
  <2>1. skip = i + 1
    BY <1>2, <1>7
  <2>2. i <= N
    BY <1>0, <1>7
  <2> QED
    BY <1>0, <2>1, <2>2 DEF skip
<1> QED
  BY <1>4, <1>5, <1>6, <1>7

\* What is left of the text from a place on, given what is left from later ones on.
Left(s, f, i) ==
  IF i > Len(s) THEN <<>>
  ELSE IF s[i] = "esc" THEN f[Wire!skipEscapeSeq(s, i + 1)]
  ELSE IF s[i] \in Wire!Visible THEN <<s[i]>> \o f[i + 1] ELSE f[i + 1]

Cleans(s, f, from) == f = [i \in from..Len(s) + 2 |-> Left(s, f, i)]

\* Only later places matter.
LEMMA LaterMatters ==
  ASSUME NEW s \in Seq(Wire!Chars), NEW i \in 1..Len(s) + 2, NEW f, NEW g,
         \A j \in i + 1..Len(s) + 2 : f[j] = g[j]
  PROVE  Left(s, f, i) = Left(s, g, i)
<1>1. Len(s) \in Nat
  OBVIOUS
<1>2. CASE i > Len(s)
  BY <1>2 DEF Left
<1>3. CASE ~(i > Len(s))
  <2>1. i + 1 \in 2..Len(s) + 1 /\ i + 1 \in i + 1..Len(s) + 2
    BY <1>1, <1>3
  <2>2. Wire!skipEscapeSeq(s, i + 1) \in i + 1..Len(s) + 1
    BY <2>1, SkipsForward
  <2>3. Wire!skipEscapeSeq(s, i + 1) \in i + 1..Len(s) + 2
    BY <1>1, <2>1, <2>2
  <2>4. /\ f[i + 1] = g[i + 1]
        /\ f[Wire!skipEscapeSeq(s, i + 1)] = g[Wire!skipEscapeSeq(s, i + 1)]
    BY <2>1, <2>3
  <2> QED
    BY <2>4, Zenon DEF Left
<1> QED
  BY <1>2, <1>3

\* There is such a function: from the end of the text backwards.
LEMMA CleanExists ==
  ASSUME NEW s \in Seq(Wire!Chars)
  PROVE  \E f : Cleans(s, f, 1)
<1> DEFINE n == Len(s) + 2
           S == {i \in 1..n : \E f : Cleans(s, f, i)}
<1>0. n \in Nat /\ n >= 2 /\ Len(s) \in Nat
  OBVIOUS
<1>1. ASSUME NEW i \in 1..n, \A j \in i + 1..n : j \in S
      PROVE  i \in S
  <2>1. \E f : \A j \in i + 1..n : f[j] = Left(s, f, j)
    <3>1. CASE i = n
      <4>1. i + 1..n = {}
        BY <1>0, <3>1
      <4> QED
        BY <4>1
    <3>2. CASE i # n
      <4>1. i + 1 \in i + 1..n
        BY <1>0, <3>2
      <4>2. PICK f : Cleans(s, f, i + 1)
        <5> HIDE DEF n
        <5> QED
          BY <1>1, <4>1
      <4>3. \A j \in i + 1..n : f[j] = Left(s, f, j)
        BY <4>2, Zenon DEF Cleans
      <4> QED
        BY <4>3
    <3> QED
      BY <3>1, <3>2
  <2>2. PICK f : \A j \in i + 1..n : f[j] = Left(s, f, j)
    BY <2>1
  <2>3. PICK g : g = [j \in i..n |-> IF j = i THEN Left(s, f, i) ELSE f[j]]
    OBVIOUS
  <2> HIDE DEF n
  <2>4. \A j \in i + 1..n : g[j] = f[j]
    BY <1>0, <2>3
  <2>5. \A j \in i..n : g[j] = Left(s, g, j)
    <3> TAKE j \in i..n
    <3>1. j \in 1..n
      BY <1>0
    <3>2. \A k \in j + 1..n : f[k] = g[k]
      <4>1. \A k \in j + 1..n : k \in i + 1..n
        BY <1>0
      <4> QED
        BY <2>4, <4>1
    <3>3. Left(s, f, j) = Left(s, g, j)
      <4>1. j \in 1..Len(s) + 2 /\ \A k \in j + 1..Len(s) + 2 : f[k] = g[k]
        BY <3>1, <3>2 DEF n
      <4> QED
        BY <4>1, LaterMatters, Zenon
    <3>4. CASE j = i
      BY <2>3, <3>3, <3>4
    <3>5. CASE j # i
      <4>1. j \in i + 1..n
        BY <1>0, <3>5
      <4> QED
        BY <2>2, <2>4, <3>3, <4>1
    <3> QED
      BY <3>4, <3>5
  <2>6. g = [j \in i..n |-> Left(s, g, j)]
    <3>1. g = [j \in i..n |-> g[j]]
      BY <2>3
    <3> QED
      BY <2>5, <3>1, Zenon
  <2>7. Cleans(s, g, i)
    BY <2>6, Zenon DEF Cleans, n
  <2> QED
    BY <2>7
<1>2. 1..n \subseteq S
  <2> HIDE DEF S, n
  <2> QED
    BY <1>0, <1>1, Backwards, Zenon
<1>3. 1 \in 1..n
  BY <1>0
<1> HIDE DEF n
<1> QED
  BY <1>2, <1>3

\* SanitizeText is what is left from the first place on.
LEMMA Cleaning ==
  ASSUME NEW s \in Seq(Wire!Chars)
  PROVE  \E f : /\ Wire!SanitizeText(s) = f[1]
                /\ \A i \in 1..Len(s) + 2 : f[i] = Left(s, f, i)
<1> DEFINE Out(f) == f = [i \in 1..Len(s) + 2 |->
                            IF i > Len(s) THEN <<>>
                            ELSE IF s[i] = "esc" THEN f[Wire!skipEscapeSeq(s, i + 1)]
                            ELSE IF s[i] \in Wire!Visible THEN <<s[i]>> \o f[i + 1] ELSE f[i + 1]]
           out == CHOOSE f : Out(f)
<1>1. PICK f : Cleans(s, f, 1)
  BY CleanExists
<1>2. Out(f)
  BY <1>1, Zenon DEF Cleans, Left
<1>3. Out(out)
  <2> HIDE DEF Out
  <2> QED
    BY <1>2, Zenon
<1>4. Wire!SanitizeText(s) = out[1]
  BY Zenon DEF Wire!SanitizeText
<1> HIDE DEF out
<1>5. \A i \in 1..Len(s) + 2 : out[i] = Left(s, out, i)
  BY <1>3, Zenon DEF Left
<1> QED
  BY <1>4, <1>5

\* One more in front.
LEMMA InFront ==
  ASSUME NEW T, NEW x \in T, NEW q \in Seq(T)
  PROVE  <<x>> \o q \in Seq(T) /\ Len(<<x>> \o q) = Len(q) + 1
OBVIOUS

\* What is left is visible, and no longer than what was there.
LEMMA OnlyVisible ==
  ASSUME NEW s \in Seq(Wire!Chars)
  PROVE  Wire!SanitizeText(s) \in Seq(Wire!Visible) /\ Len(Wire!SanitizeText(s)) <= Len(s)
<1> DEFINE N == Len(s)
           n == N + 2
           V == Wire!Visible
<1>0. N \in Nat /\ n \in Nat /\ 1 \in 1..n
  OBVIOUS
<1>1. PICK f : /\ Wire!SanitizeText(s) = f[1]
               /\ \A i \in 1..n : f[i] = Left(s, f, i)
  BY Cleaning
<1> DEFINE Room(i) == IF i > N THEN 0 ELSE N + 1 - i
           S == {i \in 1..n : f[i] \in Seq(V) /\ Len(f[i]) <= Room(i)}
<1>2. ASSUME NEW i \in 1..n, \A j \in i + 1..n : j \in S
      PROVE  i \in S
  <2>1. CASE i > N
    <3>1. f[i] = <<>>
      BY <1>1, <2>1 DEF Left
    <3>2. <<>> \in Seq(V) /\ Len(<<>>) <= 0
      OBVIOUS
    <3> QED
      BY <2>1, <3>1, <3>2
  <2>2. CASE ~(i > N)
    <3> DEFINE to == Wire!skipEscapeSeq(s, i + 1)
    <3>1. i + 1 \in 2..N + 1 /\ i + 1 \in i + 1..n
      BY <1>0, <2>2
    <3>2. to \in i + 1..N + 1
      BY <3>1, SkipsForward
    <3> HIDE DEF to
    <3>3. to \in i + 1..n
      BY <1>0, <3>2
    <3> HIDE DEF n
    <3>4. /\ f[i + 1] \in Seq(V) /\ Len(f[i + 1]) <= Room(i + 1)
          /\ f[to] \in Seq(V) /\ Len(f[to]) <= Room(to)
      BY <1>2, <3>1, <3>3
    <3>5. Room(i + 1) = N - i /\ Room(to) <= N - i /\ Room(i) = N - i + 1
      BY <1>0, <2>2, <3>2
    <3>6. f[i] = IF s[i] = "esc" THEN f[to]
                 ELSE IF s[i] \in V THEN <<s[i]>> \o f[i + 1] ELSE f[i + 1]
      BY <1>1, <2>2, Zenon DEF Left, to
    <3> HIDE DEF V, Room
    <3>7. s[i] \in V => /\ <<s[i]>> \o f[i + 1] \in Seq(V)
                        /\ Len(<<s[i]>> \o f[i + 1]) = Len(f[i + 1]) + 1
      BY <3>4, InFront
    <3>8. Len(f[i + 1]) \in Nat /\ Len(f[to]) \in Nat /\ i \in Nat
      BY <3>4 DEF n
    <3>9. Room(to) \in Int /\ to \in Nat
      BY <1>0, <3>2, <3>8 DEF Room
    <3>10. f[i] \in Seq(V) /\ Len(f[i]) <= N - i + 1
      <4>1. CASE s[i] = "esc"
        <5>1. f[i] = f[to]
          BY <3>6, <4>1, Zenon
        <5> HIDE DEF N
        <5> QED
          BY <1>0, <3>4, <3>5, <3>8, <3>9, <5>1
      <4>2. CASE s[i] # "esc" /\ s[i] \in V
        <5>1. f[i] = <<s[i]>> \o f[i + 1]
          BY <3>6, <4>2, Zenon
        <5>2. f[i] \in Seq(V) /\ Len(f[i]) = Len(f[i + 1]) + 1
          BY <3>7, <4>2, <5>1
        <5> HIDE DEF N
        <5> QED
          BY <1>0, <3>4, <3>5, <3>8, <5>2
      <4>3. CASE s[i] # "esc" /\ s[i] \notin V
        <5>1. f[i] = f[i + 1]
          BY <3>6, <4>3, Zenon
        <5> HIDE DEF N
        <5> QED
          BY <1>0, <3>4, <3>5, <3>8, <5>1
      <4> QED
        BY <4>1, <4>2, <4>3
    <3> QED
      BY <3>5, <3>10
  <2> QED
    BY <2>1, <2>2
<1>3. 1..n \subseteq S
  <2> HIDE DEF S, n
  <2> QED
    BY <1>0, <1>2, Backwards, Zenon
<1>4. f[1] \in Seq(V) /\ Len(f[1]) <= Room(1)
  <2> HIDE DEF n, V, Room
  <2> QED
    BY <1>0, <1>3
<1>5. Room(1) = N
  BY <1>0
<1> QED
  BY <1>1, <1>4, <1>5

\* The rest of a sequence, with what is in front of it.
LEMMA RestOf ==
  ASSUME NEW T, NEW s \in Seq(T), NEW i \in 1..Len(s)
  PROVE  <<s[i]>> \o SubSeq(s, i + 1, Len(s)) = SubSeq(s, i, Len(s))
OBVIOUS

\* Ordinary text is left as it is.
LEMMA OrdinaryStays ==
  ASSUME NEW s \in Seq(Wire!Chars)
  PROVE  Wire!OrdinaryKept(s)
<1> SUFFICES ASSUME \A i \in DOMAIN s : s[i] \in Wire!Visible
             PROVE  Wire!SanitizeText(s) = s
  BY DEF Wire!OrdinaryKept
<1> DEFINE N == Len(s)
           n == N + 2
<1>0. N \in Nat /\ n \in Nat /\ 1 \in 1..n /\ DOMAIN s = 1..N
  OBVIOUS
<1>1. PICK f : /\ Wire!SanitizeText(s) = f[1]
               /\ \A i \in 1..n : f[i] = Left(s, f, i)
  BY Cleaning
<1> DEFINE S == {i \in 1..n : f[i] = IF i > N THEN <<>> ELSE SubSeq(s, i, N)}
<1>2. ASSUME NEW i \in 1..n, \A j \in i + 1..n : j \in S
      PROVE  i \in S
  <2>1. CASE i > N
    BY <1>1, <2>1 DEF Left
  <2>2. CASE ~(i > N)
    <3>1. i \in 1..N /\ i + 1 \in i + 1..n
      BY <1>0, <2>2
    <3>2. s[i] \in Wire!Visible /\ s[i] # "esc"
      BY <1>0, <3>1 DEF Wire!Visible
    <3>3. f[i] = <<s[i]>> \o f[i + 1]
      BY <1>1, <2>2, <3>2, Zenon DEF Left
    <3>4. f[i + 1] = IF i + 1 > N THEN <<>> ELSE SubSeq(s, i + 1, N)
      <4> HIDE DEF n, N
      <4> QED
        BY <1>2, <3>1
    <3>5. i + 1 > N => SubSeq(s, i + 1, N) = <<>>
      BY <1>0, <3>1
    <3>6. f[i] = SubSeq(s, i, N)
      <4>1. f[i + 1] = SubSeq(s, i + 1, N)
        BY <3>4, <3>5, Zenon
      <4> QED
        BY <3>1, <3>3, <4>1, RestOf, Zenon
    <3> HIDE DEF n, N
    <3> QED
      BY <2>2, <3>6
  <2> QED
    BY <2>1, <2>2
<1>3. 1..n \subseteq S
  <2> HIDE DEF S, n
  <2> QED
    BY <1>0, <1>2, Backwards, Zenon
<1>4. f[1] = IF 1 > N THEN <<>> ELSE SubSeq(s, 1, N)
  <2> HIDE DEF n, N
  <2> QED
    BY <1>0, <1>3
<1>5. (1 > N => s = <<>>) /\ SubSeq(s, 1, N) = s
  BY <1>0
<1> HIDE DEF N
<1> QED
  BY <1>1, <1>4, <1>5, Zenon

\* The first of places further on is as much further on.
LEMMA FirstShifted ==
  ASSUME NEW S, S \subseteq Nat, NEW k \in Nat, NEW e \in Nat, NEW U, U = {j + k : j \in S}
  PROVE  Wire!FirstIn(U, e + k) = Wire!FirstIn(S, e) + k
<1> DEFINE a == Wire!FirstIn(S, e)
           b == Wire!FirstIn(U, e + k)
<1>0. /\ U \subseteq Nat /\ \A j \in U : j >= k
      /\ \A j \in Nat : j \in S <=> j + k \in U
  OBVIOUS
<1>1. /\ S = {} => a = e
      /\ S # {} => a \in S /\ \A j \in S : a <= j
  BY FirstInside
<1>2. /\ U = {} => b = e + k
      /\ U # {} => b \in U /\ \A j \in U : b <= j
  BY <1>0, FirstInside
<1> HIDE DEF a, b
<1>3. CASE S = {}
  <2>1. U = {}
    <3> SUFFICES ASSUME NEW j \in U PROVE FALSE
      OBVIOUS
    <3>1. j - k \in Nat /\ (j - k) + k = j
      BY <1>0
    <3> QED
      BY <1>0, <1>3, <3>1
  <2> QED
    BY <1>1, <1>2, <1>3, <2>1 DEF a, b
<1>4. CASE S # {}
  <2>1. a \in S /\ a \in Nat /\ a + k \in U
    BY <1>0, <1>1, <1>4
  <2>2. b \in U /\ b \in Nat /\ b <= a + k /\ b >= k
    BY <1>0, <1>2, <2>1
  <2>3. b - k \in Nat /\ (b - k) + k = b
    BY <2>2
  <2>4. b - k \in S
    BY <1>0, <2>2, <2>3
  <2>5. a <= b - k
    BY <1>1, <2>4
  <2> QED
    BY <2>1, <2>2, <2>5 DEF a, b
<1> QED
  BY <1>3, <1>4

\* The end of a text, place by place.
LEMMA EndOfText ==
  ASSUME NEW s \in Seq(Wire!Chars), NEW k \in 0..Len(s)
  PROVE  LET t == SubSeq(s, k + 1, Len(s)) IN
         /\ t \in Seq(Wire!Chars) /\ Len(t) = Len(s) - k
         /\ \A i \in 1..Len(t) : t[i] = s[i + k]
         /\ \A i \in Nat \ {0} : Wire!At(t, i) = Wire!At(s, i + k)
<1> DEFINE t == SubSeq(s, k + 1, Len(s))
<1>1. t \in Seq(Wire!Chars) /\ Len(t) = Len(s) - k
  OBVIOUS
<1>2. \A i \in 1..Len(t) : t[i] = s[i + k]
  BY <1>1
<1>3. ASSUME NEW i \in Nat \ {0}
      PROVE  Wire!At(t, i) = Wire!At(s, i + k)
  <2>1. Len(s) \in Nat /\ Len(t) \in Nat /\ (i <= Len(t) <=> i + k <= Len(s))
    BY <1>1
  <2>2. i <= Len(t) => t[i] = s[i + k]
    BY <1>1, <1>2
  <2> HIDE DEF t
  <2> QED
    BY <2>1, <2>2, Zenon DEF Wire!At
<1> QED
  BY <1>1, <1>2, <1>3, Zenon

\* A sequence is skipped alike wherever it is in the text.
LEMMA SkipsAlike ==
  ASSUME NEW s \in Seq(Wire!Chars), NEW k \in 0..Len(s),
         NEW t, t = SubSeq(s, k + 1, Len(s)), NEW i \in 2..Len(t) + 1
  PROVE  Wire!skipEscapeSeq(s, i + k) = Wire!skipEscapeSeq(t, i) + k
<1> DEFINE N == Len(s)
           n == Len(t)
           csi == {j \in i + k + 1..N : s[j] # "?"}
           osc == {j \in i + k + 1..N : s[j] = "bel" \/ (s[j] = "esc" /\ Wire!At(s, j + 1) = "\\")}
           csit == {j \in i + 1..n : t[j] # "?"}
           osct == {j \in i + 1..n : t[j] = "bel" \/ (t[j] = "esc" /\ Wire!At(t, j + 1) = "\\")}
           f == Wire!FirstIn(csi, N + 1)
           g == Wire!FirstIn(osc, N + 1)
           ft == Wire!FirstIn(csit, n + 1)
           gt == Wire!FirstIn(osct, n + 1)
<1>1. /\ t \in Seq(Wire!Chars) /\ n = N - k
      /\ \A j \in 1..n : t[j] = s[j + k]
      /\ \A j \in Nat \ {0} : Wire!At(t, j) = Wire!At(s, j + k)
  BY EndOfText
<1>2. N \in Nat /\ n \in Nat /\ k \in Nat /\ i \in Nat /\ i >= 2 /\ i <= n + 1 /\ n + 1 + k = N + 1
  BY <1>1
<1>3. csi \subseteq Nat /\ osc \subseteq Nat /\ csit \subseteq Nat /\ osct \subseteq Nat
  BY <1>2
<1>4. ASSUME NEW j \in Nat
      PROVE  j \in i + 1..n <=> j + k \in i + k + 1..N
  <2> HIDE DEF n, N
  <2> QED
    BY <1>1, <1>2
<1>5. ASSUME NEW j \in i + 1..n
      PROVE  j \in Nat /\ j + 1 \in Nat \ {0} /\ t[j] = s[j + k] /\ Wire!At(t, j + 1) = Wire!At(s, j + k + 1)
  <2>1. j \in 1..n /\ j \in Nat /\ j + 1 \in Nat \ {0} /\ (j + 1) + k = j + k + 1
    BY <1>2
  <2> HIDE DEF n
  <2> QED
    BY <1>1, <2>1
<1>6. /\ \A j \in Nat : j \in csit <=> j + k \in csi
      /\ \A j \in Nat : j \in osct <=> j + k \in osc
  <2> HIDE DEF n, N
  <2> QED
    BY <1>4, <1>5
<1>7. (\A j \in csi : j >= k) /\ (\A j \in osc : j >= k)
  <2> HIDE DEF n, N
  <2> QED
    BY <1>2
<1>8. f = ft + k /\ g = gt + k
  <2> DEFINE e == n + 1
  <2>1. e \in Nat /\ e + k = N + 1
    BY <1>2
  <2> HIDE DEF csi, osc, csit, osct, n, N, e
  <2>2. csi = {j + k : j \in csit} /\ osc = {j + k : j \in osct}
    <3>1. ASSUME NEW A, A \subseteq Nat, NEW B, B \subseteq Nat,
                 \A j \in Nat : j \in B <=> j + k \in A, \A j \in A : j >= k
          PROVE  A = {j + k : j \in B}
      <4>1. ASSUME NEW j \in A
            PROVE  j - k \in B /\ (j - k) + k = j
        <5>1. j - k \in Nat /\ (j - k) + k = j
          BY <1>2, <3>1
        <5> QED
          BY <3>1, <5>1
      <4>2. \A j \in B : j + k \in A
        BY <3>1
      <4> QED
        BY <4>1, <4>2
    <3>2. csi = {j + k : j \in csit}
      BY <1>3, <1>6, <1>7, <3>1
    <3>3. osc = {j + k : j \in osct}
      BY <1>3, <1>6, <1>7, <3>1
    <3> QED
      BY <3>2, <3>3
  <2>3. Wire!FirstIn(csi, e + k) = Wire!FirstIn(csit, e) + k
    BY <1>2, <1>3, <2>1, <2>2, FirstShifted, Zenon
  <2>4. Wire!FirstIn(osc, e + k) = Wire!FirstIn(osct, e) + k
    BY <1>2, <1>3, <2>1, <2>2, FirstShifted, Zenon
  <2> QED
    BY <2>1, <2>3, <2>4, Zenon DEF e
<1>9. ft \in csit \cup {n + 1} /\ gt \in osct \cup {n + 1}
  <2> HIDE DEF csit, osct
  <2> QED
    BY <1>3, FirstInside
<1>10. ft \in 1..n + 1 /\ gt \in 1..n + 1
  <2>1. csit \subseteq 1..n /\ osct \subseteq 1..n
    BY <1>2
  <2> HIDE DEF csit, osct, ft, gt, n
  <2> QED
    BY <1>2, <1>9, <2>1
<1>11. Wire!skipEscapeSeq(s, i + k) =
         CASE Wire!At(s, i + k) = "end" -> i + k
           [] Wire!At(s, i + k) = "[" -> IF Wire!At(s, f) \in {"x", "[", "]", "\\"} THEN f + 1 ELSE f
           [] Wire!At(s, i + k) = "]" -> IF g > N THEN g ELSE IF s[g] = "bel" THEN g + 1 ELSE g + 2
           [] OTHER -> (i + k) + 1
  BY Zenon DEF Wire!skipEscapeSeq
<1>12. Wire!skipEscapeSeq(t, i) =
         CASE Wire!At(t, i) = "end" -> i
           [] Wire!At(t, i) = "[" -> IF Wire!At(t, ft) \in {"x", "[", "]", "\\"} THEN ft + 1 ELSE ft
           [] Wire!At(t, i) = "]" -> IF gt > n THEN gt ELSE IF t[gt] = "bel" THEN gt + 1 ELSE gt + 2
           [] OTHER -> i + 1
  BY Zenon DEF Wire!skipEscapeSeq
<1>13. /\ Wire!At(t, i) = Wire!At(s, i + k) /\ Wire!At(t, ft) = Wire!At(s, f)
       /\ gt \in Nat /\ ft \in Nat /\ (gt > n <=> g > N)
       /\ ~(gt > n) => t[gt] = s[g]
  <2> HIDE DEF csi, osc, csit, osct, n, N, f, g, ft, gt
  <2>1. i \in Nat \ {0} /\ ft \in Nat \ {0} /\ gt \in Nat
    BY <1>2, <1>10
  <2>2. gt > n <=> g > N
    BY <1>1, <1>2, <1>8, <2>1
  <2>3. ~(gt > n) => gt \in 1..n
    BY <1>2, <1>10
  <2> QED
    BY <1>1, <1>8, <2>1, <2>2, <2>3
<1> HIDE DEF csi, osc, csit, osct, n, N, f, g, ft, gt
<1> DEFINE here == Wire!At(s, i + k)
           to == Wire!skipEscapeSeq(s, i + k)
           tot == Wire!skipEscapeSeq(t, i)
<1>14. /\ to = IF here = "end" THEN i + k
              ELSE IF here = "[" THEN IF Wire!At(s, f) \in {"x", "[", "]", "\\"} THEN f + 1 ELSE f
              ELSE IF here = "]" THEN IF g > N THEN g ELSE IF s[g] = "bel" THEN g + 1 ELSE g + 2
              ELSE (i + k) + 1
       /\ tot = IF here = "end" THEN i
              ELSE IF here = "[" THEN IF Wire!At(s, f) \in {"x", "[", "]", "\\"} THEN ft + 1 ELSE ft
              ELSE IF here = "]" THEN IF g > N THEN gt ELSE IF s[g] = "bel" THEN gt + 1 ELSE gt + 2
              ELSE i + 1
  BY <1>11, <1>12, <1>13
<1> HIDE DEF here, to, tot
<1>15. to = tot + k
  BY <1>2, <1>8, <1>13, <1>14
<1> QED
  BY <1>15 DEF to, tot

\* What is left of the end of a text is what the whole text leaves of it.
LEMMA EndCleaned ==
  ASSUME NEW s \in Seq(Wire!Chars), NEW k \in 0..Len(s),
         NEW f, \A i \in 1..Len(s) + 2 : f[i] = Left(s, f, i)
  PROVE  f[k + 1] = Wire!SanitizeText(SubSeq(s, k + 1, Len(s)))
<1> DEFINE t == SubSeq(s, k + 1, Len(s))
           n == Len(t) + 2
<1>1. /\ t \in Seq(Wire!Chars) /\ Len(t) = Len(s) - k
      /\ \A i \in 1..Len(t) : t[i] = s[i + k]
  BY EndOfText, Zenon
<1>2. PICK g : /\ Wire!SanitizeText(t) = g[1]
               /\ \A i \in 1..n : g[i] = Left(t, g, i)
  BY <1>1, Cleaning, Zenon
<1>3. /\ Len(s) \in Nat /\ Len(t) \in Nat /\ n \in Nat /\ k \in Nat
      /\ n = Len(t) + 2 /\ 1 \in 1..n
  BY <1>1
<1> DEFINE S == {i \in 1..n : g[i] = f[i + k]}
<1>4. ASSUME NEW i \in 1..n, \A j \in i + 1..n : j \in S
      PROVE  i \in S
  <2> HIDE DEF t
  <2>1. i \in Nat /\ i + k \in 1..Len(s) + 2 /\ (i > Len(t) <=> i + k > Len(s))
    BY <1>1, <1>3
  <2>2. g[i] = Left(t, g, i) /\ f[i + k] = Left(s, f, i + k)
    BY <1>2, <2>1
  <2>3. CASE i > Len(t)
    <3>1. g[i] = <<>> /\ f[i + k] = <<>>
      BY <2>1, <2>2, <2>3, Zenon DEF Left
    <3> QED
      BY <3>1
  <2>4. CASE ~(i > Len(t))
    <3> DEFINE tot == Wire!skipEscapeSeq(t, i + 1)
               to == Wire!skipEscapeSeq(s, (i + k) + 1)
    <3>1. i \in 1..Len(t) /\ i + 1 \in 2..Len(t) + 1 /\ (i + 1) + k = (i + k) + 1
      BY <1>3, <2>1, <2>4
    <3>2. Wire!skipEscapeSeq(s, (i + 1) + k) = Wire!skipEscapeSeq(t, i + 1) + k
      BY <3>1, SkipsAlike DEF t
    <3>3. to = tot + k
      BY <3>1, <3>2
    <3>4. tot \in i + 1..Len(t) + 1
      BY <1>1, <3>1, SkipsForward
    <3> HIDE DEF to, tot
    <3>5. i + 1 \in i + 1..n /\ tot \in i + 1..n
      BY <1>3, <3>1, <3>4
    <3>6. g[i + 1] = f[(i + 1) + k] /\ g[tot] = f[tot + k]
      <4>1. i + 1 \in S /\ tot \in S
        <5> HIDE DEF S, n
        <5> QED
          BY <1>4, <3>5
      <4> QED
        BY <4>1
    <3>7. g[i + 1] = f[(i + k) + 1] /\ g[tot] = f[to]
      BY <3>1, <3>3, <3>6
    <3>8. t[i] = s[i + k]
      BY <1>1, <3>1
    <3>9. /\ Left(t, g, i) = IF t[i] = "esc" THEN g[tot]
                             ELSE IF t[i] \in Wire!Visible THEN <<t[i]>> \o g[i + 1] ELSE g[i + 1]
          /\ Left(s, f, i + k) = IF s[i + k] = "esc" THEN f[to]
                 ELSE IF s[i + k] \in Wire!Visible THEN <<s[i + k]>> \o f[(i + k) + 1] ELSE f[(i + k) + 1]
      BY <2>1, <2>4, Zenon DEF Left, to, tot
    <3>10. Left(t, g, i) = Left(s, f, i + k)
      BY <3>7, <3>8, <3>9, Zenon
    <3> QED
      BY <2>2, <3>10, Zenon
  <2> QED
    BY <2>3, <2>4
<1>5. 1..n \subseteq S
  <2> HIDE DEF S, n
  <2> QED
    BY <1>3, <1>4, Backwards, Zenon
<1>6. g[1] = f[1 + k] /\ 1 + k = k + 1
  <2>1. 1 \in S
    <3> HIDE DEF S, n
    <3> QED
      BY <1>3, <1>5
  <2> QED
    BY <2>1
<1> QED
  BY <1>2, <1>6

\* Of an OSC sequence nothing is left but what follows its end, or nothing at all when it
\* is never terminated.
LEMMA PayloadDropped ==
  ASSUME NEW s \in Seq(Wire!Chars)
  PROVE  Wire!PayloadGone(s)
<1> DEFINE N == Len(s)
           osc == {k \in 2 + 1..N : s[k] = "bel" \/ (s[k] = "esc" /\ Wire!At(s, k + 1) = "\\")}
           ends == {k \in 3..N : s[k] = "bel" \/ (s[k] = "\\" /\ s[k - 1] = "esc")}
           g == Wire!FirstIn(osc, N + 1)
           m == Wire!FirstIn(ends, 0)
<1> SUFFICES ASSUME N >= 2, s[1] = "esc", s[2] = "]"
             PROVE  Wire!SanitizeText(s) = Wire!SanitizeText(Wire!AfterOSC(s))
  BY DEF Wire!PayloadGone
<1>1. N \in Nat /\ 2 + 1 = 3 /\ osc \subseteq Nat /\ ends \subseteq Nat
      /\ \A k \in Nat : Wire!At(s, k) = "\\" => k <= N /\ s[k] = "\\"
  BY DEF Wire!At
<1>2. \A k \in osc : /\ k \in 3..N
                     /\ s[k] = "bel" => k \in ends
                     /\ s[k] # "bel" => s[k] = "esc" /\ k + 1 \in ends /\ k + 1 <= N
  <2> TAKE k \in osc
  <2>1. k \in 3..N /\ k \in Nat
    BY <1>1
  <2>2. s[k] = "bel" => k \in ends
    BY <2>1
  <2>3. ASSUME s[k] # "bel"
        PROVE  s[k] = "esc" /\ k + 1 \in ends /\ k + 1 <= N
    <3>1. s[k] = "esc" /\ Wire!At(s, k + 1) = "\\"
      BY <2>3
    <3>2. k + 1 <= N /\ s[k + 1] = "\\"
      BY <1>1, <2>1, <3>1
    <3>3. k + 1 \in 3..N /\ (k + 1) - 1 = k
      BY <1>1, <2>1, <3>2
    <3> QED
      BY <3>1, <3>2, <3>3
  <2> QED
    BY <2>1, <2>2, <2>3
<1>3. \A k \in ends : /\ k \in 3..N
                      /\ s[k] = "bel" => k \in osc
                      /\ s[k] # "bel" => k - 1 \in osc
  <2> TAKE k \in ends
  <2>1. k \in 3..N
    OBVIOUS
  <2>2. s[k] = "bel" => k \in osc
    BY <1>1, <2>1
  <2>3. ASSUME s[k] # "bel"
        PROVE  k - 1 \in osc
    <3>1. s[k] = "\\" /\ s[k - 1] = "esc"
      BY <2>3
    <3>2. k # 3
      <4> SUFFICES ASSUME k = 3 PROVE FALSE
        OBVIOUS
      <4>1. k - 1 = 2
        OBVIOUS
      <4> QED
        BY <3>1, <4>1
    <3>3. k - 1 \in 3..N /\ (k - 1) + 1 = k /\ k <= N
      BY <1>1, <2>1, <3>2
    <3>4. Wire!At(s, (k - 1) + 1) = "\\"
      BY <3>1, <3>3, Zenon DEF Wire!At
    <3> QED
      BY <1>1, <3>1, <3>3, <3>4
  <2> QED
    BY <2>1, <2>2, <2>3
<1>4. /\ osc = {} => g = N + 1
      /\ osc # {} => g \in osc /\ \A j \in osc : g <= j
      /\ ends # {} => m \in ends /\ \A j \in ends : m <= j
  <2> HIDE DEF osc, ends
  <2> QED
    BY <1>1, FirstInside
<1>5. Wire!skipEscapeSeq(s, 2) = IF g > N THEN g ELSE IF s[g] = "bel" THEN g + 1 ELSE g + 2
  <2>1. Wire!At(s, 2) = "]"
    BY <1>1 DEF Wire!At
  <2> QED
    BY <2>1 DEF Wire!skipEscapeSeq
<1>6. Wire!AfterOSC(s) = IF ends = {} THEN <<>> ELSE SubSeq(s, m + 1, N)
  BY Zenon DEF Wire!AfterOSC
<1> HIDE DEF osc, ends, g, m
<1> DEFINE to == Wire!skipEscapeSeq(s, 2)
<1>7. /\ ends = {} => to = N + 1
      /\ ends # {} => to = m + 1 /\ m \in 3..N
  <2>1. CASE ends = {}
    <3>1. osc = {}
      BY <1>2, <2>1
    <3>2. N + 1 > N
      BY <1>1
    <3> QED
      BY <1>4, <1>5, <2>1, <3>1, <3>2
  <2>2. CASE ends # {}
    <3>1. osc # {} /\ m \in ends
      BY <1>3, <1>4, <2>2
    <3>2. g \in osc /\ g \in 3..N /\ m \in 3..N
      BY <1>2, <1>3, <1>4, <3>1
    <3>3. CASE s[g] = "bel"
      <4>1. m <= g
        BY <1>2, <1>4, <3>1, <3>2, <3>3
      <4>2. g <= m
        BY <1>1, <1>3, <1>4, <3>1, <3>2
      <4>3. m = g /\ ~(g > N)
        BY <1>1, <3>2, <4>1, <4>2
      <4>4. Wire!skipEscapeSeq(s, 2) = g + 1
        BY <1>5, <3>3, <4>3, Zenon
      <4> QED
        BY <2>2, <3>2, <4>3, <4>4
    <3>4. CASE s[g] # "bel"
      <4>1. m <= g + 1 /\ s[g] = "esc"
        BY <1>2, <1>4, <3>1, <3>2, <3>4
      <4>2. s[m] = "bel" => g <= m /\ g # m
        BY <1>3, <1>4, <3>1, <3>4
      <4>3. s[m] # "bel" => g <= m - 1
        BY <1>3, <1>4, <3>1
      <4>4. m = g + 1 /\ ~(g > N)
        BY <1>1, <3>2, <4>1, <4>2, <4>3
      <4>5. Wire!skipEscapeSeq(s, 2) = g + 2
        BY <1>5, <3>4, <4>4, Zenon
      <4>6. g + 2 = m + 1
        BY <1>1, <3>2, <4>4
      <4> QED
        BY <2>2, <3>2, <4>5, <4>6
    <3> QED
      BY <3>3, <3>4
  <2> QED
    BY <2>1, <2>2
<1>8. PICK f : /\ Wire!SanitizeText(s) = f[1]
               /\ \A i \in 1..Len(s) + 2 : f[i] = Left(s, f, i)
  BY Cleaning
<1>9. f[1] = f[to]
  <2>1. 1 \in 1..N + 2 /\ ~(1 > N) /\ 1 + 1 = 2
    BY <1>1
  <2>2. f[1] = f[Wire!skipEscapeSeq(s, 1 + 1)]
    BY <1>8, <2>1, Zenon DEF Left
  <2> QED
    BY <2>1, <2>2
<1> HIDE DEF to
<1>10. CASE ends = {}
  <2>1. N \in 0..Len(s) /\ SubSeq(s, N + 1, N) = <<>>
    BY <1>1
  <2>2. f[N + 1] = Wire!SanitizeText(SubSeq(s, N + 1, N))
    BY <1>8, <2>1, EndCleaned
  <2> QED
    BY <1>6, <1>7, <1>8, <1>9, <1>10, <2>1, <2>2, Zenon
<1>11. CASE ends # {}
  <2>1. m \in 0..Len(s)
    BY <1>1, <1>7, <1>11
  <2>2. f[m + 1] = Wire!SanitizeText(SubSeq(s, m + 1, N))
    BY <1>8, <2>1, EndCleaned
  <2> QED
    BY <1>6, <1>7, <1>8, <1>9, <1>11, <2>2, Zenon
<1> QED
  BY <1>10, <1>11

\* Nothing but visible text is left of any text, cleaning it again changes nothing, and of
\* an OSC sequence that it begins with what follows its end is left, or nothing when it has
\* none (core.SanitizeText).
THEOREM TextSafe ==
  ASSUME NEW s \in Seq(Wire!Chars)
  PROVE  Wire!SafeText(s)
<1> DEFINE t == Wire!SanitizeText(s)
<1>1. t \in Seq(Wire!Visible) /\ Len(t) <= Len(s)
  BY OnlyVisible
<1> HIDE DEF t
<1>2. \A i \in DOMAIN t : t[i] \in Wire!Visible
  <2>1. \A T : \A q \in Seq(T) : \A i \in DOMAIN q : q[i] \in T
    OBVIOUS
  <2> QED
    BY <1>1, <2>1, Zenon
<1>3. t \in Seq(Wire!Chars)
  <2>1. Wire!Visible \subseteq Wire!Chars
    BY DEF Wire!Visible, Wire!Chars
  <2>2. \A T, U : T \subseteq U => Seq(T) \subseteq Seq(U)
    OBVIOUS
  <2> QED
    BY <1>1, <2>1, <2>2, Zenon
<1>4. Wire!SanitizeText(t) = t
  BY <1>2, <1>3, OrdinaryStays, Zenon DEF Wire!OrdinaryKept
<1>5. Wire!OrdinaryKept(s) /\ Wire!PayloadGone(s)
  BY OrdinaryStays, PayloadDropped
<1> QED
  BY <1>1, <1>2, <1>4, <1>5, Zenon DEF Wire!SafeText, t

\* What is read of a line, whatever its texts are and however large its count.
EventLines == [root : {"object", "array", "null", "number"}, ts : Wire!TimeForms, digits : Nat,
               count : [form : {"absent", "number", "fraction", "text"}, n : Int],
               agent : Seq(Wire!Chars), kind : Seq(Wire!Chars) \cup Wire!AgentKinds,
               field : Seq(Wire!Chars)]

\* What is cleaned and cut is visible and fits (clampField).
LEMMA CutText ==
  ASSUME NEW s \in Seq(Wire!Chars), NEW room \in Nat
  PROVE  LET c == Wire!clampField(Wire!SanitizeText(s), room)
         IN Wire!AllVisible(c) /\ Len(c) <= room
<1> DEFINE t == Wire!SanitizeText(s)
           c == Wire!clampField(t, room)
<1>1. t \in Seq(Wire!Visible)
  BY OnlyVisible
<1> HIDE DEF t
<1>2. ASSUME NEW V, t \in Seq(V)
      PROVE  Len(c) <= room /\ \A i \in DOMAIN c : c[i] \in V
  <2>1. CASE Len(t) <= room
    BY <1>2, <2>1 DEF Wire!clampField
  <2>2. CASE ~(Len(t) <= room)
    <3>1. c = SubSeq(t, 1, room)
      BY <2>2 DEF Wire!clampField
    <3>2. \A q : q = SubSeq(t, 1, room) => Len(q) = room /\ \A i \in DOMAIN q : q[i] \in V
      BY <1>2, <2>2
    <3> HIDE DEF c
    <3> QED
      BY <3>1, <3>2
  <2> QED
    BY <2>1, <2>2
<1> HIDE DEF c
<1>3. Len(c) <= room /\ \A i \in DOMAIN c : c[i] \in Wire!Visible
  BY <1>1, <1>2
<1> QED
  BY <1>3, Zenon DEF c, t, Wire!AllVisible

\* A name is there, visible and in one alphabet, and fits (Identity).
LEMMA NamesSound ==
  ASSUME NEW s \in Seq(Wire!Chars)
  PROVE  LET name == Wire!Identity(s) IN
         /\ name # <<>> /\ Wire!AllVisible(name) /\ Len(name) <= AgentRoom
         /\ ~Wire!MixedScriptIdentity(name)
<1> DEFINE c == Wire!clampField(Wire!SanitizeText(s), AgentRoom)
           name == Wire!Identity(s)
<1>1. AgentRoom \in Nat \ {0}
  BY SurfaceAssumption DEF SurfaceAssumption
<1>2. Wire!AllVisible(c) /\ Len(c) <= AgentRoom
  BY <1>1, CutText
<1>3. name = IF c = <<>> \/ Wire!MixedScriptIdentity(c) THEN Wire!Anonymous ELSE c
  BY Zenon DEF Wire!Identity
<1> HIDE DEF c, name
<1>4. /\ Wire!Anonymous # <<>> /\ Wire!AllVisible(Wire!Anonymous) /\ Len(Wire!Anonymous) <= AgentRoom
      /\ ~Wire!MixedScriptIdentity(Wire!Anonymous)
  BY <1>1 DEF Wire!Anonymous, Wire!AllVisible, Wire!Visible, Wire!MixedScriptIdentity
<1>5. CASE c = <<>> \/ Wire!MixedScriptIdentity(c)
  <2>1. name = Wire!Anonymous
    BY <1>3, <1>5, Zenon
  <2> QED
    BY <1>4, <2>1, Zenon DEF name
<1>6. CASE ~(c = <<>> \/ Wire!MixedScriptIdentity(c))
  <2>1. name = c
    BY <1>3, <1>6, Zenon
  <2> QED
    BY <1>2, <1>6, <2>1, Zenon DEF name
<1> QED
  BY <1>5, <1>6

\* So is a kind, or it is one of the known ones (KindOf).
LEMMA KindsSound ==
  ASSUME NEW s \in Seq(Wire!Chars) \cup Wire!AgentKinds
  PROVE  LET kind == Wire!KindOf(s) IN
         /\ kind # <<>> /\ (Wire!AllVisible(kind) \/ kind \in Wire!AgentKinds)
         /\ Len(kind) <= KindRoom
<1> DEFINE c == Wire!clampField(Wire!SanitizeText(s), KindRoom)
           known == IF s \in Wire!AgentKinds THEN s ELSE c
           kind == Wire!KindOf(s)
<1>1. KindRoom \in Nat \ {0}
  BY SurfaceAssumption DEF SurfaceAssumption
<1>2. kind = IF known = <<>> THEN Wire!AgentKindTurn ELSE known
  BY Zenon DEF Wire!KindOf
<1>3. \A k \in Wire!AgentKinds : k # <<>> /\ Len(k) <= KindRoom
  <2>1. \A x : <<x>> # <<>> /\ Len(<<x>>) = 1
    OBVIOUS
  <2>2. \A k \in Wire!AgentKinds : \E x : k = <<x>>
    <3>1. \A k \in Wire!AgentKinds : \/ k = <<"turn">> \/ k = <<"tool">>
                                     \/ k = <<"error">> \/ k = <<"note">>
      BY DEF Wire!AgentKinds, Wire!AgentKindTurn
    <3> QED
      BY <3>1, Zenon
  <2>3. \A k \in Wire!AgentKinds : k # <<>> /\ Len(k) = 1
    BY <2>1, <2>2, Zenon
  <2>4. 1 <= KindRoom
    BY <1>1
  <2> QED
    BY <2>3, <2>4, Zenon
<1>4. Wire!AgentKindTurn \in Wire!AgentKinds
  BY DEF Wire!AgentKinds
<1>5. s \notin Wire!AgentKinds => Wire!AllVisible(c) /\ Len(c) <= KindRoom
  BY <1>1, CutText
<1> HIDE DEF c, kind
<1>6. CASE s \in Wire!AgentKinds
  <2>1. kind = s
    BY <1>2, <1>3, <1>6, Zenon
  <2> QED
    BY <1>3, <1>6, <2>1, Zenon DEF kind
<1>7. CASE s \notin Wire!AgentKinds /\ c = <<>>
  <2>1. kind = Wire!AgentKindTurn
    BY <1>2, <1>7, Zenon
  <2> QED
    BY <1>3, <1>4, <2>1, Zenon DEF kind
<1>8. CASE s \notin Wire!AgentKinds /\ c # <<>>
  <2>1. kind = c
    BY <1>2, <1>8, Zenon
  <2> QED
    BY <1>5, <1>8, <2>1, Zenon DEF kind
<1> QED
  BY <1>6, <1>7, <1>8

\* A count is a number, whatever the conversion of a float of 2^63 makes of it, and one out
\* of range counts for nothing (parseTokenJSON, clampTokens).
LEMMA CountsSound ==
  ASSUME NEW w \in EventLines, NEW n \in Wire!parseTokenJSON(w.count)
  PROVE  Wire!clampTokens(n) \in 0..MaxEventTokens
<1>1. MaxInt \in Nat /\ MaxEventTokens \in Nat
  BY SurfaceAssumption DEF SurfaceAssumption
<1>2. w.count.n \in Int
  <2>1. w.count \in [form : {"absent", "number", "fraction", "text"}, n : Int]
    BY DEF EventLines
  <2> QED
    BY <2>1
<1>3. Wire!parseTokenJSON(w.count) \subseteq {0, w.count.n, -MaxInt - 1, MaxInt}
  BY DEF Wire!parseTokenJSON
<1>4. n \in Int
  BY <1>1, <1>2, <1>3
<1> QED
  BY <1>1, <1>4 DEF Wire!clampTokens

\* An event that gets into the feed has a name that a terminal may see, a kind, texts that
\* fit and a count that can be summed (eventFromWire).
LEMMA LinesSound ==
  ASSUME NEW w \in EventLines
  PROVE  Wire!SoundLine(w)
<1> SUFFICES ASSUME NEW e \in Wire!eventFromWire(w)
             PROVE  /\ e.agent # <<>> /\ Wire!AllVisible(e.agent) /\ Len(e.agent) <= AgentRoom
                    /\ ~Wire!MixedScriptIdentity(e.agent)
                    /\ e.kind # <<>> /\ (Wire!AllVisible(e.kind) \/ e.kind \in Wire!AgentKinds)
                    /\ Len(e.kind) <= KindRoom
                    /\ Wire!AllVisible(e.field) /\ Len(e.field) <= FieldRoom
                    /\ e.count \in 0..MaxEventTokens
  BY Zenon DEF Wire!SoundLine
<1>1. /\ w.agent \in Seq(Wire!Chars) /\ w.kind \in Seq(Wire!Chars) \cup Wire!AgentKinds
      /\ w.field \in Seq(Wire!Chars)
  BY DEF EventLines
<1>2. PICK n \in Wire!parseTokenJSON(w.count) :
        /\ e.agent = Wire!Identity(w.agent) /\ e.kind = Wire!KindOf(w.kind)
        /\ e.field = Wire!clampField(Wire!SanitizeText(w.field), FieldRoom)
        /\ e.count = Wire!clampTokens(n)
  BY DEF Wire!eventFromWire
<1>3. FieldRoom \in Nat
  BY SurfaceAssumption DEF SurfaceAssumption
<1>4. Wire!AllVisible(e.field) /\ Len(e.field) <= FieldRoom
  BY <1>1, <1>2, <1>3, CutText, Zenon
<1>5. /\ e.agent # <<>> /\ Wire!AllVisible(e.agent) /\ Len(e.agent) <= AgentRoom
      /\ ~Wire!MixedScriptIdentity(e.agent)
  BY <1>1, <1>2, NamesSound, Zenon
<1>6. /\ e.kind # <<>> /\ (Wire!AllVisible(e.kind) \/ e.kind \in Wire!AgentKinds)
      /\ Len(e.kind) <= KindRoom
  BY <1>1, <1>2, KindsSound, Zenon
<1> QED
  BY <1>2, <1>4, <1>5, <1>6, CountsSound, Zenon

(***************************************************************************)
(* Frames                                                                  *)
(***************************************************************************)
\* The size of a set is the same wherever it is counted.
LEMMA SameSize == \A S : Pane!Cardinality(S) = Cardinality(S)
BY Zenon DEF Pane!Cardinality, Cardinality

\* A sum of whole numbers is one (RowWidth).
LEMMA WidthIsWhole ==
  ASSUME NEW segs, NEW kept \in SUBSET DOMAIN segs, IsFiniteSet(kept),
         \A i \in DOMAIN segs : segs[i].width \in Int
  PROVE  Pane!RowWidth(segs, kept) \in Int
<1> DEFINE fun == [i \in DOMAIN segs |-> segs[i].width]
           ByWidth(it) == it = [s \in SUBSET kept |->
                                  IF s = {} THEN 0 ELSE segs[Some(s)].width + it[s \ {Some(s)}]]
           all == CHOOSE it : ByWidth(it)
<1>1. Pane!MapThenSumSet(LAMBDA i : segs[i].width, kept) = all[kept]
  BY Zenon DEF Pane!MapThenSumSet, Pane!MapThenFoldSet, Some
<1>2. ASSUME NEW s \in SUBSET kept, s # {}
      PROVE  Some(s) \in s /\ Some(s) \in DOMAIN segs
  BY <1>2 DEF Some
<1>3. ByWidth(all)
  <2>1. PICK it : Adds(fun, it, kept)
    BY SumExists
  <2>2. ASSUME NEW s \in SUBSET kept
        PROVE  (IF s = {} THEN 0 ELSE segs[Some(s)].width + it[s \ {Some(s)}])
               = (IF s = {} THEN 0 ELSE fun[Some(s)] + it[s \ {Some(s)}])
    BY <1>2, Zenon
  <2> HIDE DEF fun
  <2>3. ByWidth(it)
    BY <2>1, <2>2, Zenon DEF Adds
  <2> HIDE DEF ByWidth
  <2> QED
    BY <2>3, Zenon
<1> DEFINE G == {s \in SUBSET kept : all[s] \in Int}
<1>4. ASSUME NEW s \in SUBSET kept, \A x \in s : s \ {x} \in G
      PROVE  s \in G
  <2>1. all[s] = IF s = {} THEN 0 ELSE segs[Some(s)].width + all[s \ {Some(s)}]
    <3> HIDE DEF all
    <3> QED
      BY <1>3, Zenon
  <2> HIDE DEF all
  <2>2. s # {} => segs[Some(s)].width \in Int /\ all[s \ {Some(s)}] \in Int
    BY <1>2, <1>4, Zenon
  <2> QED
    BY <2>1, <2>2
<1>5. kept \in G
  <2> HIDE DEF G
  <2> QED
    BY <1>4, AllSubsets
<1> HIDE DEF all
<1>6. Cardinality(kept) \in Nat
  BY FS_CardinalityType
<1>7. Pane!RowWidth(segs, kept) = all[kept] + Pane!Pipe * Pane!Most(Cardinality(kept) - 1, 0)
  <2>1. Pane!RowWidth(segs, kept) = all[kept] + Pane!Pipe * Pane!Most(Pane!Cardinality(kept) - 1, 0)
    BY <1>1, Zenon DEF Pane!RowWidth
  <2> QED
    BY <2>1, SameSize
<1>8. all[kept] \in Int
  BY <1>5
<1>9. Pane!Most(Cardinality(kept) - 1, 0) \in Int /\ Pane!Pipe \in Int
  BY <1>6 DEF Pane!Most, Pane!Pipe
<1> QED
  BY <1>7, <1>8, <1>9

\* A terminal of any size, with any number of engines and agents.
PaneModels == [w : Nat, h : Nat \ {0}, help : BOOLEAN, paused : BOOLEAN, sys : Pane!Hosts,
               engines : Nat, agents : Nat, prober : BOOLEAN, watching : BOOLEAN,
               ingest : {"off", "on"}]

\* The rows are shared out without remainder, and each panel has what it needs at least
\* (sectionHeights).
LEMMA HeightsAddUp ==
  ASSUME NEW m \in PaneModels
  PROVE  LET s == Pane!sectionHeights(m) IN
         /\ s.out \in Int /\ s.mid \in Int /\ s.feed \in Int
         /\ s.out >= 3 /\ s.mid >= 5 /\ s.feed >= 2
         /\ s.out + s.mid + s.feed = Pane!Most(m.h - 17 - Pane!systemStripRows(m), 10)
<1> DEFINE f == Pane!Most(m.h - 17 - Pane!systemStripRows(m), 10)
           out == Pane!clampi((f * 42) \div 100, 3, 99)
           rows == Pane!clampi((f * 22) \div 100, 2, 12)
           lack == Pane!Most(5 - (f - out - rows), 0)
           short == Pane!Most(3 - (out - lack), 0)
<1>1. m.h \in Nat
  BY DEF PaneModels
<1>2. f \in Int /\ f >= 10
  BY <1>1 DEF Pane!Most, Pane!systemStripRows
<1>3. /\ out \in Int /\ rows \in Int /\ out >= 3 /\ rows >= 2 /\ rows <= 12
      /\ out <= 3 \/ 100 * out <= 42 * f
      /\ rows <= 2 \/ 100 * rows <= 22 * f
      /\ f - out - rows >= 4 /\ (f - out - rows < 5 => out >= 4)
  <2> HIDE DEF f
  <2> QED
    BY <1>2 DEF Pane!clampi
<1>4. Pane!sectionHeights(m) = [out |-> Pane!Most(out - lack, 3), mid |-> f - out - rows + lack,
                                feed |-> rows - short]
  BY DEF Pane!sectionHeights
<1>5. /\ lack \in Int /\ short = 0 /\ out - lack >= 3 /\ f - out - rows + lack >= 5
  <2> HIDE DEF f, out, rows
  <2> QED
    BY <1>2, <1>3 DEF Pane!Most
<1> HIDE DEF f, out, rows, lack, short
<1> QED
  BY <1>2, <1>3, <1>4, <1>5 DEF Pane!Most, f

\* The rows of a frame add up to no more than the terminal has (renderDashboard).
THEOREM PaneFrameFits ==
  ASSUME NEW m \in PaneModels
  PROVE  Pane!FrameFits(m)
<1> DEFINE s == Pane!sectionHeights(m)
<1>1. /\ m.h \in Nat /\ m.h >= 1 /\ m.w \in Nat /\ m.engines \in Nat /\ m.agents \in Nat
      /\ m.help \in BOOLEAN
  BY DEF PaneModels
<1>2. /\ s.out \in Int /\ s.mid \in Int /\ s.feed \in Int
      /\ s.out >= 3 /\ s.mid >= 5 /\ s.feed >= 2
      /\ s.out + s.mid + s.feed = Pane!Most(m.h - 17 - Pane!systemStripRows(m), 10)
  BY HeightsAddUp
<1> HIDE DEF s
<1> SUFFICES /\ Pane!Rows(m) <= m.h
             /\ Pane!View(m) \in {"full", "agents", "empty"} => Pane!Rows(m) = m.h - 1
  BY <1>2 DEF Pane!FrameFits, s
<1>3. CASE Pane!View(m) = "help"
  BY <1>1, <1>3 DEF Pane!Rows, Pane!renderHelp, Pane!helpRows, Pane!Most
<1>4. CASE Pane!View(m) = "minimal"
  <2>1. \A lines \in Nat : \A room \in Nat : room > 0 /\ room <= m.h - 2 =>
          Pane!composeFrame(Pane!Least(lines, room), m.h) <= m.h
    BY <1>1 DEF Pane!composeFrame, Pane!Least, Pane!Most
  <2> DEFINE room == Pane!Most(m.h - 2, 0)
             lines == 1 + (IF m.paused THEN 1 ELSE 0) + m.engines
                      + (IF m.engines = 0 /\ m.agents = 0 THEN 2 ELSE m.agents)
  <2>2. room \in Nat /\ lines \in Nat /\ (room # 0 => room <= m.h - 2)
    BY <1>1 DEF Pane!Most
  <2>3. Pane!renderMinimal(m) = IF room = 0 THEN 1 ELSE Pane!composeFrame(Pane!Least(lines, room), m.h)
    BY DEF Pane!renderMinimal
  <2>4. Pane!renderMinimal(m) <= m.h
    <3> HIDE DEF room, lines
    <3> QED
      BY <1>1, <2>1, <2>2, <2>3
  <2> QED
    BY <1>4, <2>4 DEF Pane!Rows
<1>5. Pane!View(m) \notin {"help", "minimal"} => m.h >= 30
  BY <1>1 DEF Pane!View, Pane!minDashH
<1>6. CASE Pane!View(m) = "empty"
  <2>1. Pane!CardRows(m) \in 0..20
    BY DEF Pane!CardRows, PaneModels
  <2>2. Pane!renderEmpty(m) = m.h - 1
    BY <1>1, <1>5, <1>6, <2>1 DEF Pane!renderEmpty, Pane!composeFrame, Pane!Most
  <2> QED
    BY <1>1, <1>6, <2>2 DEF Pane!Rows
<1>7. CASE Pane!View(m) \in {"full", "agents"}
  <2>1. /\ Pane!systemStripRows(m) \in {3, 4} /\ Pane!renderSystem(m) \in {3, 4}
        /\ Pane!renderSystem(m) <= Pane!systemStripRows(m)
        /\ Pane!systemStripRows(m) = 4 => m.h >= 31
    BY DEF Pane!systemStripRows, Pane!renderSystem, Pane!stripTwoRows, Pane!minIdentH
  <2>2. Pane!Most(m.h - 17 - Pane!systemStripRows(m), 10) = m.h - 17 - Pane!systemStripRows(m)
    BY <1>1, <1>5, <1>7, <2>1 DEF Pane!Most
  <2>3. Pane!Body(m) \in Int /\ Pane!Body(m) <= m.h - 2
    BY <1>1, <1>2, <2>1, <2>2 DEF Pane!Body, Pane!renderCharts, Pane!Panel, s
  <2>4. Pane!composeFrame(Pane!Body(m), m.h) = m.h - 1
    BY <1>1, <2>3 DEF Pane!composeFrame, Pane!Most
  <2> QED
    BY <1>1, <1>7, <2>4 DEF Pane!Rows
<1>8. Pane!View(m) \in {"help", "minimal", "empty", "full", "agents"}
  BY <1>1 DEF Pane!View, Pane!minDashH, Pane!minDashW
<1> QED
  BY <1>3, <1>4, <1>6, <1>7, <1>8

\* The newest probe and the newest event are among the rows that fit (probesBody, feed).
LEMMA PaneNewestShown ==
  ASSUME NEW m \in PaneModels
  PROVE  Pane!NewestShown(m)
<1> DEFINE mid == Pane!sectionHeights(m).mid
           feedIn == Pane!sectionHeights(m).feed
<1>1. mid \in Int /\ mid >= 5 /\ feedIn \in Int /\ feedIn >= 2 /\ m.engines \in Nat
  BY HeightsAddUp DEF PaneModels
<1>2. Pane!probesBody(m) = Pane!clampi(mid - 3 - m.engines, 2, 8) + 2
  BY DEF Pane!probesBody
<1>3. Pane!NewestShown(m) <=> (Pane!View(m) = "full" =>
        /\ Pane!probesBody(m) <= mid
        /\ \A rows \in 0..14, events \in 0..3 :
             LET n == Pane!statsN(rows, feedIn)
                 lines == Pane!feedLines(events, feedIn - n)
             IN /\ n + lines <= feedIn
                /\ (events > 0 => lines > 0) /\ (rows > 0 => n > 0))
  BY DEF Pane!NewestShown
<1> HIDE DEF mid, feedIn
<1>4. Pane!probesBody(m) <= mid
  BY <1>1, <1>2 DEF Pane!clampi
<1>5. ASSUME NEW rows \in 0..14, NEW events \in 0..3
      PROVE  LET n == Pane!statsN(rows, feedIn)
                 lines == Pane!feedLines(events, feedIn - n)
             IN /\ n + lines <= feedIn
                /\ (events > 0 => lines > 0) /\ (rows > 0 => n > 0)
  <2>1. /\ Pane!statsN(rows, feedIn) \in 0..feedIn - 1
        /\ rows > 0 => Pane!statsN(rows, feedIn) > 0
    BY <1>1 DEF Pane!statsN, Pane!Least, Pane!Most
  <2> QED
    BY <1>1, <2>1 DEF Pane!feedLines, Pane!Least
<1> QED
  BY <1>3, <1>4, <1>5

\* The footer names a key just when pressing it does something (footerKeys).
LEMMA PaneKeysHonest ==
  ASSUME NEW m \in PaneModels
  PROVE  Pane!KeysHonest(m)
<1>1. m.engines \in Nat /\ m.agents \in Nat /\ m.w \in Nat /\ m.h \in Nat
      /\ m.help \in BOOLEAN /\ m.prober \in BOOLEAN
  BY DEF PaneModels
<1>2. /\ Pane!View(m) = "full" => m.engines > 0
      /\ Pane!View(m) = "agents" => m.engines = 0 /\ m.agents > 0
      /\ Pane!View(m) = "empty" => m.engines = 0 /\ m.agents = 0
  BY <1>1 DEF Pane!View, Pane!minDashW, Pane!minDashH
<1> QED
  BY <1>1, <1>2 DEF Pane!KeysHonest, Pane!Advertised, Pane!renderFooter, Pane!Effective, Pane!Panels

\* Sensors that do not fit are counted once (sysCPUTemps).
LEMMA PaneSensorsCounted ==
  ASSUME NEW s \in [cpu : Nat, gpu : Nat, gpus : BOOLEAN]
  PROVE  Pane!SensorsCounted(s)
BY DEF Pane!SensorsCounted, Pane!sysCPUTemps, Pane!MoreTemps, Pane!Least, Pane!Most

\* The panels of the middle row share its width (MidRow).
LEMMA PanePanelsTile ==
  ASSUME NEW w \in Nat, w >= 62
  PROVE  Pane!PanelsTile(w)
<1>1. /\ (w * 38) \div 100 \in Int /\ (w * 31) \div 100 \in Int
      /\ 100 * ((w * 38) \div 100) <= w * 38 /\ w * 38 < 100 * ((w * 38) \div 100) + 100
      /\ 100 * ((w * 31) \div 100) <= w * 31 /\ w * 31 < 100 * ((w * 31) \div 100) + 100
  OBVIOUS
<1>2. Pane!MidRow(w) = <<(w * 38) \div 100, (w * 31) \div 100, w - (w * 38) \div 100 - (w * 31) \div 100>>
  BY DEF Pane!MidRow
<1> QED
  BY <1>1, <1>2 DEF Pane!PanelsTile

\* Whatever the newest result says, its heading pushes no panel, and a failure or the first
\* request is shown in whole (probesTitle, composeFrame).
LEMMA PaneProbeTitleCut ==
  ASSUME NEW x \in [w : Nat, last : {"none", "failed", "ok"}, ms : Nat, rate : Nat, probing : BOOLEAN],
         x.w >= 62
  PROVE  Pane!ProbeTitleCut(x)
<1> DEFINE w == x.w
           pw == (w * 38) \div 100
           gw == (w * 31) \div 100
           rest == w - pw - gw
           title == Pane!probesTitle(x)
           width == Pane!MidRowWidth(x)
<1>1. w \in Nat /\ w >= 62 /\ x.ms \in Nat /\ x.rate \in Nat
  OBVIOUS
<1>2. pw \in Nat /\ gw \in Nat /\ rest \in Nat /\ rest >= 19
  <2>1. /\ pw \in Int /\ gw \in Int
        /\ 100 * pw <= w * 38 /\ w * 38 < 100 * pw + 100
        /\ 100 * gw <= w * 31 /\ w * 31 < 100 * gw + 100
    BY <1>1
  <2> HIDE DEF pw, gw, w
  <2> QED
    BY <1>1, <2>1
<1>3. rest # 19
  <2>1. /\ pw \in Int /\ gw \in Int
        /\ 100 * pw <= w * 38 /\ 100 * gw <= w * 31
    BY <1>1
  <2> HIDE DEF pw, gw, w
  <2> QED
    BY <1>1, <2>1
<1>4. Pane!MidRow(w) = <<pw, gw, rest>>
  BY DEF Pane!MidRow
<1>5. Pane!MidRow(w)[1] = pw /\ Pane!MidRow(w)[2] = gw /\ Pane!MidRow(w)[3] = rest
  BY <1>4
<1>6. /\ title \in Nat /\ Pane!LastProbe(x) \in Nat
      /\ x.last = "failed" => title >= 18 /\ Pane!LastProbe(x) = 12
      /\ x.last = "none" => title <= 18
  BY <1>1 DEF Pane!probesTitle, Pane!LastProbe
<1>7. width = pw + gw + Pane!Most(rest, title)
  BY <1>5 DEF Pane!MidRowWidth
<1>8. /\ Pane!clipFrame(width, w).width = Pane!Least(width, w)
      /\ Pane!clipFrame(width, w).text = IF width <= w THEN width ELSE w - 1
  BY DEF Pane!clipFrame
<1>9. Pane!TitleShown(x) = Pane!Least(title, Pane!clipFrame(width, w).text - pw - gw)
  BY <1>5 DEF Pane!TitleShown
<1>10. pw + gw + rest = w
  BY <1>1, <1>2
<1> DEFINE shown == Pane!TitleShown(x)
           whole == Pane!clipFrame(width, w).width
           text == Pane!clipFrame(width, w).text
<1> SUFFICES /\ whole = w
             /\ x.last = "failed" => shown >= 6 + Pane!LastProbe(x)
             /\ x.last = "none" => shown = title
             /\ title <= rest => shown = title
  BY <1>5, Zenon DEF Pane!ProbeTitleCut
<1> HIDE DEF w, pw, gw, rest, title, width, shown, whole, text
<1>11. /\ whole = Pane!Least(width, w) /\ text = IF width <= w THEN width ELSE w - 1
       /\ shown = Pane!Least(title, text - pw - gw)
  BY <1>8, <1>9 DEF whole, text, shown
<1> QED
  BY <1>1, <1>2, <1>3, <1>6, <1>7, <1>10, <1>11 DEF Pane!Least, Pane!Most

\* A heading grows only by what fits (feedTitle).
LEMMA PaneTitleFits ==
  ASSUME NEW x \in [w : Nat, parts : [1..3 -> Nat]]
  PROVE  Pane!TitleFits(x)
<1> SUFFICES ASSUME x.w >= 10
             PROVE  Pane!feedTitle(x) <= x.w
  BY DEF Pane!TitleFits
<1>1. x.w \in Nat /\ x.parts \in [1..3 -> Nat]
  OBVIOUS
<1> DEFINE X == {v \in Nat : v <= x.w}
           step == [p \in (1..3) \X X |-> IF p[2] + x.parts[p[1]] <= x.w THEN p[2] + x.parts[p[1]] ELSE p[2]]
           Grows(f) == f = [n \in 0..3 |-> IF n = 0 THEN 10
                              ELSE IF f[n - 1] + x.parts[n] <= x.w THEN f[n - 1] + x.parts[n] ELSE f[n - 1]]
           title == CHOOSE f : Grows(f)
<1>2. step \in [(1..3) \X X -> X]
  BY <1>1
<1>3. \E f \in [0..3 -> X] : Walks(f, 3, 10, step)
  <2> HIDE DEF step
  <2>1. 10 \in X
    BY <1>1
  <2> HIDE DEF X
  <2> QED
    BY <1>2, <2>1, WalkExists
<1>4. PICK f \in [0..3 -> X] : Grows(f)
  <2>1. PICK f \in [0..3 -> X] : Walks(f, 3, 10, step)
    BY <1>3
  <2>2. ASSUME NEW n \in 0..3, n # 0
        PROVE  step[<<n, f[n - 1]>>] = IF f[n - 1] + x.parts[n] <= x.w THEN f[n - 1] + x.parts[n] ELSE f[n - 1]
    <3>1. n \in 1..3 /\ f[n - 1] \in X
      BY <2>1, <2>2
    <3> HIDE DEF X
    <3> QED
      BY <3>1
  <2> HIDE DEF step, X
  <2>3. Grows(f)
    BY <2>1, <2>2, Zenon DEF Walks
  <2> HIDE DEF Grows
  <2> QED
    BY <2>3
<1>5. Grows(title)
  <2> HIDE DEF Grows
  <2> QED
    BY <1>4, Zenon
<1>6. Pane!feedTitle(x) = title[3]
  BY Zenon DEF Pane!feedTitle
<1> HIDE DEF title
<1>7. /\ title[0] = 10
      /\ \A n \in 1..3 : title[n] = IF title[n - 1] + x.parts[n] <= x.w
                                   THEN title[n - 1] + x.parts[n] ELSE title[n - 1]
  BY <1>5
<1>8. title[0] \in X /\ title[1] \in X /\ title[2] \in X /\ title[3] \in X
  <2>1. title[0] \in X
    BY <1>1, <1>7
  <2>2. ASSUME NEW n \in 1..3, title[n - 1] \in X
        PROVE  title[n] \in X
    BY <1>1, <1>7, <2>2
  <2>3. title[1] \in X
    BY <2>1, <2>2
  <2>4. title[2] \in X
    BY <2>2, <2>3
  <2> QED
    BY <2>1, <2>2, <2>3, <2>4
<1> QED
  BY <1>6, <1>8

\* What shedding leaves: the pinned, in the order of the numbers, and no less than it must.
ShedWell(segs, avail, kept) ==
  /\ kept \subseteq DOMAIN segs
  /\ \A i \in DOMAIN segs : segs[i].shed = 0 => i \in kept
  /\ \A j \in DOMAIN segs \ kept, i \in kept : segs[i].shed < segs[j].shed
                                               \/ (segs[i].shed = segs[j].shed /\ i < j)
  /\ DOMAIN segs \ kept # {} => \E j \in DOMAIN segs \ kept : Pane!RowWidth(segs, kept \cup {j}) > avail

\* The segments of a row have numbers.
LEMMA SegmentsTyped ==
  ASSUME NEW segs \in Seq([width : Nat, shed : Nat])
  PROVE  /\ IsFiniteSet(DOMAIN segs)
         /\ \A i \in DOMAIN segs : i \in Nat /\ segs[i].width \in Nat /\ segs[i].shed \in Nat
<1> DEFINE Row == [width : Nat, shed : Nat]
<1>1. Len(segs) \in Nat /\ DOMAIN segs = 1..Len(segs) /\ \A i \in DOMAIN segs : segs[i] \in Row
  <2>1. segs \in Seq(Row)
    OBVIOUS
  <2> HIDE DEF Row
  <2> QED
    BY <2>1
<1>2. IsFiniteSet(DOMAIN segs)
  BY <1>1, FS_Interval
<1>3. ASSUME NEW r \in Row
      PROVE  r.width \in Nat /\ r.shed \in Nat
  OBVIOUS
<1> HIDE DEF Row
<1> QED
  BY <1>1, <1>2, <1>3

\* One segment goes, the worst, and only from a row that is too wide.
LEMMA ShedsOne ==
  ASSUME NEW segs \in Seq([width : Nat, shed : Nat]), NEW avail \in Int, NEW kept,
         ShedWell(segs, avail, kept), Pane!RowWidth(segs, kept) > avail
  PROVE  ShedWell(segs, avail, kept \ Pane!Worst(segs, kept))
<1> DEFINE worst == Pane!Worst(segs, kept)
<1>0. \A i \in DOMAIN segs : i \in Nat /\ segs[i].shed \in Nat
  BY SegmentsTyped
<1>1. \A i \in worst : i \in kept /\ segs[i].shed > 0
                       /\ \A j \in kept : \/ segs[j].shed < segs[i].shed
                                          \/ segs[j].shed = segs[i].shed /\ j <= i
  BY DEF Pane!Worst
<1>2. kept \subseteq DOMAIN segs
  BY DEF ShedWell
<1>3. \A i, j \in worst : i = j
  <2> HIDE DEF worst
  <2> TAKE i, j \in worst
  <2>1. /\ i \in Nat /\ j \in Nat /\ segs[i].shed \in Nat /\ segs[j].shed \in Nat
        /\ i \in kept /\ j \in kept
    BY <1>0, <1>1, <1>2
  <2>2. segs[j].shed < segs[i].shed \/ (segs[j].shed = segs[i].shed /\ j <= i)
    BY <1>1, <2>1
  <2>3. segs[i].shed < segs[j].shed \/ (segs[i].shed = segs[j].shed /\ i <= j)
    BY <1>1, <2>1
  <2> QED
    BY <2>1, <2>2, <2>3, SMTT(30)
<1> HIDE DEF worst
<1>4. kept \ worst \subseteq DOMAIN segs
  BY <1>2
<1>5. ASSUME NEW i \in DOMAIN segs, segs[i].shed = 0
      PROVE  i \in kept \ worst
  BY <1>1, <1>5 DEF ShedWell
<1>6. ASSUME NEW j \in DOMAIN segs \ (kept \ worst), NEW i \in kept \ worst
      PROVE  segs[i].shed < segs[j].shed \/ (segs[i].shed = segs[j].shed /\ i < j)
  <2>1. CASE j \in worst
    <3>1. i # j /\ i \in DOMAIN segs /\ j \in DOMAIN segs
      BY <1>2, <1>6, <2>1
    <3>2. segs[i].shed < segs[j].shed \/ (segs[i].shed = segs[j].shed /\ i <= j)
      BY <1>1, <1>6, <2>1
    <3> QED
      BY <1>0, <3>1, <3>2
  <2>2. CASE j \notin kept
    BY <1>6, <2>2 DEF ShedWell
  <2> QED
    BY <1>6, <2>1, <2>2
<1>7. ASSUME DOMAIN segs \ (kept \ worst) # {}
      PROVE  \E j \in DOMAIN segs \ (kept \ worst) : Pane!RowWidth(segs, (kept \ worst) \cup {j}) > avail
  <2>1. CASE worst = {}
    <3>1. kept \ worst = kept
      BY <2>1
    <3> QED
      BY <1>7, <3>1, Zenon DEF ShedWell
  <2>2. CASE worst # {}
    <3>1. PICK j \in worst : TRUE
      BY <2>2
    <3>2. (kept \ worst) \cup {j} = kept /\ j \in DOMAIN segs \ (kept \ worst)
      BY <1>1, <1>2, <1>3, <3>1
    <3> QED
      BY <3>2, Zenon
  <2> QED
    BY <2>1, <2>2
<1> QED
  BY <1>4, <1>5, <1>6, <1>7 DEF ShedWell, worst

\* What a row sheds is what matters least, and no more than has to go.
LEMMA ShedsWell ==
  ASSUME NEW segs \in Seq([width : Nat, shed : Nat]), NEW avail \in Int
  PROVE  ShedWell(segs, avail, Pane!Shed(segs, avail))
<1> DEFINE N == Len(segs)
           D == DOMAIN segs
           After(kept) == IF Pane!Cardinality(kept) > 1 /\ Pane!RowWidth(segs, kept) > avail
                          THEN kept \ Pane!Worst(segs, kept) ELSE kept
           Sheds(f) == f = [n \in 0..N |-> IF n = 0 THEN D
                              ELSE IF Pane!Cardinality(f[n - 1]) > 1 /\ Pane!RowWidth(segs, f[n - 1]) > avail
                                   THEN f[n - 1] \ Pane!Worst(segs, f[n - 1]) ELSE f[n - 1]]
           step == [p \in (1..N) \X SUBSET D |-> After(p[2])]
           walk == CHOOSE f : Sheds(f)
<1>1. N \in Nat
  OBVIOUS
<1>2. step \in [(1..N) \X SUBSET D -> SUBSET D]
  <2>1. \A kept \in SUBSET D : After(kept) \in SUBSET D
    OBVIOUS
  <2> HIDE DEF After
  <2> QED
    BY <2>1
<1>3. \E f : Sheds(f)
  <2>1. PICK f \in [0..N -> SUBSET D] : Walks(f, N, D, step)
    <3>1. D \in SUBSET D
      OBVIOUS
    <3> HIDE DEF step, D, N
    <3> QED
      BY <1>1, <1>2, <3>1, WalkExists
  <2>2. ASSUME NEW n \in 0..N, n # 0
        PROVE  step[<<n, f[n - 1]>>] = After(f[n - 1])
    <3> HIDE DEF D, N
    <3>1. n \in 1..N /\ n - 1 \in 0..N
      BY <1>1, <2>2
    <3>2. f[n - 1] \in SUBSET D
      BY <2>1, <3>1
    <3> HIDE DEF After
    <3> QED
      BY <3>1, <3>2
  <2> HIDE DEF step, D, N
  <2>3. Sheds(f)
    BY <2>1, <2>2, Zenon DEF Walks
  <2> HIDE DEF Sheds
  <2> QED
    BY <2>3
<1>4. Sheds(walk)
  <2> HIDE DEF Sheds
  <2> QED
    BY <1>3, Zenon
<1>5. Pane!Shed(segs, avail) = walk[N]
  BY Zenon DEF Pane!Shed
<1> HIDE DEF walk
<1>6. walk[0] = D /\ \A n \in 1..N : walk[n] = After(walk[n - 1])
  <2> HIDE DEF D, N
  <2>1. 0 \in 0..N /\ \A n \in 1..N : n \in 0..N /\ n # 0
    BY <1>1
  <2> QED
    BY <1>4, <2>1, Zenon
<1> DEFINE S == {n \in Nat : n <= N => ShedWell(segs, avail, walk[n])}
<1>7. 0 \in S
  BY <1>6 DEF ShedWell
<1>8. ASSUME NEW n \in Nat, n \in S
      PROVE  n + 1 \in S
  <2> SUFFICES ASSUME n + 1 <= N
               PROVE  ShedWell(segs, avail, walk[n + 1])
    OBVIOUS
  <2>1. ShedWell(segs, avail, walk[n])
    BY <1>1, <1>8
  <2>2. walk[n + 1] = After(walk[n])
    <3>1. n + 1 \in 1..N /\ n + 1 - 1 = n
      BY <1>1
    <3> HIDE DEF After, N
    <3> QED
      BY <1>6, <3>1
  <2>3. CASE Pane!Cardinality(walk[n]) > 1 /\ Pane!RowWidth(segs, walk[n]) > avail
    <3>1. walk[n + 1] = walk[n] \ Pane!Worst(segs, walk[n])
      BY <2>2, <2>3, Zenon
    <3> QED
      BY <2>1, <2>3, <3>1, ShedsOne
  <2>4. CASE ~(Pane!Cardinality(walk[n]) > 1 /\ Pane!RowWidth(segs, walk[n]) > avail)
    <3>1. walk[n + 1] = walk[n]
      BY <2>2, <2>4, Zenon
    <3> QED
      BY <2>1, <3>1
  <2> QED
    BY <2>3, <2>4
<1>9. Nat \subseteq S
  <2> HIDE DEF S
  <2> QED
    BY <1>7, <1>8, AllNumbers
<1> QED
  BY <1>1, <1>5, <1>9

\* The header keeps to the width, and what is left out is worth less than what is shown
\* (renderHeader).
LEMMA PaneHeaderFits ==
  ASSUME NEW x \in [w : Nat, engines : BOOLEAN, agents : BOOLEAN, ssh : Nat, paused : BOOLEAN],
         x.w >= 62
  PROVE  Pane!HeaderFits(x)
<1> DEFINE segs == Pane!renderHeader(x)
           avail == x.w - Pane!HeaderRight(x) - 1
           kept == Pane!Shed(segs, avail)
           Row == [width : Nat, shed : Nat]
<1>1. segs \in Seq(Row)
  <2>1. \A width \in Nat, shed \in Nat : Pane!Segment(width, shed) \in Seq(Row)
    BY DEF Pane!Segment
  <2>2. 8 + x.ssh \in Nat /\ <<>> \in Seq(Row)
    OBVIOUS
  <2>3. \A s, t \in Seq(Row) : s \o t \in Seq(Row)
    OBVIOUS
  <2>4. /\ Pane!Segment(6, 0) \in Seq(Row) /\ Pane!Segment(6, 40) \in Seq(Row)
        /\ Pane!Segment(13, 0) \in Seq(Row) /\ Pane!Segment(8, 45) \in Seq(Row)
        /\ Pane!Segment(8, 0) \in Seq(Row) /\ Pane!Segment(15, 10) \in Seq(Row)
        /\ Pane!Segment(9, 20) \in Seq(Row) /\ Pane!Segment(11, 50) \in Seq(Row)
        /\ Pane!Segment(8 + x.ssh, 0) \in Seq(Row)
    BY <2>1, <2>2
  <2> DEFINE busy == IF x.engines
                     THEN Pane!Segment(13, 0) \o (IF x.agents THEN Pane!Segment(8, 45) ELSE <<>>)
                     ELSE Pane!Segment(8, 0)
             wait == IF x.engines THEN Pane!Segment(11, 50) ELSE <<>>
             far == IF x.ssh > 0 THEN Pane!Segment(8 + x.ssh, 0) ELSE <<>>
  <2>5. segs = Pane!Segment(6, 0) \o Pane!Segment(6, 40) \o busy
               \o Pane!Segment(15, 10) \o Pane!Segment(9, 20) \o wait \o far
    BY Zenon DEF Pane!renderHeader
  <2> HIDE DEF Row
  <2>6. busy \in Seq(Row) /\ wait \in Seq(Row) /\ far \in Seq(Row)
    <3>1. (IF x.agents THEN Pane!Segment(8, 45) ELSE <<>>) \in Seq(Row)
      BY <2>2, <2>4, Zenon
    <3>2. (Pane!Segment(13, 0) \o (IF x.agents THEN Pane!Segment(8, 45) ELSE <<>>)) \in Seq(Row)
      BY <2>3, <2>4, <3>1, Zenon
    <3>3. busy \in Seq(Row)
      BY <2>4, <3>2, Zenon
    <3> QED
      BY <2>2, <2>4, <3>3, Zenon
  <2> HIDE DEF busy, wait, far
  <2>7. Pane!Segment(6, 0) \o Pane!Segment(6, 40) \in Seq(Row)
    BY <2>3, <2>4, Zenon
  <2>8. Pane!Segment(6, 0) \o Pane!Segment(6, 40) \o busy \in Seq(Row)
    BY <2>3, <2>6, <2>7, Zenon
  <2>9. Pane!Segment(6, 0) \o Pane!Segment(6, 40) \o busy \o Pane!Segment(15, 10) \in Seq(Row)
    BY <2>3, <2>4, <2>8, Zenon
  <2>10. Pane!Segment(6, 0) \o Pane!Segment(6, 40) \o busy \o Pane!Segment(15, 10)
         \o Pane!Segment(9, 20) \in Seq(Row)
    BY <2>3, <2>4, <2>9, Zenon
  <2>11. Pane!Segment(6, 0) \o Pane!Segment(6, 40) \o busy \o Pane!Segment(15, 10)
         \o Pane!Segment(9, 20) \o wait \in Seq(Row)
    BY <2>3, <2>6, <2>10, Zenon
  <2> QED
    BY <2>3, <2>5, <2>6, <2>11, Zenon
<1>2. /\ Pane!HeaderRight(x) \in 8..19 /\ x.w \in Nat
  BY DEF Pane!HeaderRight
<1>3. avail \in Int /\ avail > 0
  BY <1>2
<1> HIDE DEF segs
<1>4. ShedWell(segs, avail, kept)
  <2> HIDE DEF avail
  <2> QED
    BY <1>1, <1>3, ShedsWell
<1>5. Pane!RowWidth(segs, kept) \in Int
  <2>1. kept \in SUBSET DOMAIN segs
    BY <1>4 DEF ShedWell
  <2>2. IsFiniteSet(DOMAIN segs) /\ \A i \in DOMAIN segs : segs[i].width \in Nat
    BY <1>1, SegmentsTyped
  <2>3. \A i \in DOMAIN segs : segs[i].width \in Int
    BY <2>2
  <2> HIDE DEF kept
  <2> QED
    BY <2>1, <2>2, <2>3, FS_Subset, WidthIsWhole
<1> HIDE DEF kept
<1>6. Pane!fitSegments(segs, avail) \in Int /\ Pane!fitSegments(segs, avail) <= avail
  BY <1>3, <1>5 DEF Pane!fitSegments, Pane!Least, kept
<1>7. Pane!joinSpread(Pane!fitSegments(segs, avail), Pane!HeaderRight(x), x.w) <= x.w
  BY <1>2, <1>6 DEF Pane!joinSpread, Pane!Most
<1> QED
  BY <1>4, <1>7, Zenon DEF Pane!HeaderFits, ShedWell, segs, kept

(***************************************************************************)
(* Command lines                                                           *)
(***************************************************************************)
\* Any flags, variables and words; bad is the one with an unusable value, if any.
CommandLines == [flags : SUBSET Command!Flags, env : SUBSET Command!Environment,
                 args : Seq(Command!Words), tty : BOOLEAN,
                 bad : {"none"} \cup Command!Checked]

\* A run is neither a request for help nor for the version (main).
LEMMA RunsNoCommand ==
  ASSUME NEW c \in CommandLines, Command!Outcome(c) = "run"
  PROVE  /\ "help" \notin c.flags /\ "version" \notin c.flags
         /\ Command!Subcommand(c) \notin {"update", "help", "version"}
         /\ ~Command!Bad(c, "add") /\ Command!interpretArgs(c.args) = "run"
         /\ Command!validateFlags(c) /\ Command!validateLogLevelEnv(c) /\ Command!validateOnceEnv(c)
         /\ Command!validateIngestAddr(c) /\ Command!KeyFileFound(c)
<1>1. \A t : Command!runHelp(t) # "run" /\ Command!runVersion(t) # "run"
  BY DEF Command!runHelp, Command!runVersion
<1> QED
  BY <1>1 DEF Command!Outcome, Command!Has

\* A flag that is given is used or named as ignored, and never both (warnIgnoredFlags).
LEMMA FlagsAccounted ==
  ASSUME NEW c \in CommandLines, Command!Outcome(c) = "run", NEW k \in c.flags
  PROVE  /\ k \in Command!Used(c) \/ k \in Command!Named(c)
         /\ ~(k \in Command!Used(c) /\ k \in Command!Named(c))
         /\ k \notin Command!Sizes(c)
<1>0. "help" \notin c.flags /\ "version" \notin c.flags
  BY RunsNoCommand
<1>1. /\ c.flags \subseteq Command!Flags /\ c.env \subseteq Command!Environment
      /\ k \in Command!Knobs(c)
  BY DEF CommandLines, Command!Knobs
<1>2. k \in Command!Named(c) <=>
          \/ k = "opencode-db" /\ ~("agents" \in c.flags)
          \/ k = "ingest" /\ "no-ingest" \in c.flags
          \/ k = "seed" /\ ~("demo" \in c.flags)
          \/ k \in {"frames", "plain"} /\ ~("once" \in c.flags)
          \/ k = "no-hot-reload" /\ "once" \in c.flags
          \/ k \in {"add", "bearer", "ssh-key"} /\ "demo" \in c.flags
          \/ k = "bearer" /\ ~("demo" \in c.flags) /\ ~("add" \in c.flags)
          \/ k = "ssh-key" /\ ~("demo" \in c.flags) /\ Command!Remotes(c) = {}
  <2>1. k \notin {"TOKTOP_COLUMNS", "TOKTOP_LINES", "OMNIROUTE_API_KEY", "TOKTOP_BEARER",
                  "TOKTOP_SSH_PASSWORD", "TOKTOP_LOG_LEVEL", "targets"}
    BY <1>1 DEF Command!Flags
  <2> HIDE DEF Command!Knobs
  <2> QED
    BY <1>1, <2>1 DEF Command!Named, Command!warnIgnoredFlags, Command!warnIgnoredFrameEnv, Command!warnUnusedEnv,
         Command!Has
<1>3. k \in Command!Used(c) <=>
          \/ k \in {"demo", "once", "agents", "no-ingest", "probe", "interval"}
          \/ k = "seed" /\ "demo" \in c.flags
          \/ k = "add" /\ "demo" \notin c.flags
          \/ k = "ssh-key" /\ "demo" \notin c.flags /\ Command!Remotes(c) # {}
          \/ k = "bearer" /\ "demo" \notin c.flags /\ "add" \in c.flags
          \/ k \in {"frames", "plain"} /\ "once" \in c.flags
          \/ k = "no-hot-reload" /\ "once" \notin c.flags
          \/ k = "opencode-db" /\ "agents" \in c.flags
          \/ k = "ingest" /\ "no-ingest" \notin c.flags
  <2>1. k \notin {"TOKTOP_COLUMNS", "TOKTOP_LINES", "OMNIROUTE_API_KEY", "TOKTOP_BEARER",
                  "TOKTOP_SSH_PASSWORD", "TOKTOP_LOG_LEVEL", "targets", "none"}
    BY <1>1 DEF Command!Flags
  <2>2. k = Command!resolveBearer(c) <=> k = "bearer"
    BY <2>1 DEF Command!resolveBearer, Command!Has
  <2> QED
    BY <1>1, <2>1, <2>2 DEF Command!Used, Command!Has
<1>4. k \notin Command!Sizes(c)
  BY <1>1 DEF Command!Sizes, Command!Flags
<1> QED
  BY <1>0, <1>1, <1>2, <1>3, <1>4 DEF Command!Flags

\* So is what stands for the hosts to watch (warnIgnoredFlags).
LEMMA TargetsAccounted ==
  ASSUME NEW c \in CommandLines, NEW k \in Command!Knobs(c), k = "targets"
  PROVE  /\ k \in Command!Used(c) \/ k \in Command!Named(c)
         /\ ~(k \in Command!Used(c) /\ k \in Command!Named(c))
         /\ k \notin Command!Sizes(c)
<1>1. c.flags \subseteq Command!Flags /\ c.env \subseteq Command!Environment
  BY DEF CommandLines
<1>2. k \notin c.flags /\ k \notin c.env /\ Command!Remotes(c) # {}
  BY <1>1 DEF Command!Flags, Command!Environment, Command!Knobs
<1>3. k \in Command!Named(c) <=> "demo" \in c.flags
  BY <1>2 DEF Command!Named, Command!warnIgnoredFlags, Command!warnIgnoredFrameEnv, Command!warnUnusedEnv,
     Command!Has
<1>4. k # Command!resolveBearer(c)
  BY DEF Command!resolveBearer
<1>5. k \in Command!Used(c) <=> "demo" \notin c.flags
  BY <1>2, <1>4 DEF Command!Used, Command!Has
<1> QED
  BY <1>2, <1>3, <1>5 DEF Command!Sizes

\* A variable that is set is used, named, outranked or read as a size (warnUnusedEnv).
LEMMA EnvironmentAccounted ==
  ASSUME NEW c \in CommandLines, NEW k \in c.env
  PROVE  /\ \/ k \in Command!Used(c) \/ k \in Command!Named(c)
            \/ k \in Command!Outranked(c) \/ k \in Command!Sizes(c)
         /\ ~(k \in Command!Used(c) /\ k \in Command!Named(c))
         /\ k \in Command!Sizes(c) => ~(k \in Command!Used(c) \/ k \in Command!Named(c))
<1> DEFINE Sized == {"TOKTOP_COLUMNS", "TOKTOP_LINES"}
           Tokens == {"OMNIROUTE_API_KEY", "TOKTOP_BEARER"}
<1>1. /\ c.env \subseteq Command!Environment /\ c.flags \subseteq Command!Flags
      /\ k \in Command!Knobs(c)
  BY DEF CommandLines, Command!Knobs
<1>2. k \in Command!Environment /\ k \notin Command!Flags /\ k \notin {"none", "targets"}
  BY <1>1 DEF Command!Environment, Command!Flags
<1>3. k \in Command!Named(c) <=>
          \/ k \in Sized /\ "once" \notin c.flags
          \/ k = "TOKTOP_SSH_PASSWORD" /\ ("demo" \in c.flags \/ Command!Remotes(c) = {})
          \/ k \in Tokens /\ "bearer" \notin c.flags /\ ("demo" \in c.flags \/ "add" \notin c.flags)
          \/ k = "TOKTOP_LOG_LEVEL" /\ "no-ingest" \in c.flags
  <2>1. k \notin Command!warnIgnoredFlags(c)
    BY <1>2 DEF Command!warnIgnoredFlags, Command!Environment
  <2> QED
    BY <1>1, <2>1 DEF Command!Named, Command!warnIgnoredFrameEnv, Command!warnUnusedEnv, Command!Has
<1>4. k \in Command!Used(c) <=>
          \/ k = "TOKTOP_SSH_PASSWORD" /\ "demo" \notin c.flags /\ Command!Remotes(c) # {}
          \/ k = Command!resolveBearer(c) /\ "demo" \notin c.flags /\ "add" \in c.flags
          \/ k \in Sized /\ "once" \in c.flags /\ "plain" \notin c.flags
          \/ k = "TOKTOP_LOG_LEVEL" /\ "no-ingest" \notin c.flags
  BY <1>1, <1>2 DEF Command!Used, Command!Has, Command!Flags
<1>5. k = Command!resolveBearer(c) <=>
          /\ "bearer" \notin c.flags
          /\ \/ k = "OMNIROUTE_API_KEY"
             \/ k = "TOKTOP_BEARER" /\ "OMNIROUTE_API_KEY" \notin c.env
  BY <1>2 DEF Command!resolveBearer, Command!Has, Command!Set, Command!Environment
<1>6. k \in Command!Outranked(c) <=>
          \/ k \in Tokens /\ "bearer" \in c.flags
          \/ k = "TOKTOP_BEARER" /\ "bearer" \notin c.flags /\ "OMNIROUTE_API_KEY" \in c.env
  BY DEF Command!Outranked, Command!Has, Command!Set
<1>7. k \in Command!Sizes(c) <=> k \in Sized /\ "once" \in c.flags /\ "plain" \in c.flags
  BY DEF Command!Sizes, Command!Has
<1> QED
  BY <1>2, <1>3, <1>4, <1>5, <1>6, <1>7 DEF Command!Environment

\* What cannot be used is not used: a value that is read was looked at before (validateFlags
\* and the checks after it).
LEMMA UnusableRefused ==
  ASSUME NEW c \in CommandLines, Command!Outcome(c) = "run"
  PROVE  c.bad \notin Command!Used(c)
<1> SUFFICES ASSUME c.bad \in Command!Used(c)
             PROVE  FALSE
  OBVIOUS
<1>1. /\ c.env \subseteq Command!Environment /\ c.flags \subseteq Command!Flags
      /\ c.bad \in {"none"} \cup Command!Checked
  BY DEF CommandLines
<1>2. c.bad \in c.flags \cup c.env
  BY <1>1 DEF Command!Used, Command!Knobs, Command!Checked
<1>3. Command!Bad(c, c.bad) /\ c.bad \in Command!Checked
  BY <1>1, <1>2 DEF Command!Bad, Command!Has, Command!Set, Command!Flags, Command!Environment
<1>4. /\ Command!validateFlags(c) /\ Command!validateLogLevelEnv(c) /\ Command!validateOnceEnv(c)
      /\ Command!validateIngestAddr(c) /\ Command!KeyFileFound(c) /\ c.bad # "add"
  BY <1>3, RunsNoCommand
<1>5. /\ c.bad \notin {"interval", "probe", "TOKTOP_LOG_LEVEL"}
      /\ c.bad = "frames" => "once" \notin c.flags
      /\ c.bad \in {"TOKTOP_COLUMNS", "TOKTOP_LINES"} => "once" \notin c.flags
      /\ c.bad = "ingest" => "no-ingest" \in c.flags
      /\ c.bad = "ssh-key" => "demo" \in c.flags \/ Command!Remotes(c) = {}
  BY <1>3, <1>4 DEF Command!validateFlags, Command!validateLogLevelEnv, Command!validateOnceEnv,
                    Command!validateIngestAddr, Command!KeyFileFound, Command!Has
<1>6. /\ c.bad = "frames" => c.bad \in c.flags
      /\ c.bad \in {"ingest", "ssh-key"} => c.bad \in c.flags
      /\ c.bad \in {"TOKTOP_COLUMNS", "TOKTOP_LINES"} => c.bad \in c.env
  BY <1>1, <1>2 DEF Command!Flags, Command!Environment
<1>7. c.bad \notin {"OMNIROUTE_API_KEY", "TOKTOP_BEARER", "bearer", "none"}
  BY <1>3 DEF Command!Checked
<1>8. c.bad # Command!resolveBearer(c)
  BY <1>7 DEF Command!resolveBearer
<1>9. c.bad # "add"
  BY <1>4
<1> HIDE DEF Command!Knobs
<1> QED
  BY <1>3, <1>5, <1>8, <1>9 DEF Command!Used, Command!Has, Command!Checked

\* So everything that was given, in any combination, has its effect or is named as having
\* none, but for the sizes of a frame that is printed as text (warnIgnoredFlags).
THEOREM KnobsCount ==
  ASSUME NEW c \in CommandLines
  PROVE  Command!KnobsCount(c)
<1> SUFFICES ASSUME Command!Outcome(c) = "run"
             PROVE  /\ Command!Knobs(c) = Command!Used(c) \cup Command!Named(c) \cup Command!Outranked(c)
                                                          \cup Command!Sizes(c)
                    /\ Command!Used(c) \cap Command!Named(c) = {}
                    /\ Command!Sizes(c) \cap (Command!Used(c) \cup Command!Named(c)) = {}
                    /\ c.bad \notin Command!Used(c)
  BY DEF Command!KnobsCount
<1>1. /\ Command!Used(c) \subseteq Command!Knobs(c)
      /\ Command!Named(c) \subseteq Command!Knobs(c) \cup c.env
      /\ Command!Outranked(c) \subseteq c.env
      /\ Command!Sizes(c) \subseteq c.env
  BY DEF Command!Used, Command!Named, Command!Outranked, Command!Sizes,
         Command!warnIgnoredFlags, Command!warnIgnoredFrameEnv, Command!warnUnusedEnv
<1>2. /\ c.env \subseteq Command!Knobs(c)
      /\ \A k \in Command!Knobs(c) : k \in c.flags \/ k \in c.env \/ k = "targets"
  BY DEF Command!Knobs
<1>3. \A k \in Command!Knobs(c) :
        /\ k \in Command!Used(c) \cup Command!Named(c) \cup Command!Outranked(c) \cup Command!Sizes(c)
        /\ ~(k \in Command!Used(c) /\ k \in Command!Named(c))
        /\ k \in Command!Sizes(c) => ~(k \in Command!Used(c) \/ k \in Command!Named(c))
  BY <1>2, FlagsAccounted, EnvironmentAccounted, TargetsAccounted
<1> QED
  BY <1>1, <1>2, <1>3, UnusableRefused

\* Words that are no command are refused, and the words of help reach help
\* (interpretArgs).
LEMMA WordsCount ==
  ASSUME NEW c \in CommandLines
  PROVE  Command!WordsCount(c)
<1> DEFINE a == c.args
           flagged == c.flags \cap {"help", "version"} # {}
           t == Command!Operands(c)
           out == Command!Outcome(c)
           Topic(q) == \/ q[1] \in {"help", "-h"}
                       \/ Len(q) = 1 /\ q[1] \in {"update", "version"}
<1>1. a \in Seq(Command!Words)
  BY DEF CommandLines
<1>2. ASSUME NEW q
      PROVE  /\ Command!runHelp(q) \in {"help", "usage"}
             /\ Command!runHelp(q) = "help" => q = <<>> \/ Topic(q)
             /\ Command!runVersion(q) \in {"version", "help", "usage"}
             /\ Command!runVersion(q) = "version" => q = <<>>
             /\ Command!runVersion(q) = "help" => Topic(q)
  BY DEF Command!runHelp, Command!runVersion
<1> HIDE DEF Topic
<1>3. /\ flagged \/ a = <<>> => t = a
      /\ ~flagged /\ a # <<>> => t = Tail(a)
  BY Zenon DEF Command!Operands
<1>4. /\ Command!Subcommand(c) \in {"update", "help", "version"} => ~flagged /\ a # <<>>
      /\ flagged <=> Command!Has(c, "help") \/ Command!Has(c, "version")
  BY DEF Command!Subcommand, Command!Has
<1>5. /\ Command!interpretArgs(a) = "run" => \A i \in DOMAIN a : a[i] = "ssh"
      /\ Command!interpretArgs(a) = "version" => a # <<>> /\ Tail(a) = <<>>
      /\ Command!interpretArgs(a) = "help" => a # <<>> /\ Command!runHelp(Tail(a)) = "help"
  <2>1. a # <<>> /\ Len(a) = 1 => Tail(a) = <<>>
    <3>1. \A T : \A q \in Seq(T) : Len(q) = 1 => Tail(q) \in Seq(T) /\ Len(Tail(q)) = 0
      OBVIOUS
    <3>2. \A T : \A q \in Seq(T) : Len(q) = 0 => q = <<>>
      OBVIOUS
    <3> QED
      BY <1>1, <3>1, <3>2, Zenon
  <2> HIDE DEF a
  <2>2. Command!runHelp(Tail(a)) \in {"help", "usage"}
    BY <1>2
  <2>3. Command!interpretArgs(a) = IF a = <<>> THEN "run"
          ELSE IF a[1] = "help" THEN Command!runHelp(Tail(a))
          ELSE IF a[1] = "version" THEN IF Len(a) = 1 THEN "version" ELSE "usage"
          ELSE IF \A i \in DOMAIN a : a[i] = "ssh" THEN "run" ELSE "usage"
    <3> DEFINE topic == Command!runHelp(Tail(a))
               single == Len(a) = 1
               targets == \A i \in DOMAIN a : a[i] = "ssh"
    <3>1. Command!interpretArgs(a) =
            CASE a = <<>> -> "run"
              [] a # <<>> /\ a[1] = "help" -> topic
              [] a # <<>> /\ a[1] = "version" -> IF single THEN "version" ELSE "usage"
              [] OTHER -> IF targets THEN "run" ELSE "usage"
      BY Zenon DEF Command!interpretArgs
    <3> HIDE DEF topic, single, targets
    <3>2. Command!interpretArgs(a) = IF a = <<>> THEN "run"
            ELSE IF a[1] = "help" THEN topic
            ELSE IF a[1] = "version" THEN IF single THEN "version" ELSE "usage"
            ELSE IF targets THEN "run" ELSE "usage"
      BY <3>1
    <3> QED
      BY <3>2, Zenon DEF topic, single, targets
  <2>4. a = <<>> => \A i \in DOMAIN a : a[i] = "ssh"
    OBVIOUS
  <2> QED
    BY <2>1, <2>2, <2>3, <2>4
<1>6. \/ out = "update" /\ Command!Subcommand(c) = "update"
      \/ out = Command!runHelp(Tail(a)) /\ Command!Subcommand(c) = "help"
      \/ out = Command!runVersion(Tail(a)) /\ Command!Subcommand(c) = "version"
      \/ out = "usage"
      \/ flagged /\ (out = Command!runHelp(a) \/ out = Command!runVersion(a))
      \/ ~flagged /\ (out = Command!interpretArgs(a) \/ (out = "run" /\ Command!interpretArgs(a) = "run"))
  <2> DEFINE sub == Command!Subcommand(c)
             help == Command!Has(c, "help")
             version == Command!Has(c, "version")
             words == Command!interpretArgs(a)
             rest == Tail(a)
             bad == Command!Bad(c, "add")
             valid == /\ Command!validateFlags(c) /\ Command!validateLogLevelEnv(c)
                      /\ Command!validateOnceEnv(c)
             usable == Command!validateIngestAddr(c) /\ Command!KeyFileFound(c)
             nowhere == ~Command!Has(c, "once") /\ ~c.tty
             asHelp == Command!runHelp(a)
             asVersion == Command!runVersion(a)
             restHelp == Command!runHelp(rest)
             restVersion == Command!runVersion(rest)
  <2>1. out = IF sub = "update" THEN "update"
              ELSE IF sub = "help" THEN restHelp
              ELSE IF sub = "version" THEN restVersion
              ELSE IF bad THEN "usage"
              ELSE IF help THEN asHelp
              ELSE IF version THEN asVersion
              ELSE IF ~valid THEN "usage"
              ELSE IF words # "run" THEN words
              ELSE IF ~usable THEN "usage"
              ELSE IF nowhere THEN "usage" ELSE "run"
    BY Zenon DEF Command!Outcome
  <2>2. flagged <=> help \/ version
    BY <1>4
  <2> HIDE DEF flagged, out, sub, help, version, words, bad, valid, usable, nowhere, asHelp, asVersion,
               restHelp, restVersion
  <2>3. \/ out = "update" /\ sub = "update"
        \/ out = restHelp /\ sub = "help"
        \/ out = restVersion /\ sub = "version"
        \/ out = "usage"
        \/ flagged /\ (out = asHelp \/ out = asVersion)
        \/ ~flagged /\ (out = words \/ (out = "run" /\ words = "run"))
    BY <2>1, <2>2
  <2> QED
    BY <2>3, Zenon DEF sub, words, rest, asHelp, asVersion, restHelp, restVersion
<1> HIDE DEF a, flagged, t, out
<1>7. out = "run" => \A i \in DOMAIN a : a[i] = "ssh"
  BY <1>2, <1>5, <1>6
<1>8. out = "version" => t = <<>>
  BY <1>2, <1>3, <1>4, <1>5, <1>6
<1>9. out = "help" /\ t # <<>> => Topic(t)
  BY <1>2, <1>3, <1>4, <1>5, <1>6
<1>10. flagged => out \in {"help", "version", "usage"}
  BY <1>2, <1>4, <1>6
<1> QED
  BY <1>7, <1>8, <1>9, <1>10, Zenon DEF Command!WordsCount, Topic, a, t, out, flagged

\* A frame is as wide as asked or as the terminal, within the bounds (FrameColumns).
LEMMA FrameSized ==
  ASSUME NEW q \in [tty : Nat, override : Nat]
  PROVE  Command!FrameSized(q)
  BY DEF Command!FrameSized, Command!FrameColumns, Command!frameEnv

(***************************************************************************)
(* Names, keys and secrets                                                 *)
(***************************************************************************)
\* The first of some places is one of them, and none is before it.
LEMMA FirstPlace ==
  ASSUME NEW S, S \subseteq Nat, NEW else
  PROVE  /\ S = {} => Endpoint!First(S, else) = else
         /\ S # {} => /\ Endpoint!First(S, else) \in S
                      /\ \A j \in S : Endpoint!First(S, else) <= j
  BY SmallestOf DEF Endpoint!First

\* A target with a configuration of any length.
SshTargets == [user : {"", "me"}, port : {"", "44", "70000"}, password : BOOLEAN,
               path : {"", "/", "/x"}, config : Seq(Endpoint!ConfigLines)]

\* Without a matching block in front of the key there is no value for it.
LEMMA NothingMatches ==
  ASSUME NEW config \in Seq(Endpoint!ConfigLines), NEW key,
         \A i \in DOMAIN config : config[i].key = key => ~Endpoint!InBlock(config, i)
  PROVE  Endpoint!lookupSSHConfig(config, key) = ""
<1> DEFINE places == {i \in DOMAIN config : /\ config[i].key = key /\ config[i].val # "junk"
                                            /\ Endpoint!InBlock(config, i)}
<1>1. places = {}
  OBVIOUS
<1>2. Endpoint!First(places, 0) = 0
  <2> HIDE DEF places
  <2> QED
    BY <1>1, FirstPlace
<1> QED
  BY <1>2, Zenon DEF Endpoint!lookupSSHConfig

\* The lines of a configuration are numbered.
LEMMA LinesOf ==
  ASSUME NEW config \in Seq(Endpoint!ConfigLines)
  PROVE  /\ Len(config) \in Nat /\ DOMAIN config = 1..Len(config)
         /\ \A i \in DOMAIN config : config[i] \in Endpoint!ConfigLines
BY DEF Endpoint!ConfigLines

\* A line further down changes no value that was found: the first one wins.
LEMMA FirstWins ==
  ASSUME NEW config \in Seq(Endpoint!ConfigLines), NEW line \in Endpoint!ConfigLines, NEW key
  PROVE  Endpoint!lookupSSHConfig(config, key)
           \in {"", Endpoint!lookupSSHConfig(Append(config, line), key)}
<1> DEFINE n == Len(config)
           longer == Append(config, line)
           Hits(c) == {i \in DOMAIN c : /\ c[i].key = key /\ c[i].val # "junk"
                                       /\ Endpoint!InBlock(c, i)}
           k == Endpoint!First(Hits(config), 0)
           l == Endpoint!First(Hits(longer), 0)
<1>1. n \in Nat /\ DOMAIN config = 1..n
  BY LinesOf
<1>2. /\ longer \in Seq(Endpoint!ConfigLines) /\ DOMAIN longer = 1..n + 1
      /\ \A i \in 1..n : longer[i] = config[i]
  <2>1. ASSUME NEW T, NEW q \in Seq(T), NEW x \in T
        PROVE  /\ Append(q, x) \in Seq(T) /\ DOMAIN Append(q, x) = 1..Len(q) + 1
               /\ \A i \in 1..Len(q) : Append(q, x)[i] = q[i]
    OBVIOUS
  <2> QED
    BY <2>1, Zenon
<1>3. /\ Endpoint!lookupSSHConfig(config, key) = IF k = 0 THEN "" ELSE config[k].val
      /\ Endpoint!lookupSSHConfig(longer, key) = IF l = 0 THEN "" ELSE longer[l].val
  BY Zenon DEF Endpoint!lookupSSHConfig
<1> HIDE DEF longer
<1>4. ASSUME NEW i \in 1..n
      PROVE  Endpoint!InBlock(longer, i) <=> Endpoint!InBlock(config, i)
  <2>1. \A h \in 1..i : longer[h] = config[h] /\ \A g \in h + 1..i : longer[g] = config[g]
    <3> HIDE DEF n
    <3> QED
      BY <1>1, <1>2
  <2> QED
    BY <2>1 DEF Endpoint!InBlock
<1>5. \A i \in 1..n : i \in Hits(longer) <=> i \in Hits(config)
  <2> TAKE i \in 1..n
  <2>1. i \in 1..n + 1 /\ longer[i] = config[i]
    BY <1>1, <1>2
  <2>2. i \in DOMAIN config /\ i \in DOMAIN longer
    BY <1>1, <1>2, <2>1
  <2> HIDE DEF n
  <2> QED
    BY <1>4, <2>1, <2>2, Zenon
<1>6. Hits(config) \subseteq 1..n /\ Hits(longer) \subseteq 1..n + 1
  BY <1>1, <1>2
<1>7. /\ Hits(config) \subseteq Nat /\ Hits(longer) \subseteq Nat
      /\ \A i \in Hits(config) : i # 0
  <2> HIDE DEF Hits, n
  <2> QED
    BY <1>1, <1>6
<1>8. /\ Hits(config) = {} => k = 0
      /\ Hits(config) # {} => k \in Hits(config) /\ \A j \in Hits(config) : k <= j
      /\ Hits(longer) # {} => l \in Hits(longer) /\ \A j \in Hits(longer) : l <= j
  <2> HIDE DEF Hits
  <2> QED
    BY <1>7, FirstPlace
<1> HIDE DEF Hits, n, k, l
<1>9. CASE Hits(config) = {}
  <2>1. Endpoint!lookupSSHConfig(config, key) = ""
    BY <1>3, <1>8, <1>9, Zenon
  <2> QED
    BY <2>1, Zenon
<1>10. CASE Hits(config) # {}
  <2>1. k \in Hits(config) /\ k \in 1..n /\ k # 0
    BY <1>6, <1>7, <1>8, <1>10
  <2>2. k \in Hits(longer) /\ l \in Hits(longer) /\ l <= k
    BY <1>5, <1>8, <2>1
  <2>3. l \in 1..n
    BY <1>1, <1>6, <2>1, <2>2
  <2>4. k <= l
    BY <1>5, <1>8, <1>10, <2>2, <2>3
  <2>5. l = k
    BY <1>1, <2>1, <2>2, <2>3, <2>4
  <2>6. longer[k] = config[k]
    BY <1>2, <2>1
  <2>7. Endpoint!lookupSSHConfig(config, key) = Endpoint!lookupSSHConfig(longer, key)
    <3>1. Endpoint!lookupSSHConfig(config, key) = config[k].val
      BY <1>3, <2>1, Zenon
    <3>2. Endpoint!lookupSSHConfig(longer, key) = longer[k].val
      BY <1>3, <2>1, <2>5, Zenon
    <3> QED
      BY <2>6, <3>1, <3>2, Zenon
  <2> QED
    BY <2>7, Zenon DEF longer
<1> QED
  BY <1>9, <1>10

\* What the URL says wins over the configuration, the first value in it over later ones,
\* and a password in the URL is refused (ParseTarget, lookupSSHConfig).
LEMMA TargetsSound ==
  ASSUME NEW t \in SshTargets
  PROVE  Endpoint!TargetSound(t)
<1> DEFINE c == t.config
           p == Endpoint!ParseTarget(t)
<1>0. c \in Seq(Endpoint!ConfigLines) /\ t.password \in BOOLEAN
  BY DEF SshTargets
<1>1. /\ Len(c) \in Nat /\ DOMAIN c = 1..Len(c)
      /\ \A i \in DOMAIN c : c[i] \in Endpoint!ConfigLines
  <2> HIDE DEF c
  <2> QED
    BY <1>0, LinesOf
<1>2. p.ok => ~t.password
  BY DEF Endpoint!ParseTarget, Endpoint!parseURLTarget
<1> SUFFICES ASSUME p.ok
             PROVE  /\ t.user # "" => p.user = t.user
                    /\ t.port # "" => p.port = t.port
                    /\ p.port # ""
                    /\ \A line \in Endpoint!ConfigLines, key \in {"user", "hostname", "port", "identityfile"} :
                         Endpoint!lookupSSHConfig(c, key)
                           \in {"", Endpoint!lookupSSHConfig(Append(c, line), key)}
                    /\ (\A i \in DOMAIN c : c[i] # [key |-> "host", val |-> "match"])
                         => p.host = "host" /\ p.keyFile = "" /\ p.user = t.user
                    /\ \A i \in DOMAIN c :
                         (c[i] = [key |-> "host", val |-> "other"] /\ i = 1
                          /\ \A j \in 2..Len(c) : c[j].key # "host") => p.keyFile = ""
                    /\ (Len(c) = 4 /\ c[1].val = "match" /\ c[2].val = "other"
                        /\ c[3].key # "host" /\ c[4].key # "host")
                         => p.host = "host" /\ p.keyFile = ""
  BY <1>2 DEF Endpoint!TargetSound
<1>3. /\ p.user = Endpoint!Or(t.user, Endpoint!lookupSSHConfig(c, "user"))
      /\ p.port = Endpoint!Or(Endpoint!Or(t.port, Endpoint!lookupSSHConfig(c, "port")), "22")
      /\ p.keyFile = Endpoint!lookupSSHConfig(c, "identityfile")
      /\ p.host = Endpoint!Or(Endpoint!lookupSSHConfig(c, "hostname"), "host")
  BY DEF Endpoint!ParseTarget
<1> HIDE DEF c, p
<1>4. /\ t.user # "" => p.user = t.user
      /\ t.port # "" => p.port = t.port
      /\ p.port # ""
  BY <1>3 DEF Endpoint!Or
<1>5. ASSUME \A i \in DOMAIN c : c[i] # [key |-> "host", val |-> "match"]
      PROVE  p.host = "host" /\ p.keyFile = "" /\ p.user = t.user
  <2>1. \A i \in DOMAIN c : ~Endpoint!InBlock(c, i)
    BY <1>1, <1>5 DEF Endpoint!InBlock
  <2>2. \A key : Endpoint!lookupSSHConfig(c, key) = ""
    BY <1>0, <2>1, NothingMatches DEF c
  <2> QED
    BY <1>3, <2>2 DEF Endpoint!Or
<1>6. ASSUME NEW i \in DOMAIN c, c[i] = [key |-> "host", val |-> "other"], i = 1,
             \A j \in 2..Len(c) : c[j].key # "host"
      PROVE  p.keyFile = ""
  <2>1. \A k \in DOMAIN c : c[k] # [key |-> "host", val |-> "match"]
    BY <1>1, <1>6
  <2> QED
    BY <1>5, <2>1
<1>7. ASSUME Len(c) = 4, c[1].val = "match", c[2].val = "other",
             c[3].key # "host", c[4].key # "host"
      PROVE  p.host = "host" /\ p.keyFile = ""
  <2>1. c[1] = [key |-> "host", val |-> "match"] /\ c[2] = [key |-> "host", val |-> "other"]
    BY <1>1, <1>7 DEF Endpoint!ConfigLines
  <2>2. \A i \in DOMAIN c : c[i].key # "host" => ~Endpoint!InBlock(c, i)
    <3> SUFFICES ASSUME NEW i \in 1..4, c[i].key # "host", NEW h \in 1..i,
                        c[h] = [key |-> "host", val |-> "match"],
                        \A g \in h + 1..i : c[g].key # "host"
                 PROVE  FALSE
      BY <1>1, <1>7 DEF Endpoint!InBlock
    <3>1. h = 1 /\ i \in 3..4
      BY <1>7, <2>1
    <3> QED
      BY <2>1, <3>1
  <2>3. /\ Endpoint!lookupSSHConfig(c, "hostname") = ""
        /\ Endpoint!lookupSSHConfig(c, "identityfile") = ""
    BY <1>0, <2>2, NothingMatches DEF c
  <2> QED
    BY <1>3, <2>3 DEF Endpoint!Or
<1>8. \A line \in Endpoint!ConfigLines, key \in {"user", "hostname", "port", "identityfile"} :
        Endpoint!lookupSSHConfig(c, key) \in {"", Endpoint!lookupSSHConfig(Append(c, line), key)}
  BY <1>0, FirstWins, Zenon DEF c
<1> QED
  BY <1>4, <1>5, <1>6, <1>7, <1>8

\* An explicit key is the first to be offered (authMethods).
LEMMA KeysFirst ==
  ASSUME NEW k \in [file : {"none", "good", "unreadable"}, defaults : Nat, agent : BOOLEAN]
  PROVE  Endpoint!KeyFirst(k)
<1> SUFFICES ASSUME k.file = "good"
             PROVE  Endpoint!authMethods(k).order[1] = "file"
  BY DEF Endpoint!KeyFirst, Endpoint!authMethods
<1> DEFINE defaults == [i \in 1..k.defaults |-> "default"]
           agent == IF k.agent THEN <<"agent">> ELSE <<>>
<1>1. Endpoint!authMethods(k).order = <<"file">> \o defaults \o agent
  BY DEF Endpoint!authMethods
<1>2. defaults \in Seq({"default"}) /\ agent \in Seq({"agent"})
  <2>1. k.defaults \in Nat /\ <<"agent">> \in Seq({"agent"}) /\ <<>> \in Seq({"agent"})
    OBVIOUS
  <2>2. \A n \in Nat : [i \in 1..n |-> "default"] \in Seq({"default"})
    OBVIOUS
  <2> QED
    BY <2>1, <2>2, Zenon
<1>3. ASSUME NEW d \in Seq({"default"}), NEW a \in Seq({"agent"})
      PROVE  (<<"file">> \o d \o a)[1] = "file"
  OBVIOUS
<1> HIDE DEF defaults, agent
<1> QED
  BY <1>1, <1>2, <1>3

\* A URL of an engine, at any port: the host in either spelling, or another one.
EngineUrls == [scheme : {"http", "https", "fake"}, host : {"h", "H", "i"}, port : Nat]

\* A token goes to its own origin only, and an engine has one port (bearer,
\* parseEngineAddr).
LEMMA TokensStay ==
  ASSUME NEW u \in EngineUrls, NEW a \in EngineUrls
  PROVE  Endpoint!TokenStays(u, a) /\ Endpoint!PortsAgree(u)
<1>1. /\ u.scheme \in {"http", "https", "fake"} /\ u.port \in Nat
      /\ a.scheme \in {"http", "https", "fake"} /\ a.port \in Nat
  BY DEF EngineUrls
<1>2. /\ Endpoint!urlPort(u) = IF u.scheme = "fake" THEN 0 ELSE IF u.port # 0 THEN u.port ELSE Endpoint!DefaultPort(u)
      /\ Endpoint!urlPort(a) = IF a.scheme = "fake" THEN 0 ELSE IF a.port # 0 THEN a.port ELSE Endpoint!DefaultPort(a)
  BY DEF Endpoint!urlPort
<1>3. Endpoint!PortsAgree(u)
  BY <1>1, <1>2 DEF Endpoint!PortsAgree, Endpoint!parseEngineAddr
<1>4. ASSUME NEW x \in {u, a}
      PROVE  Endpoint!originOf(x) = IF x.scheme = "fake" THEN <<>>
                                    ELSE <<x.scheme, Endpoint!Lower(x.host), Endpoint!urlPort(x)>>
  BY <1>1 DEF Endpoint!originOf, Endpoint!urlPort
<1>5. Endpoint!admits(u, {a}) <=> Endpoint!originOf(u) # <<>> /\ Endpoint!originOf(a) = Endpoint!originOf(u)
  BY DEF Endpoint!admits
<1> QED
  BY <1>3, <1>4, <1>5 DEF Endpoint!TokenStays

\* The models of an engine.
EngineModels == Seq([name : {"blank", "embed", "chat"}, loaded : BOOLEAN])

\* A probe goes to a chat model, and to a loaded one first (probeModelName).
LEMMA ProbesSuit ==
  ASSUME NEW models \in EngineModels
  PROVE  Endpoint!ProbeSuits(models)
<1> DEFINE usable == {i \in DOMAIN models : models[i].name = "chat"}
           ready == {i \in usable : models[i].loaded}
           i == Endpoint!probeModelName(models)
<1>1. DOMAIN models \subseteq Nat \ {0}
  BY DEF EngineModels
<1>2. i = IF Endpoint!First(ready, 0) # 0 THEN Endpoint!First(ready, 0) ELSE Endpoint!First(usable, 0)
  BY Zenon DEF Endpoint!probeModelName
<1>3. /\ ready = {} => Endpoint!First(ready, 0) = 0
      /\ ready # {} => Endpoint!First(ready, 0) \in ready
      /\ usable = {} => Endpoint!First(usable, 0) = 0
      /\ usable # {} => Endpoint!First(usable, 0) \in usable
  <2>1. ready \subseteq Nat /\ usable \subseteq Nat
    BY <1>1
  <2> HIDE DEF ready, usable
  <2> QED
    BY <2>1, FirstPlace
<1> HIDE DEF i
<1>4. /\ i # 0 => i \in usable
      /\ (i = 0 \/ i \notin ready) => ready = {}
      /\ i = 0 => usable = {}
  BY <1>1, <1>2, <1>3
<1> QED
  BY <1>4 DEF Endpoint!ProbeSuits, i

\* Any conversation of a server.
SshChallenges == Seq([kind : {"password"}, echos : {<<>>}]
                     \cup [kind : {"interactive"}, echos : Seq(BOOLEAN)])

\* The challenges that ask for the password and for nothing else, in the open or not.
ForPassword == {[kind |-> "password", echos |-> <<>>], [kind |-> "interactive", echos |-> <<FALSE>>]}

\* Whether there is a password.
Knows(source) == source.env \/ (source.terminal /\ source.typed)

\* After n challenges: the operator was asked if he had to be, and those of the challenges
\* that ask for the password got it.
Discreet(at, n, challenges, source) ==
  /\ at.asked.done \in BOOLEAN
  /\ at.asked.known = (at.asked.done /\ Knows(source))
  /\ at.asked.prompts = IF at.asked.done /\ ~source.env /\ source.terminal THEN 1 ELSE 0
  /\ at.told = IF Knows(source) THEN {m \in 1..n : challenges[m] \in ForPassword} ELSE {}

\* A sequence with one member is that member in a row of its own.
LEMMA OnlyOne ==
  ASSUME NEW T, NEW q \in Seq(T)
  PROVE  /\ Len(q) = 1 <=> q = <<q[1]>>
         /\ Len(q) = 1 => q[1] \in T
<1>1. Len(q) = 1 => q = <<q[1]>> /\ q[1] \in T
  OBVIOUS
<1>2. \A x : Len(<<x>>) = 1
  OBVIOUS
<1> QED
  BY <1>1, <1>2, Zenon

\* What is refused is what does not ask for the password alone (answerPasswordPrompt).
LEMMA RefusedOnes ==
  ASSUME NEW challenges \in SshChallenges, NEW n \in 1..Len(challenges)
  PROVE  Endpoint!answerPasswordPrompt(challenges[n]) <=> challenges[n] \notin ForPassword
<1> DEFINE c == challenges[n]
           e == c.echos
<1>1. \/ c \in [kind : {"password"}, echos : {<<>>}]
      \/ c \in [kind : {"interactive"}, echos : Seq(BOOLEAN)]
  BY DEF SshChallenges
<1>2. CASE c \in [kind : {"password"}, echos : {<<>>}]
  <2>1. c = [kind |-> "password", echos |-> <<>>] /\ c.kind = "password"
    BY <1>2
  <2> HIDE DEF c
  <2> QED
    BY <2>1 DEF ForPassword, Endpoint!answerPasswordPrompt, c
<1>3. CASE c \in [kind : {"interactive"}, echos : Seq(BOOLEAN)]
  <2>1. c.kind = "interactive" /\ e \in Seq(BOOLEAN) /\ c = [kind |-> "interactive", echos |-> e]
    BY <1>3
  <2>2. c \in ForPassword <=> e = <<FALSE>>
    <3>1. c # [kind |-> "password", echos |-> <<>>]
      BY <2>1
    <3>2. c = [kind |-> "interactive", echos |-> <<FALSE>>] <=> e = <<FALSE>>
      <4>1. ASSUME NEW x, NEW y, [kind |-> "interactive", echos |-> x] = [kind |-> "interactive", echos |-> y]
            PROVE  x = y
        BY <4>1
      <4> HIDE DEF c, e
      <4> QED
        BY <2>1, <4>1, Zenon
    <3> HIDE DEF c, e
    <3> QED
      BY <3>1, <3>2, Zenon DEF ForPassword
  <2>3. e = <<FALSE>> <=> Len(e) = 1 /\ ~e[1]
    <3> HIDE DEF e
    <3>1. /\ Len(e) = 1 <=> e = <<e[1]>>
          /\ Len(e) = 1 => e[1] \in BOOLEAN
      BY <2>1, OnlyOne, Zenon
    <3>2. Len(<<FALSE>>) = 1 /\ ~(<<FALSE>>[1])
      OBVIOUS
    <3>3. e = <<FALSE>> => Len(e) = 1 /\ ~e[1]
      BY <3>2, Zenon
    <3>4. ASSUME Len(e) = 1, ~e[1]
          PROVE  e = <<FALSE>>
      <4>1. e[1] = FALSE
        BY <3>1, <3>4, Zenon
      <4> QED
        BY <3>1, <3>4, <4>1, Zenon
    <3> QED
      BY <3>3, <3>4, Zenon
  <2>4. Endpoint!answerPasswordPrompt(c) <=> Len(e) # 1 \/ e[1]
    BY <2>1, Zenon DEF Endpoint!answerPasswordPrompt
  <2> HIDE DEF c, e
  <2> QED
    BY <2>2, <2>3, <2>4, Zenon DEF c
<1> QED
  BY <1>1, <1>2, <1>3

\* However many challenges a server sends, the operator is asked once at most, and just
\* those that ask for the password alone, and would not show it, get it
\* (passwordSource.get, answerPasswordPrompt).
THEOREM SecretsKept ==
  ASSUME NEW challenges \in SshChallenges, NEW source \in Endpoint!Sources
  PROVE  Endpoint!SecretKept(challenges, source)
<1> DEFINE N == Len(challenges)
           K == Knows(source)
           start == [asked |-> [done |-> FALSE, prompts |-> 0, known |-> FALSE], told |-> {}]
           Next1(n, at) == LET asks == Endpoint!get(at.asked, source)
                           IN [asked |-> asks, told |-> at.told \cup (IF asks.known THEN {n} ELSE {})]
           After(n, at) == IF Endpoint!answerPasswordPrompt(challenges[n]) THEN at ELSE Next1(n, at)
           Runs(f) == f = [n \in 0..N |-> IF n = 0 THEN start
                             ELSE IF Endpoint!answerPasswordPrompt(challenges[n]) THEN f[n - 1]
                             ELSE LET asks == Endpoint!get(f[n - 1].asked, source)
                                  IN [asked |-> asks, told |-> f[n - 1].told \cup (IF asks.known THEN {n} ELSE {})]]
           Asked == [done : BOOLEAN, prompts : {0, 1}, known : BOOLEAN]
           X == [asked : Asked, told : SUBSET Nat]
           step == [q \in (1..N) \X X |-> After(q[1], q[2])]
           run == CHOOSE f : Runs(f)
<1>0. source.env \in BOOLEAN /\ source.terminal \in BOOLEAN /\ source.typed \in BOOLEAN
  BY DEF Endpoint!Sources
<1>1. N \in Nat
  BY DEF SshChallenges
<1>2. start \in X
  OBVIOUS
<1>3. ASSUME NEW n \in 1..N, NEW at \in X
      PROVE  After(n, at) \in X
  <2>1. Endpoint!get(at.asked, source) \in Asked
    BY <1>0 DEF Endpoint!get
  <2> DEFINE asks == Endpoint!get(at.asked, source)
             told == at.told \cup (IF asks.known THEN {n} ELSE {})
  <2>2. n \in Nat /\ at.told \in SUBSET Nat
    OBVIOUS
  <2>3. told \in SUBSET Nat
    BY <2>2
  <2> HIDE DEF asks, told, Asked
  <2>4. [asked |-> asks, told |-> told] \in X
    BY <2>1, <2>3 DEF asks
  <2>5. Next1(n, at) = [asked |-> asks, told |-> told]
    BY Zenon DEF asks, told
  <2> HIDE DEF Next1, X
  <2> QED
    BY <2>4, <2>5
<1>4. step \in [(1..N) \X X -> X]
  <2> HIDE DEF After, X, N
  <2> QED
    BY <1>3
<1>5. PICK f \in [0..N -> X] : Walks(f, N, start, step)
  <2> HIDE DEF step, X, start, N
  <2> QED
    BY <1>1, <1>2, <1>4, WalkExists
<1>6. Runs(f)
  <2>1. ASSUME NEW n \in 0..N, n # 0
        PROVE  step[<<n, f[n - 1]>>] = After(n, f[n - 1])
    <3> HIDE DEF N, X, After
    <3>1. n \in 1..N /\ n - 1 \in 0..N
      BY <1>1, <2>1
    <3>2. f[n - 1] \in X
      BY <1>5, <3>1
    <3> QED
      BY <3>1, <3>2
  <2> HIDE DEF step, X, start, N
  <2> QED
    BY <1>5, <2>1, Zenon DEF Walks
<1>7. Runs(run)
  <2> HIDE DEF Runs
  <2> QED
    BY <1>6, Zenon
<1>8. Endpoint!Answered(challenges, source) = run[N]
  BY Zenon DEF Endpoint!Answered
<1> HIDE DEF run
<1>9. run[0] = start /\ \A n \in 1..N : run[n] = After(n, run[n - 1])
  <2> HIDE DEF start, N
  <2>1. 0 \in 0..N /\ \A n \in 1..N : n \in 0..N /\ n # 0
    BY <1>1
  <2> QED
    BY <1>7, <2>1, Zenon
<1> DEFINE For(n) == {m \in 1..n : challenges[m] \in ForPassword}
           S == {n \in Nat : n <= N => Discreet(run[n], n, challenges, source)}
<1>10. 0 \in S
  <2>1. For(0) = {}
    OBVIOUS
  <2>2. run[0].asked = [done |-> FALSE, prompts |-> 0, known |-> FALSE] /\ run[0].told = {}
    BY <1>9
  <2> HIDE DEF start, For
  <2>3. run[0].asked.done = FALSE /\ run[0].asked.known = FALSE /\ run[0].asked.prompts = 0
    BY <2>2
  <2>4. run[0].asked.known = (run[0].asked.done /\ Knows(source))
    BY <2>3, Zenon
  <2>5. run[0].told = IF Knows(source) THEN For(0) ELSE {}
    BY <2>1, <2>2
  <2>6. run[0].asked.prompts = IF run[0].asked.done /\ ~source.env /\ source.terminal THEN 1 ELSE 0
    BY <2>3
  <2>7. Discreet(run[0], 0, challenges, source)
    BY <2>3, <2>4, <2>5, <2>6, Zenon DEF Discreet, For
  <2> QED
    BY <2>7
<1>11. ASSUME NEW n \in Nat, n \in S
       PROVE  n + 1 \in S
  <2> SUFFICES ASSUME n + 1 <= N
               PROVE  Discreet(run[n + 1], n + 1, challenges, source)
    OBVIOUS
  <2> DEFINE at == run[n]
             next == run[n + 1]
             mine == challenges[n + 1] \in ForPassword
  <2>1. n + 1 \in 1..N /\ n + 1 - 1 = n /\ n <= N
    BY <1>1
  <2>2. Discreet(at, n, challenges, source)
    BY <1>11, <2>1
  <2>3. next = After(n + 1, at)
    <3> HIDE DEF After, N
    <3> QED
      BY <1>9, <2>1
  <2>4. Endpoint!answerPasswordPrompt(challenges[n + 1]) <=> ~mine
    BY <2>1, RefusedOnes
  <2>5. For(n + 1) = For(n) \cup (IF mine THEN {n + 1} ELSE {})
    <3>1. \A m : m \in 1..n + 1 <=> m \in 1..n \/ m = n + 1
      OBVIOUS
    <3> QED
      BY <3>1
  <2> HIDE DEF N, at, next, mine, For, K
  <2>6. CASE ~mine
    <3>1. next = at
      BY <2>3, <2>4, <2>6
    <3>2. For(n + 1) = For(n)
      BY <2>5, <2>6
    <3>3. Discreet(at, n + 1, challenges, source)
      BY <2>2, <3>2, Zenon DEF Discreet, For
    <3> QED
      BY <3>1, <3>3 DEF next
  <2>7. CASE mine
    <3> DEFINE asks == Endpoint!get(at.asked, source)
    <3>1. next = [asked |-> asks, told |-> at.told \cup (IF asks.known THEN {n + 1} ELSE {})]
      BY <2>3, <2>4, <2>7, Zenon
    <3>2. /\ asks.done = TRUE /\ asks.known = K
          /\ asks.prompts = IF ~source.env /\ source.terminal THEN 1 ELSE 0
      BY <1>0, <2>2 DEF Discreet, Endpoint!get, Knows, K
    <3>3. at.told = IF K THEN For(n) ELSE {}
      BY <2>2, Zenon DEF Discreet, For, K
    <3> HIDE DEF asks
    <3>4. next.asked = asks /\ next.told = at.told \cup (IF asks.known THEN {n + 1} ELSE {})
      BY <3>1
    <3>5. next.told = IF K THEN For(n + 1) ELSE {}
      BY <2>5, <2>7, <3>2, <3>3, <3>4
    <3>6. next.told = IF Knows(source) THEN {m \in 1..n + 1 : challenges[m] \in ForPassword} ELSE {}
      BY <3>5, Zenon DEF K, For
    <3>7. K \in BOOLEAN
      BY DEF K, Knows
    <3>8. /\ next.asked.done = TRUE /\ next.asked.known = (next.asked.done /\ Knows(source))
          /\ next.asked.prompts = IF next.asked.done /\ ~source.env /\ source.terminal THEN 1 ELSE 0
      BY <3>2, <3>4, <3>7 DEF K
    <3>9. Discreet(next, n + 1, challenges, source)
      BY <3>6, <3>8, Zenon DEF Discreet
    <3> QED
      BY <3>9 DEF next
  <2> QED
    BY <2>6, <2>7
<1>12. Discreet(run[N], N, challenges, source)
  <2> HIDE DEF N
  <2>1. Nat \subseteq S
    <3> HIDE DEF S
    <3> QED
      BY <1>10, <1>11, AllNumbers
  <2> QED
    BY <1>1, <2>1
<1>13. run[N].asked.prompts <= 1 /\ (source.env => run[N].asked.prompts = 0)
  BY <1>0, <1>12 DEF Discreet
<1>14. DOMAIN challenges = 1..N
  BY DEF SshChallenges
<1>15. run[N].told = IF Knows(source) THEN {m \in DOMAIN challenges : challenges[m] \in ForPassword} ELSE {}
  BY <1>12, <1>14, Zenon DEF Discreet
<1> HIDE DEF N
<1> QED
  BY <1>8, <1>13, <1>15, Zenon DEF Endpoint!SecretKept, ForPassword, Knows

\* The line of a contact, the contacts that are the first with their host, and what
\* they leave in the file.
KnownLine(c) == <<c.host, c.host, c.key>>
Newcomers(contacts, n) == {i \in 1..n : \A j \in 1..i - 1 : contacts[j].host # contacts[i].host}
Known(contacts, n) == {KnownLine(contacts[i]) : i \in Newcomers(contacts, n)}
FirstOf(contacts, n) == Endpoint!First({i \in 1..n : contacts[i].host = contacts[n].host}, 0)

\* The first contact with the host of another one is a newcomer.
LEMMA FirstIsNew ==
  ASSUME NEW contacts, NEW n \in Nat \ {0}
  PROVE  /\ FirstOf(contacts, n) \in Newcomers(contacts, n)
         /\ contacts[FirstOf(contacts, n)].host = contacts[n].host
<1> DEFINE S == {i \in 1..n : contacts[i].host = contacts[n].host}
           m == Endpoint!First(S, 0)
<1>1. n \in S /\ S \subseteq Nat
  OBVIOUS
<1>2. m \in S /\ \A j \in S : m <= j
  <2> HIDE DEF S
  <2> QED
    BY <1>1, FirstPlace
<1>3. FirstOf(contacts, n) = m
  BY Zenon DEF FirstOf
<1> HIDE DEF m
<1>4. m \in 1..n /\ contacts[m].host = contacts[n].host
  BY <1>2
<1>5. ASSUME NEW j \in 1..m - 1
      PROVE  contacts[j].host # contacts[m].host
  <2>1. j \in 1..n /\ ~(m <= j)
    BY <1>4
  <2> QED
    BY <1>2, <1>4, <2>1
<1> QED
  BY <1>3, <1>4, <1>5 DEF Newcomers

\* Newcomers with one host are one contact.
LEMMA OneNewcomer ==
  ASSUME NEW contacts, NEW n \in Nat, NEW i \in Newcomers(contacts, n),
         NEW j \in Newcomers(contacts, n), contacts[i].host = contacts[j].host
  PROVE  i = j
<1>1. i \in 1..n /\ j \in 1..n /\ ~(j \in 1..i - 1) /\ ~(i \in 1..j - 1)
  BY DEF Newcomers
<1> QED
  BY <1>1

\* What the file says of a host is the key of its first contact.
LEMMA KnownRead ==
  ASSUME NEW contacts, NEW n \in Nat
  PROVE  LET store == Endpoint!readKnownHosts(Known(contacts, n)) IN
         /\ DOMAIN store = {contacts[i].host : i \in Newcomers(contacts, n)}
         /\ \A i \in Newcomers(contacts, n) :
              store[contacts[i].host] = <<contacts[i].host, contacts[i].key>>
<1> DEFINE K == Known(contacts, n)
           New == Newcomers(contacts, n)
           Of(h) == CHOOSE line \in K : line[1] = h
           store == Endpoint!readKnownHosts(K)
<1>1. /\ K = {KnownLine(contacts[i]) : i \in New}
      /\ \A i \in New : KnownLine(contacts[i])[1] = contacts[i].host
  BY DEF Known, KnownLine
<1>2. {line[1] : line \in K} = {contacts[i].host : i \in New}
  <2> HIDE DEF New, K
  <2> QED
    BY <1>1
<1>3. ASSUME NEW i \in New
      PROVE  Of(contacts[i].host) = KnownLine(contacts[i])
  <2> HIDE DEF K
  <2>1. KnownLine(contacts[i]) \in K /\ KnownLine(contacts[i])[1] = contacts[i].host
    BY <1>1
  <2>2. Of(contacts[i].host) \in K /\ Of(contacts[i].host)[1] = contacts[i].host
    BY <2>1
  <2>3. PICK j \in New : Of(contacts[i].host) = KnownLine(contacts[j])
    BY <1>1, <2>2
  <2>4. contacts[j].host = contacts[i].host
    BY <1>1, <2>2, <2>3
  <2>5. i = j
    BY <2>4, OneNewcomer
  <2> QED
    BY <2>3, <2>5
<1>4. store = [h \in {line[1] : line \in K} |-> Tail(Of(h))]
  BY Zenon DEF Endpoint!readKnownHosts
<1>5. \A i \in New : Tail(KnownLine(contacts[i])) = <<contacts[i].host, contacts[i].key>>
  BY DEF KnownLine
<1> HIDE DEF store, K, New, Of
<1>6. DOMAIN store = {contacts[i].host : i \in New}
  BY <1>2, <1>4
<1>7. \A i \in New : store[contacts[i].host] = <<contacts[i].host, contacts[i].key>>
  BY <1>2, <1>3, <1>4, <1>5
<1> QED
  BY <1>6, <1>7, Zenon DEF store, K, New

\* The name of a host in front of its line.
LEMMA TwiceNamed ==
  ASSUME NEW h, NEW k
  PROVE  <<h>> \o <<h, k>> = <<h, h, k>>
<1> DEFINE T == {h, k}
           line == <<h>> \o <<h, k>>
<1>1. <<h>> \in Seq(T) /\ <<h, k>> \in Seq(T)
  OBVIOUS
<1>2. line \in Seq(T) /\ Len(line) = 3 /\ line[1] = h /\ line[2] = h /\ line[3] = k
  BY <1>1
<1>3. \A q \in Seq(T) : Len(q) = 3 => q = <<q[1], q[2], q[3]>>
  <2> HIDE DEF T
  <2> QED
    OBVIOUS
<1> HIDE DEF line, T
<1>4. line = <<line[1], line[2], line[3]>>
  BY <1>2, <1>3
<1> QED
  BY <1>2, <1>4, Zenon DEF line

\* A connection leaves the file that all contacts so far leave, and succeeds just if it
\* shows the key of the first of its host (tofu).
LEMMA TofuStep ==
  ASSUME NEW contacts, NEW n \in Nat \ {0}
  PROVE  Endpoint!tofu(Known(contacts, n - 1), contacts[n])
           = [file |-> Known(contacts, n),
              ok |-> contacts[n].key = contacts[FirstOf(contacts, n)].key]
<1> DEFINE K == Known(contacts, n - 1)
           Old == Newcomers(contacts, n - 1)
           New == Newcomers(contacts, n)
           c == contacts[n]
           store == Endpoint!readKnownHosts(K)
           line == <<c.host, c.key>>
           grown == [h \in DOMAIN store \cup {c.host} |-> IF h = c.host THEN line ELSE store[h]]
           m == FirstOf(contacts, n)
<1>0. n - 1 \in Nat /\ 1..n = (1..n - 1) \cup {n} /\ n \notin 1..n - 1
  OBVIOUS
<1>1. /\ DOMAIN store = {contacts[i].host : i \in Old}
      /\ \A i \in Old : store[contacts[i].host] = <<contacts[i].host, contacts[i].key>>
  BY <1>0, KnownRead, Zenon
<1>2. Endpoint!tofu(K, c)
        = IF c.host \in DOMAIN store THEN [file |-> K, ok |-> store[c.host] = line]
          ELSE [file |-> Endpoint!writeKnownHosts(grown), ok |-> TRUE]
  BY Zenon DEF Endpoint!tofu
<1>3. m \in New /\ contacts[m].host = c.host
  BY FirstIsNew
<1>4. \A i \in 1..n - 1 : i \in New <=> i \in Old
  BY <1>0 DEF Newcomers
<1>5. Old \subseteq 1..n - 1 /\ New \subseteq 1..n
  BY DEF Newcomers
<1>6. n \in New <=> \A j \in 1..n - 1 : contacts[j].host # c.host
  BY <1>0 DEF Newcomers
<1>7. K = {KnownLine(contacts[i]) : i \in Old} /\ Known(contacts, n) = {KnownLine(contacts[i]) : i \in New}
  BY DEF Known
<1> HIDE DEF K, Old, New, store, m
<1>8. CASE c.host \in DOMAIN store
  <2>1. PICK i \in Old : contacts[i].host = c.host
    BY <1>1, <1>8
  <2>2. n \notin New
    BY <1>5, <1>6, <2>1
  <2>3. New = Old
    BY <1>0, <1>4, <1>5, <2>2
  <2>4. m = i
    BY <1>0, <1>3, <2>1, <2>3, OneNewcomer DEF Old, New
  <2>5. store[c.host] = <<c.host, contacts[m].key>>
    BY <1>1, <2>1, <2>4
  <2>6. (store[c.host] = line) = (c.key = contacts[m].key)
    <3> HIDE DEF c
    <3>1. store[c.host] = line <=> c.key = contacts[m].key
      BY <2>5
    <3> QED
      BY <3>1, Zenon
  <2>7. K = Known(contacts, n)
    BY <1>7, <2>3
  <2>8. Endpoint!tofu(K, c) = [file |-> K, ok |-> store[c.host] = line]
    BY <1>2, <1>8, Zenon
  <2> QED
    BY <2>6, <2>7, <2>8, Zenon DEF K, c, m
<1>9. CASE c.host \notin DOMAIN store
  <2>1. \A i \in Old : contacts[i].host # c.host
    BY <1>1, <1>9
  <2>2. m = n
    <3>1. m \in 1..n /\ (m \in 1..n - 1 => m \in Old)
      BY <1>3, <1>4, <1>5
    <3> QED
      BY <1>0, <1>3, <2>1, <3>1
  <2>3. New = Old \cup {n}
    BY <1>0, <1>3, <1>4, <1>5, <2>2
  <2>4. /\ DOMAIN grown = {contacts[i].host : i \in New}
        /\ \A i \in New : grown[contacts[i].host] = <<contacts[i].host, contacts[i].key>>
    BY <1>1, <2>1, <2>3
  <2>5. \A i \in New : <<contacts[i].host>> \o grown[contacts[i].host] = KnownLine(contacts[i])
    <3> HIDE DEF grown
    <3> QED
      BY <2>4, TwiceNamed, Zenon DEF KnownLine
  <2>6. Endpoint!writeKnownHosts(grown) = {<<h>> \o grown[h] : h \in DOMAIN grown}
    BY Zenon DEF Endpoint!writeKnownHosts
  <2> HIDE DEF grown
  <2>7. Endpoint!writeKnownHosts(grown) = Known(contacts, n)
    <3> DEFINE W == Endpoint!writeKnownHosts(grown)
               Line(i) == <<contacts[i].host>> \o grown[contacts[i].host]
               L == {Line(i) : i \in New}
    <3>1. W \subseteq L
      <4> SUFFICES ASSUME NEW h \in DOMAIN grown
                   PROVE  <<h>> \o grown[h] \in L
        BY <2>6, Zenon
      <4>1. PICK i \in New : h = contacts[i].host
        BY <2>4
      <4>2. <<h>> \o grown[h] = Line(i)
        BY <4>1, Zenon
      <4> HIDE DEF Line
      <4> QED
        BY <4>2, Zenon
    <3>2. L \subseteq W
      <4> SUFFICES ASSUME NEW i \in New
                   PROVE  Line(i) \in W
        BY Zenon
      <4>1. contacts[i].host \in DOMAIN grown
        BY <2>4
      <4> QED
        BY <2>6, <4>1, Zenon
    <3>3. L = Known(contacts, n)
      <4>1. \A i \in New : Line(i) = KnownLine(contacts[i])
        BY <2>5, Zenon
      <4> HIDE DEF Line
      <4> QED
        BY <1>7, <4>1
    <3> HIDE DEF L
    <3> QED
      BY <3>1, <3>2, <3>3
  <2>8. Endpoint!tofu(K, c) = [file |-> Known(contacts, n), ok |-> TRUE]
    BY <1>2, <1>9, <2>7, Zenon
  <2>9. TRUE = (contacts[n].key = contacts[FirstOf(contacts, n)].key)
    BY <2>2 DEF m
  <2> QED
    BY <2>8, <2>9, Zenon DEF K, c
<1> QED
  BY <1>8, <1>9

\* A host is taken at its word once, and held to it over all later connections,
\* whatever other hosts are seen in between.
THEOREM HostsRemembered ==
  ASSUME NEW C, NEW contacts \in Seq(C)
  PROVE  Endpoint!KeysRemembered(contacts)
<1> DEFINE N == Len(contacts)
           fresh == [file |-> {}, ok |-> TRUE]
           Kept(f) == f = [n \in 0..N |-> IF n = 0 THEN fresh
                                          ELSE Endpoint!tofu(f[n - 1].file, contacts[n])]
           Told(n) == [file |-> Known(contacts, n),
                       ok |-> contacts[n].key = contacts[FirstOf(contacts, n)].key]
           g == [n \in 0..N |-> IF n = 0 THEN fresh ELSE Told(n)]
           book == CHOOSE f : Kept(f)
<1>1. N \in Nat /\ DOMAIN contacts = 1..N
  OBVIOUS
<1>2. Known(contacts, 0) = {}
  BY DEF Known, Newcomers
<1>3. \A n \in 1..N : Endpoint!tofu(Known(contacts, n - 1), contacts[n]) = Told(n)
  <2>1. \A n \in 1..N : n \in Nat \ {0}
    BY <1>1
  <2> HIDE DEF N
  <2> QED
    BY <2>1, TofuStep, Zenon
<1>4. Kept(g)
  <2>1. ASSUME NEW n \in 0..N
        PROVE  g[n].file = Known(contacts, n)
    BY <1>2
  <2>2. ASSUME NEW n \in 0..N, n # 0
        PROVE  Told(n) = Endpoint!tofu(g[n - 1].file, contacts[n])
    <3>1. n - 1 \in 0..N /\ n \in 1..N
      BY <1>1, <2>2
    <3> HIDE DEF g, Told, N
    <3>2. g[n - 1].file = Known(contacts, n - 1)
      BY <2>1, <3>1
    <3> QED
      BY <1>3, <3>1, <3>2
  <2> DEFINE Onward(n) == Endpoint!tofu(g[n - 1].file, contacts[n])
  <2>3. \A n \in 0..N : n # 0 => Told(n) = Onward(n)
    BY <2>2
  <2>4. g = [n \in 0..N |-> IF n = 0 THEN fresh ELSE Onward(n)]
    <3> HIDE DEF Told, N, Onward, fresh
    <3>1. [n \in 0..N |-> IF n = 0 THEN fresh ELSE Told(n)]
            = [n \in 0..N |-> IF n = 0 THEN fresh ELSE Onward(n)]
      BY <2>3
    <3> QED
      BY <3>1, Zenon
  <2> HIDE DEF g, Told, N
  <2> QED
    BY <2>4, Zenon
<1>5. Kept(book)
  <2> HIDE DEF Kept, g
  <2> QED
    BY <1>4, Zenon
<1> HIDE DEF book
<1>6. book[0] = fresh /\ \A n \in 1..N : book[n] = Endpoint!tofu(book[n - 1].file, contacts[n])
  <2>1. 0 \in 0..N /\ \A n \in 1..N : n \in 0..N /\ n # 0
    BY <1>1
  <2> HIDE DEF fresh, N
  <2> QED
    BY <1>5, <2>1, Zenon
<1> DEFINE S == {n \in Nat : n <= N => /\ book[n].file = Known(contacts, n)
                                       /\ n # 0 => book[n] = Told(n)}
<1>7. 0 \in S
  <2>1. book[0].file = Known(contacts, 0)
    BY <1>2, <1>6
  <2> HIDE DEF Told, N
  <2> QED
    BY <2>1
<1>8. ASSUME NEW n \in Nat, n \in S
      PROVE  n + 1 \in S
  <2> SUFFICES ASSUME n + 1 <= N
               PROVE  /\ book[n + 1].file = Known(contacts, n + 1)
                      /\ book[n + 1] = Told(n + 1)
    OBVIOUS
  <2>1. n + 1 \in 1..N /\ n + 1 - 1 = n /\ n <= N
    BY <1>1
  <2>2. book[n].file = Known(contacts, n)
    <3> HIDE DEF Told
    <3> QED
      BY <1>8, <2>1
  <2>3. book[n + 1] = Told(n + 1)
    <3> HIDE DEF Told, N
    <3>1. book[n + 1] = Endpoint!tofu(Known(contacts, n), contacts[n + 1])
      BY <1>6, <2>1, <2>2
    <3> QED
      BY <1>3, <2>1, <3>1
  <2> QED
    BY <2>3
<1>9. \A n \in 1..N : book[n] = Told(n)
  <2>1. Nat \subseteq S
    <3> HIDE DEF S
    <3> QED
      BY <1>7, <1>8, AllNumbers
  <2>2. \A n \in 1..N : n \in Nat /\ n <= N /\ n # 0
    BY <1>1
  <2> HIDE DEF N, Told
  <2> QED
    BY <2>1, <2>2
<1>10. \A n \in 1..N : book[n].ok = (contacts[n].key = contacts[FirstOf(contacts, n)].key)
  <2> SUFFICES ASSUME NEW n \in 1..N
               PROVE  book[n].ok = (contacts[n].key = contacts[FirstOf(contacts, n)].key)
    OBVIOUS
  <2>1. book[n].ok = Told(n).ok
    <3> HIDE DEF Told, N
    <3> QED
      BY <1>9, Zenon
  <2>2. Told(n).ok = (contacts[n].key = contacts[FirstOf(contacts, n)].key)
    BY Zenon
  <2> HIDE DEF Told
  <2> QED
    BY <2>1, <2>2, Zenon
<1> HIDE DEF N
<1>11. \A n \in DOMAIN contacts : book[n].ok = (contacts[n].key = contacts[FirstOf(contacts, n)].key)
  BY <1>1, <1>10, Zenon
<1> QED
  BY <1>11, Zenon DEF Endpoint!KeysRemembered, book, FirstOf, N

(***************************************************************************)
(* Releases                                                                *)
(***************************************************************************)
\* A repository that passes has an owner and a name and leads nowhere else
\* (ValidateRepo).
LEMMA ReposSound ==
  ASSUME NEW s \in Seq({"a", "-", ".", "/", "!"})
  PROVE  Listing!RepoSound(s)
<1> SUFFICES ASSUME Listing!ValidateRepo(s)
             PROVE  /\ Listing!Cardinality(Listing!Slashes(s)) = 1
                    /\ s[1] = "a" /\ \A i \in DOMAIN s : s[i] # "!"
                    /\ ~\E i \in Listing!Slashes(s) : SubSeq(s, i + 1, Len(s)) \in {<<".">>, <<".", ".">>}
  BY DEF Listing!RepoSound
<1> DEFINE i == Listing!CutAt(s)
           owner == SubSeq(s, 1, i - 1)
           name == SubSeq(s, i + 1, Len(s))
<1>1. i \in Listing!Slashes(s) /\ \A j \in Listing!Slashes(s) : i <= j
  <2>1. Listing!Slashes(s) # {} /\ Listing!Slashes(s) \subseteq Nat
    BY DEF Listing!ValidateRepo, Listing!Slashes
  <2> QED
    BY <2>1, SmallestOf DEF Listing!CutAt
<1>2. Listing!githubOwner(owner) /\ Listing!githubRepoName(name)
  BY DEF Listing!ValidateRepo
<1> HIDE DEF i
<1>3. i \in 1..Len(s) /\ s[i] = "/" /\ Len(s) \in Nat
  BY <1>1 DEF Listing!Slashes
<1>4. /\ Len(owner) = i - 1 /\ \A k \in 1..i - 1 : owner[k] = s[k]
      /\ Len(name) = Len(s) - i /\ \A k \in i + 1..Len(s) : name[k - i] = s[k]
  BY <1>3
<1>5. \A k \in 1..i - 1 : s[k] \in {"a", "-"}
  <2>1. DOMAIN owner = 1..i - 1
    BY <1>3
  <2> QED
    BY <1>2, <1>4, <2>1 DEF Listing!githubOwner
<1>6. \A k \in i + 1..Len(s) : s[k] \in {"a", ".", "-"}
  <2>1. \A k \in i + 1..Len(s) : k - i \in DOMAIN name
    BY <1>3
  <2> QED
    BY <1>2, <1>4, <2>1 DEF Listing!githubRepoName
<1>7. s[1] = "a"
  <2>1. owner # <<>> /\ owner[1] = "a"
    BY <1>2 DEF Listing!githubOwner
  <2>2. 1 \in 1..i - 1
    BY <1>3, <2>1
  <2> QED
    BY <1>4, <2>1, <2>2
<1>8. Listing!Slashes(s) = {i}
  <2>1. \A k \in DOMAIN s : k # i => s[k] # "/"
    BY <1>3, <1>5, <1>6
  <2> QED
    BY <1>3, <2>1 DEF Listing!Slashes
<1>9. Listing!Cardinality(Listing!Slashes(s)) = 1
  <2>1. Listing!Cardinality({i}) = Cardinality({i})
    BY Zenon DEF Listing!Cardinality, Cardinality
  <2> QED
    BY <1>8, <2>1, FS_Singleton
<1>10. \A k \in DOMAIN s : s[k] # "!"
  BY <1>3, <1>5, <1>6
<1>11. name \notin {<<".">>, <<".", ".">>}
  BY <1>2 DEF Listing!githubRepoName
<1> QED
  BY <1>7, <1>8, <1>9, <1>10, <1>11

\* Any chain of redirects.
RedirectHops == Seq([tls : BOOLEAN, host : {"github.com", "x.githubusercontent.com", "elsewhere"}])

\* Every hop that is followed, and all before it, are on a host of GitHub and under TLS
\* (githubRedirect).
LEMMA HopsStay ==
  ASSUME NEW hops \in RedirectHops
  PROVE  Listing!HopsSound(hops)
<1> DEFINE N == Len(hops)
           Trusted(k) == k <= Listing!MaxHops /\ hops[k].tls /\ Listing!githubDownloadHost(hops[k].host)
           Follows(f) == f = [n \in 0..N |-> n = 0 \/ (f[n - 1] /\ n <= Listing!MaxHops /\ hops[n].tls
                                                       /\ Listing!githubDownloadHost(hops[n].host))]
           ok == CHOOSE f : Follows(f)
           g == [n \in 0..N |-> \A k \in 1..n : Trusted(k)]
<1>1. N \in Nat /\ DOMAIN hops = 1..N
  BY DEF RedirectHops
<1>2. Follows(g)
  <2>1. ASSUME NEW n \in 0..N
        PROVE  g[n] = (n = 0 \/ (g[n - 1] /\ Trusted(n)))
    <3> HIDE DEF N, Trusted
    <3>1. CASE n = 0
      <4>1. 1..n = {}
        BY <3>1
      <4>2. g[n] = (\A k \in 1..n : Trusted(k))
        OBVIOUS
      <4> QED
        BY <3>1, <4>1, <4>2, Zenon
    <3>2. CASE n # 0
      <4>1. n - 1 \in 0..N /\ \A k : k \in 1..n <=> (k \in 1..n - 1 \/ k = n)
        BY <1>1, <3>2
      <4>2. g[n - 1] = \A k \in 1..n - 1 : Trusted(k)
        BY <4>1
      <4>3. g[n] = \A k \in 1..n : Trusted(k)
        OBVIOUS
      <4> QED
        BY <3>2, <4>1, <4>2, <4>3, Zenon
    <3> QED
      BY <3>1, <3>2
  <2> QED
    BY <2>1, Zenon
<1>3. Follows(ok)
  <2> HIDE DEF Follows, g
  <2> QED
    BY <1>2, Zenon
<1>4. Listing!githubRedirect(hops) = [n \in DOMAIN hops |-> ok[n]]
  BY Zenon DEF Listing!githubRedirect
<1> HIDE DEF ok, g
<1> DEFINE S == {n \in Nat : n <= N => (ok[n] => \A k \in 1..n : Trusted(k))}
<1>5. 0 \in S
  OBVIOUS
<1>6. ASSUME NEW n \in Nat, n \in S
      PROVE  n + 1 \in S
  <2>1. n + 1 <= N => n + 1 \in 0..N /\ n + 1 # 0 /\ n + 1 - 1 = n /\ n <= N
    BY <1>1
  <2>2. \A m \in 0..N : ok[m] = (m = 0 \/ (ok[m - 1] /\ Trusted(m)))
    <3> HIDE DEF N
    <3> QED
      BY <1>3, Zenon
  <2>3. ASSUME n + 1 <= N, ok[n + 1]
        PROVE  ok[n] /\ Trusted(n + 1)
    <3> HIDE DEF Trusted, N
    <3>1. \A m \in 0..N : ok[m] => m = 0 \/ (ok[m - 1] /\ Trusted(m))
      BY <2>2, Zenon
    <3> DEFINE m == n + 1
    <3>2. m \in 0..N /\ m # 0 /\ m - 1 = n
      BY <2>1, <2>3
    <3>3. ok[m]
      BY <2>3
    <3> HIDE DEF m
    <3>4. ok[m - 1] /\ Trusted(m)
      BY <3>1, <3>2, <3>3
    <3> QED
      BY <3>2, <3>4 DEF m
  <2> SUFFICES ASSUME n + 1 <= N, ok[n + 1], NEW k \in 1..n + 1
               PROVE  Trusted(k)
    OBVIOUS
  <2>4. ok[n] /\ Trusted(n + 1)
    BY <2>3
  <2> HIDE DEF Trusted, N
  <2> QED
    BY <1>6, <2>1, <2>4
<1>7. ASSUME NEW n \in DOMAIN hops, ok[n]
      PROVE  \A k \in 1..n : Trusted(k)
  <2>1. Nat \subseteq S
    <3> HIDE DEF S
    <3> QED
      BY <1>5, <1>6, AllNumbers
  <2> HIDE DEF Trusted
  <2>2. n \in Nat /\ n <= N
    BY <1>1
  <2> HIDE DEF N
  <2> QED
    BY <1>7, <2>1, <2>2
<1>8. ASSUME NEW n \in DOMAIN hops, ok[n]
      PROVE  n <= Listing!MaxHops /\ \A k \in 1..n : hops[k].tls /\ hops[k].host # "elsewhere"
  <2>1. n \in 1..n
    BY <1>1
  <2> QED
    BY <1>7, <1>8, <2>1 DEF Listing!githubDownloadHost
<1> QED
  BY <1>4, <1>8, Zenon DEF Listing!HopsSound

\* A body that is accepted is the whole body (fetch).
LEMMA BodiesWhole ==
  ASSUME NEW size \in Nat, NEW limit \in Nat
  PROVE  Listing!WholeBody(size, limit)
BY DEF Listing!WholeBody, Listing!fetch

\* A line names the file or another one.
LEMMA LinesListed ==
  ASSUME NEW X, NEW listing \in Seq(X), \A x \in X : x.base \in {"asset", "other"}
  PROVE  /\ DOMAIN listing = 1..Len(listing) /\ Len(listing) \in Nat
         /\ \A k \in DOMAIN listing : listing[k].base \in {"asset", "other"}
OBVIOUS

\* The sum comes from the first line about the file that is well-formed (ChecksumFor).
LEMMA SumsSound ==
  ASSUME NEW listing \in Seq(Listing!ListingLines)
  PROVE  Listing!SumSound(listing)
<1> DEFINE about == {i \in DOMAIN listing : /\ listing[i].fields = 2 /\ listing[i].base = "asset"
                                            /\ listing[i].sum # "short"}
           i == CHOOSE i \in about : \A j \in about : i <= j
<1>1. /\ DOMAIN listing = 1..Len(listing) /\ Len(listing) \in Nat
      /\ \A k \in DOMAIN listing : listing[k].base \in {"asset", "other"}
  <2>1. \A x \in Listing!ListingLines : x.base \in {"asset", "other"}
    BY DEF Listing!ListingLines
  <2> QED
    BY <2>1, LinesListed
<1>2. Listing!ChecksumFor(listing) = IF about = {} THEN "none" ELSE listing[i].sum
  BY Zenon DEF Listing!ChecksumFor
<1>3. about # {} => i \in about /\ \A j \in about : i <= j
  <2>1. about \subseteq Nat
    BY <1>1
  <2> HIDE DEF about
  <2> QED
    BY <2>1, SmallestOf
<1> HIDE DEF i
<1>4. ASSUME about # {}
      PROVE  \A j \in 1..i - 1 : listing[j].base = "other" \/ listing[j].fields # 2 \/ listing[j].sum = "short"
  <2> SUFFICES ASSUME NEW j \in 1..i - 1, j \in about
               PROVE  FALSE
    BY <1>1, <1>3, <1>4
  <2>1. i \in Nat
    BY <1>1, <1>3, <1>4
  <2> HIDE DEF about
  <2> QED
    BY <1>3, <1>4, <2>1
<1> QED
  BY <1>2, <1>3, <1>4 DEF Listing!SumSound

(***************************************************************************)
(* Charts                                                                  *)
(***************************************************************************)
\* The charts count with the same Cardinality.
LEMMA ChartSize == \A S : Chart!Cardinality(S) = Cardinality(S)
BY Zenon DEF Chart!Cardinality, Cardinality

\* A set of numbers under a bound has a largest one.
LEMMA LargestOf ==
  ASSUME NEW n \in Nat, NEW S, S \subseteq 0..n, S # {}
  PROVE  Chart!Max(S) \in S /\ \A y \in S : Chart!Max(S) >= y
<1> DEFINE Below == {n - y : y \in S}
<1>1. PICK m \in Below : \A y \in Below : m <= y
  <2>1. Below \subseteq Nat /\ Below # {}
    <3>1. \A y \in S : y \in 0..n
      OBVIOUS
    <3>2. \A y \in S : n - y \in Nat
      BY <3>1
    <3> QED
      BY <3>2
  <2> HIDE DEF Below
  <2> QED
    BY <2>1, SmallestOf
<1>2. PICK x \in S : m = n - x
  BY <1>1
<1>3. \A y \in S : x >= y
  <2> TAKE y \in S
  <2>1. n - y \in Below
    OBVIOUS
  <2> HIDE DEF Below
  <2>2. n - x <= n - y
    BY <1>1, <1>2, <2>1
  <2> QED
    BY <2>2
<1> QED
  BY <1>3, Zenon DEF Chart!Max

\* A function of columns has a largest value.
LEMMA Highest ==
  ASSUME NEW w \in Nat \ {0}, NEW cols \in [1..w -> Nat]
  PROVE  \E n \in Nat : \A j \in 1..w : cols[j] <= n
<1> DEFINE S == {k \in Nat : \E n \in Nat : \A j \in 1..w : j <= k => cols[j] <= n}
<1>1. 0 \in S
  OBVIOUS
<1>2. ASSUME NEW k \in Nat, k \in S
      PROVE  k + 1 \in S
  <2>1. PICK n \in Nat : \A j \in 1..w : j <= k => cols[j] <= n
    BY <1>2
  <2>2. CASE k + 1 \in 1..w
    <3>1. cols[k + 1] \in Nat /\ n + cols[k + 1] \in Nat
      BY <2>2
    <3>2. \A j \in 1..w : j <= k + 1 => cols[j] <= n + cols[k + 1]
      <4> TAKE j \in 1..w
      <4>1. cols[j] \in Nat /\ (j <= k + 1 => j <= k \/ j = k + 1)
        BY <2>1
      <4> QED
        BY <2>1, <3>1, <4>1
    <3>3. \E b \in Nat : \A j \in 1..w : j <= k + 1 => cols[j] <= b
      BY <3>1, <3>2
    <3> QED
      BY <3>3
  <2>3. CASE k + 1 \notin 1..w
    <3>1. \A j \in 1..w : j <= k + 1 => j <= k
      BY <2>3
    <3>2. \E b \in Nat : \A j \in 1..w : j <= k + 1 => cols[j] <= b
      BY <2>1, <3>1
    <3> QED
      BY <3>2
  <2> QED
    BY <2>2, <2>3
<1>3. w \in S
  <2> HIDE DEF S
  <2> QED
    BY <1>1, <1>2, AllNumbers
<1> QED
  BY <1>3

\* Results in the order of their times.
Landings == {p \in Seq([at : Nat, rate : Nat]) : p # <<>> /\ \A i \in 2..Len(p) : p[i - 1].at <= p[i].at}

LEMMA InOrder ==
  ASSUME NEW p \in Landings
  PROVE  \A i, j \in DOMAIN p : i <= j => p[i].at <= p[j].at
<1> DEFINE Row == [at : Nat, rate : Nat]
           S == {d \in Nat : \A i \in DOMAIN p : i + d \in DOMAIN p => p[i].at <= p[i + d].at}
<1>0. /\ Len(p) \in Nat /\ DOMAIN p = 1..Len(p) /\ \A i \in DOMAIN p : p[i].at \in Nat
      /\ \A i \in 2..Len(p) : p[i - 1].at <= p[i].at
  <2>1. p \in Seq(Row) /\ \A i \in 2..Len(p) : p[i - 1].at <= p[i].at
    BY DEF Landings
  <2>2. \A x \in Row : x.at \in Nat
    OBVIOUS
  <2> HIDE DEF Row
  <2>3. Len(p) \in Nat /\ DOMAIN p = 1..Len(p) /\ \A i \in DOMAIN p : p[i] \in Row
    BY <2>1
  <2> QED
    BY <2>1, <2>2, <2>3
<1>1. 0 \in S
  BY <1>0
<1>2. ASSUME NEW d \in Nat, d \in S
      PROVE  d + 1 \in S
  <2> SUFFICES ASSUME NEW i \in DOMAIN p, i + (d + 1) \in DOMAIN p
               PROVE  p[i].at <= p[i + (d + 1)].at
    OBVIOUS
  <2>1. i + d \in DOMAIN p /\ i + (d + 1) \in 2..Len(p) /\ i + (d + 1) - 1 = i + d
    BY <1>0
  <2>2. p[i].at <= p[i + d].at /\ p[i + d].at <= p[i + (d + 1)].at
    BY <1>0, <1>2, <2>1
  <2> QED
    BY <1>0, <2>1, <2>2, SMTT(30)
<1>3. Nat \subseteq S
  <2> HIDE DEF S
  <2> QED
    BY <1>1, <1>2, AllNumbers
<1>4. ASSUME NEW i \in DOMAIN p, NEW j \in DOMAIN p, i <= j
      PROVE  p[i].at <= p[j].at
  <2>1. j - i \in Nat /\ i + (j - i) = j
    BY <1>0, <1>4
  <2>2. j - i \in S
    <3> HIDE DEF S
    <3> QED
      BY <1>3, <2>1
  <2>3. i + (j - i) \in DOMAIN p => p[i].at <= p[i + (j - i)].at
    BY <2>2
  <2> QED
    BY <2>1, <2>3
<1> QED
  BY <1>4

\* A column holds the newest result that had landed by its end (probeSeries).
THEOREM ProbesHeld ==
  ASSUME NEW p \in Landings, NEW cadence \in Nat
  PROVE  Chart!Held(p, cadence)
<1> DEFINE N == Len(p)
           start == p[N].at - (Width - 1) * cadence
           Passed(j) == {i \in DOMAIN p : \A k \in 1..i : p[k].at < start + j * cadence}
           Landed(j) == {i \in DOMAIN p : p[i].at < p[N].at - (Width - 1 - j) * cadence}
           Count(j) == Chart!Cardinality(Passed(j))
           grid == Chart!probeSeries(p, cadence)
<1>0. /\ N \in Nat \ {0} /\ DOMAIN p = 1..N /\ \A i \in DOMAIN p : p[i].at \in Nat
      /\ Width \in Nat \ {0}
  <2> DEFINE Row == [at : Nat, rate : Nat]
  <2>1. p \in Seq(Row) /\ p # <<>>
    BY DEF Landings
  <2>2. \A x \in Row : x.at \in Nat
    OBVIOUS
  <2> HIDE DEF Row
  <2>3. Len(p) \in Nat \ {0} /\ DOMAIN p = 1..Len(p) /\ \A i \in DOMAIN p : p[i] \in Row
    BY <2>1
  <2> QED
    BY <2>2, <2>3, SurfaceAssumption DEF SurfaceAssumption
<1>1. \A j \in 1..Width : start + j * cadence = p[N].at - (Width - 1 - j) * cadence
  <2> TAKE j \in 1..Width
  <2>1. /\ p[N].at \in Int /\ cadence \in Int /\ j \in Int /\ Width \in Int
        /\ \A a, b, c, d \in Int : a - (b - 1) * c + d * c = a - (b - 1 - d) * c
    BY <1>0
  <2> QED
    BY <2>1
<1>2. ASSUME NEW j \in 1..Width
      PROVE  Passed(j) = Landed(j)
  <2>1. start + j * cadence \in Int
    BY <1>0
  <2> DEFINE X == start + j * cadence
  <2>2. X = p[N].at - (Width - 1 - j) * cadence
    BY <1>1
  <2>3. \A i \in DOMAIN p : (\A k \in 1..i : p[k].at < X) <=> p[i].at < X
    <3> HIDE DEF X, N
    <3> TAKE i \in DOMAIN p
    <3>1. i \in 1..i /\ \A k \in 1..i : k \in DOMAIN p /\ k <= i /\ p[k].at <= p[i].at
      <4>1. i \in 1..i /\ \A k \in 1..i : k \in DOMAIN p /\ k <= i
        BY <1>0
      <4> QED
        BY <4>1, InOrder
    <3>2. X \in Int
      BY <2>1 DEF X
    <3> QED
      BY <1>0, <3>1, <3>2
  <2>4. Passed(j) = {i \in DOMAIN p : \A k \in 1..i : p[k].at < X}
    OBVIOUS
  <2>5. Landed(j) = {i \in DOMAIN p : p[i].at < X}
    BY <2>2
  <2> HIDE DEF X, Passed, Landed
  <2> QED
    BY <2>3, <2>4, <2>5
<1>3. ASSUME NEW j \in 1..Width
      PROVE  /\ Landed(j) = {} => Count(j) = 0
             /\ Landed(j) # {} => Count(j) = Chart!Max(Landed(j)) /\ Count(j) # 0
  <2> DEFINE L == Landed(j)
  <2>1. L \subseteq 1..N /\ \A i \in L : \A k \in 1..i : k \in L
    <3>1. L = Passed(j) /\ \A i \in DOMAIN p : i \in Nat
      BY <1>0, <1>2, SMTT(30)
    <3>2. \A i \in Passed(j) : i \in 1..N /\ \A k \in 1..i : k \in Passed(j)
      <4> SUFFICES ASSUME NEW i \in Passed(j), NEW k \in 1..i
                   PROVE  i \in 1..N /\ k \in Passed(j)
        BY <1>0
      <4>1. i \in 1..N /\ \A g \in 1..i : p[g].at < start + j * cadence
        BY <1>0
      <4>2. k \in DOMAIN p /\ \A g \in 1..k : g \in 1..i
        BY <1>0, <4>1
      <4> QED
        BY <4>1, <4>2
    <3> HIDE DEF Passed, L
    <3> QED
      BY <3>1, <3>2
  <2>2. Count(j) = Cardinality(L)
    <3>1. Count(j) = Chart!Cardinality(L)
      <4> HIDE DEF Passed, Landed
      <4> QED
        BY <1>2
    <3> QED
      BY <3>1, ChartSize, Zenon
  <2> HIDE DEF L, Passed
  <2>3. CASE L = {}
    BY <2>2, <2>3, FS_EmptySet DEF L
  <2>4. CASE L # {}
    <3> DEFINE m == Chart!Max(L)
    <3>1. m \in L /\ \A y \in L : m >= y
      <4>1. N \in Nat /\ L \subseteq 0..N
        BY <1>0, <2>1
      <4> QED
        BY <2>4, <4>1, LargestOf
    <3> HIDE DEF m
    <3>2. L = 1..m /\ m \in Nat \ {0}
      <4>1. m \in 1..N /\ \A k \in 1..m : k \in L
        BY <2>1, <3>1
      <4>2. \A y \in L : y \in 1..N /\ m >= y
        BY <2>1, <3>1
      <4>3. \A y \in L : y \in 1..m
        BY <1>0, <4>1, <4>2
      <4>4. m \in Nat \ {0}
        BY <1>0, <4>1
      <4>5. L \subseteq 1..m /\ 1..m \subseteq L
        BY <4>1, <4>3
      <4> QED
        BY <4>4, <4>5
    <3>3. Cardinality(1..m) = m
      BY <3>2, FS_Interval
    <3> QED
      BY <2>2, <2>4, <3>2, <3>3 DEF L, m
  <2> QED
    BY <2>3, <2>4
<1>4. grid = [j \in 1..Width |-> IF Count(j) = 0 THEN 0 ELSE p[Count(j)].rate]
  BY Zenon DEF Chart!probeSeries, Chart!Columns
<1> HIDE DEF grid, Count, Landed, Passed
<1>5. \A j \in 1..Width : grid[j] = IF Landed(j) = {} THEN 0 ELSE p[Chart!Max(Landed(j))].rate
  BY <1>3, <1>4
<1> QED
  BY <1>5, Zenon DEF Chart!Held, Chart!Columns, grid, Landed, N

\* Times are as far apart as their factors.
LEMMA Scaled ==
  ASSUME NEW a \in Nat, NEW b \in Nat, NEW c \in Nat, a <= b
  PROVE  a * c <= b * c
OBVIOUS

\* Columns of whole numbers have a peak that is one of them, or 1 where all are zero
\* (tailCols).
LEMMA PeakIsHighest ==
  ASSUME NEW cols \in [Chart!Columns -> Nat]
  PROVE  Chart!Peak(cols) \in Nat \ {0} /\ \A j \in Chart!Columns : cols[j] <= Chart!Peak(cols)
<1> DEFINE V == {cols[j] : j \in DOMAIN cols}
           top == Chart!Max(V)
<1>0. Width \in Nat \ {0} /\ Chart!Columns = 1..Width
  BY SurfaceAssumption DEF SurfaceAssumption, Chart!Columns
<1>1. PICK n \in Nat : \A j \in 1..Width : cols[j] <= n
  BY <1>0, Highest
<1>2. V \subseteq 0..n /\ V # {}
  BY <1>0, <1>1
<1>3. top \in V /\ \A y \in V : top >= y
  <2> HIDE DEF V
  <2> QED
    BY <1>2, LargestOf
<1>4. Chart!Peak(cols) = IF top <= 0 THEN 1 ELSE top
  BY Zenon DEF Chart!Peak
<1> HIDE DEF top
<1>5. top \in Nat /\ \A j \in Chart!Columns : cols[j] <= top
  BY <1>2, <1>3
<1> QED
  BY <1>4, <1>5

\* The peak fills its column, a higher value has no fewer dots, and a guide is drawn only
\* where there are none, in charts of any height (BrailleChart).
THEOREM DotsDrawn ==
  ASSUME NEW vals \in Seq(Nat), NEW h \in Nat \ {0}, vals # <<>>
  PROVE  Chart!Drawn(vals, h)
<1> DEFINE cols == Chart!tailCols(vals, Width)
           peak == Chart!Peak(cols)
           rows == 0..4 * h - 1
           Lit(v) == {dy \in rows : (4 * h - dy) * peak <= v * 4 * h}
           Dots(v) == Chart!BrailleChart(v, peak, h)
<1>0. /\ Width \in Nat \ {0} /\ Chart!Columns = 1..Width /\ Len(vals) \in Nat \ {0}
      /\ \A k \in 1..Len(vals) : vals[k] \in Nat
  BY SurfaceAssumption DEF SurfaceAssumption, Chart!Columns
<1>1. /\ cols = [j \in 1..Width |-> IF j + Len(vals) > Width THEN vals[j + Len(vals) - Width] ELSE 0]
      /\ cols \in [Chart!Columns -> Nat]
  <2>1. cols = [j \in 1..Width |-> IF j + Len(vals) > Width THEN vals[j + Len(vals) - Width] ELSE 0]
    BY DEF Chart!tailCols
  <2>2. \A j \in 1..Width : j + Len(vals) > Width => j + Len(vals) - Width \in 1..Len(vals)
    BY <1>0
  <2> HIDE DEF cols
  <2> QED
    BY <1>0, <2>1, <2>2
<1>2. cols[Width] = vals[Len(vals)]
  <2> HIDE DEF cols
  <2>1. Width \in 1..Width /\ Width + Len(vals) > Width /\ Width + Len(vals) - Width = Len(vals)
    BY <1>0
  <2> QED
    BY <1>1, <2>1
<1>3. peak \in Nat \ {0}
  <2> HIDE DEF cols
  <2> QED
    BY <1>1, PeakIsHighest
<1> HIDE DEF peak, cols
<1>4. /\ IsFiniteSet(rows) /\ Cardinality(rows) = 4 * h
      /\ \A v : Lit(v) \subseteq rows
  <2>1. 0 \in Int /\ 4 * h - 1 \in Int /\ 0 <= 4 * h - 1
    OBVIOUS
  <2>2. IsFiniteSet(rows) /\ Cardinality(rows) = (4 * h - 1) - 0 + 1
    BY <2>1, FS_Interval
  <2>3. (4 * h - 1) - 0 + 1 = 4 * h
    OBVIOUS
  <2> HIDE DEF rows
  <2> QED
    BY <2>2, <2>3
<1>5. \A v : Dots(v) = Cardinality(Lit(v))
  BY ChartSize, Zenon DEF Chart!BrailleChart
<1>6. Dots(peak) = 4 * h
  <2>1. \A dy \in rows : (4 * h - dy) * peak <= peak * 4 * h
    <3> TAKE dy \in rows
    <3>1. 4 * h - dy \in Nat /\ 4 * h \in Nat /\ 4 * h - dy <= 4 * h
      OBVIOUS
    <3>2. (4 * h - dy) * peak <= (4 * h) * peak
      BY <1>3, <3>1, Scaled
    <3>3. (4 * h) * peak = peak * 4 * h
      BY <1>3
    <3> QED
      BY <3>2, <3>3
  <2>2. Lit(peak) = rows
    <3> HIDE DEF rows
    <3> QED
      BY <2>1
  <2> HIDE DEF Dots, Lit, rows
  <2> QED
    BY <1>4, <1>5, <2>2
<1>7. ASSUME NEW u \in Nat, NEW v \in Nat, v <= u
      PROVE  Dots(u) >= Dots(v)
  <2>1. v * 4 * h <= u * 4 * h
    <3>1. v * (4 * h) <= u * (4 * h)
      <4>1. 4 * h \in Nat
        OBVIOUS
      <4> QED
        BY <1>7, <4>1, Scaled
    <3>2. v * (4 * h) = v * 4 * h /\ u * (4 * h) = u * 4 * h
      OBVIOUS
    <3> QED
      BY <3>1, <3>2
  <2>2. Lit(v) \subseteq Lit(u)
    <3> SUFFICES ASSUME NEW dy \in rows, (4 * h - dy) * peak <= v * 4 * h
                 PROVE  (4 * h - dy) * peak <= u * 4 * h
      OBVIOUS
    <3>1. (4 * h - dy) * peak \in Int /\ v * 4 * h \in Int /\ u * 4 * h \in Int
      BY <1>3
    <3> QED
      BY <2>1, <3>1
  <2> HIDE DEF Dots, Lit, rows
  <2>3. IsFiniteSet(Lit(u)) /\ IsFiniteSet(Lit(v))
    BY <1>4, FS_Subset
  <2>4. Cardinality(Lit(v)) <= Cardinality(Lit(u)) /\ Cardinality(Lit(v)) \in Nat /\ Cardinality(Lit(u)) \in Nat
    BY <2>2, <2>3, FS_Subset, FS_CardinalityType
  <2> QED
    BY <1>5, <2>4
<1>8. ASSUME NEW v \in Nat, Chart!Guide(v, peak, h, TRUE)
      PROVE  Dots(v) = 0
  <2>1. ~((4 * h - (4 * h - 1)) * peak <= v * 4 * h)
    <3>1. 4 * h - 1 \in 4 * (h - 1)..4 * h - 1
      OBVIOUS
    <3>2. \A dy \in 4 * (h - 1)..4 * h - 1 : ~((4 * h - dy) * peak <= v * 4 * h)
      BY <1>8 DEF Chart!Guide
    <3> QED
      BY <3>1, <3>2
  <2>2. ~(peak <= v * 4 * h)
    <3>1. (4 * h - (4 * h - 1)) * peak = peak
      BY <1>3
    <3> QED
      BY <2>1, <3>1
  <2>3. Lit(v) = {}
    <3> SUFFICES ASSUME NEW dy \in rows
                 PROVE  ~((4 * h - dy) * peak <= v * 4 * h)
      OBVIOUS
    <3>1. 4 * h - dy \in Nat /\ 1 <= 4 * h - dy
      OBVIOUS
    <3>2. 1 * peak <= (4 * h - dy) * peak
      BY <1>3, <3>1, Scaled
    <3>3. 1 * peak = peak /\ (4 * h - dy) * peak \in Int /\ v * 4 * h \in Int
      BY <1>3, <3>1
    <3> QED
      BY <1>3, <2>2, <3>2, <3>3
  <2> HIDE DEF Lit
  <2> QED
    BY <1>5, <2>3, FS_EmptySet
<1> HIDE DEF Dots, Lit, rows
<1>9. \A j \in Chart!Columns : cols[j] \in Nat
  BY <1>1
<1>10. /\ \A j \in Chart!Columns : cols[j] = peak => Dots(cols[j]) = 4 * h
       /\ \A i, j \in Chart!Columns : cols[i] >= cols[j] => Dots(cols[i]) >= Dots(cols[j])
       /\ \A j \in Chart!Columns : Chart!Guide(cols[j], peak, h, TRUE) => Dots(cols[j]) = 0
  <2>1. \A j \in Chart!Columns : cols[j] = peak => Dots(cols[j]) = 4 * h
    BY <1>6, Zenon
  <2>2. \A i, j \in Chart!Columns : cols[i] >= cols[j] => Dots(cols[i]) >= Dots(cols[j])
    BY <1>7, <1>9
  <2>3. \A j \in Chart!Columns : Chart!Guide(cols[j], peak, h, TRUE) => Dots(cols[j]) = 0
    BY <1>8, <1>9, Zenon
  <2> QED
    BY <2>1, <2>2, <2>3, Zenon
<1> QED
  BY <1>2, <1>10, Zenon DEF Chart!Drawn, Dots, cols, peak

(***************************************************************************)
(* What is asked, and what is answered                                     *)
(***************************************************************************)
\* The bounded inputs are among those that the lemmas are about.
LEMMA ShortSequences ==
  ASSUME NEW n, NEW S
  PROVE  UNION {[1..k -> S] : k \in 0..n} \subseteq Seq(S)
OBVIOUS

\* Texts and lines of the endpoint.
LEMMA WireInputs ==
  /\ Wire!Texts \subseteq Seq(Wire!Chars)
  /\ Wire!Wires \subseteq EventLines
<1> DEFINE C == Seq(Wire!Chars)
           Number == [form : {"absent", "number", "fraction", "text"}, n : Int]
<1>1. Wire!Texts \subseteq C
  BY ShortSequences, Zenon DEF Wire!Texts
<1>2. /\ {5, 10, 13} \subseteq Nat /\ {10} \subseteq Nat
      /\ \A n : Wire!Short(n) \subseteq C
  BY <1>1 DEF Wire!Short
<1>3. {<<"x">>} \subseteq C /\ {<<>>} \subseteq C /\ {Wire!AgentKindTurn} \subseteq Wire!AgentKinds
  BY DEF Wire!Chars, Wire!AgentKinds
<1>4. Wire!Counts \subseteq Number /\ {Wire!Nought} \subseteq Number
  BY SurfaceAssumption DEF SurfaceAssumption, Wire!Counts, Wire!Nought
<1>5. {"missing"} \subseteq Wire!TimeForms
  BY DEF Wire!TimeForms
<1> HIDE DEF C, Number
<1> DEFINE Roots == {"object", "array", "null", "number"}
           K == C \cup Wire!AgentKinds
           Lot(r, t, d, c, a, k, f) == [root : r, ts : t, digits : d, count : c, agent : a,
                                        kind : k, field : f]
<1>6. ASSUME NEW roots, NEW times, NEW digits, NEW counts, NEW agents, NEW kinds, NEW fields,
             roots \subseteq Roots, times \subseteq Wire!TimeForms, digits \subseteq Nat,
             counts \subseteq Number, agents \subseteq C, kinds \subseteq K, fields \subseteq C
      PROVE  Lot(roots, times, digits, counts, agents, kinds, fields) \subseteq EventLines
  <2> SUFFICES ASSUME NEW w \in Lot(roots, times, digits, counts, agents, kinds, fields)
               PROVE  w \in EventLines
    OBVIOUS
  <2>1. /\ w.root \in roots /\ w.ts \in times /\ w.digits \in digits /\ w.count \in counts
        /\ w.agent \in agents /\ w.kind \in kinds /\ w.field \in fields
        /\ w = [root |-> w.root, ts |-> w.ts, digits |-> w.digits, count |-> w.count,
                agent |-> w.agent, kind |-> w.kind, field |-> w.field]
    <3> HIDE DEF Roots, K
    <3> QED
      OBVIOUS
  <2>2. /\ w.root \in Roots /\ w.ts \in Wire!TimeForms /\ w.digits \in Nat /\ w.count \in Number
        /\ w.agent \in C /\ w.kind \in K /\ w.field \in C
    <3> HIDE DEF Roots, K
    <3> QED
      BY <1>6, <2>1, Zenon
  <2>3. w \in [root : Roots, ts : Wire!TimeForms, digits : Nat, count : Number, agent : C,
               kind : K, field : C]
    <3> HIDE DEF Roots, K
    <3> QED
      BY <2>1, <2>2
  <2> QED
    BY <2>3, Zenon DEF EventLines, C, Number
<1>7. /\ Roots \subseteq Roots /\ {"object"} \subseteq Roots /\ Wire!TimeForms \subseteq Wire!TimeForms
      /\ {Wire!AgentKindTurn} \subseteq K
      /\ \A n : Wire!AgentKinds \cup Wire!Short(n) \subseteq K /\ Wire!Short(n) \subseteq K
  BY <1>2, <1>3
<1> HIDE DEF K
<1> DEFINE A == Lot({"object", "array", "null", "number"}, Wire!TimeForms, {5, 10, 13}, Wire!Counts,
                    {<<"x">>}, {Wire!AgentKindTurn}, {<<>>})
           B == Lot({"object"}, {"missing"}, {10}, {Wire!Nought}, Wire!Short(3),
                    Wire!AgentKinds \cup Wire!Short(1), {<<>>})
           D == Lot({"object"}, {"missing"}, {10}, {Wire!Nought}, Wire!Short(1), Wire!Short(2),
                    Wire!Short(2))
<1>8. Wire!Wires = (A \cup B) \cup D
  BY Zenon DEF Wire!Wires
<1> HIDE DEF Lot
<1>9. A \subseteq EventLines
  BY <1>2, <1>3, <1>4, <1>6, <1>7, Zenon
<1>10. B \subseteq EventLines
  BY <1>2, <1>3, <1>4, <1>5, <1>6, <1>7, Zenon
<1>11. D \subseteq EventLines
  BY <1>2, <1>4, <1>5, <1>6, <1>7, Zenon
<1> HIDE DEF A, B, D
<1>12. Wire!Wires \subseteq EventLines
  BY <1>8, <1>9, <1>10, <1>11
<1> QED
  BY <1>1, <1>12 DEF C

\* Probes and dots.
LEMMA ChartInputs ==
  /\ Chart!ProbeHistories \subseteq Landings
  /\ Chart!Histories(Width + 1, 0..3) \subseteq Seq(Nat)
<1>1. \A n, S : Chart!Histories(n, S) \subseteq Seq(S)
  BY ShortSequences, Zenon DEF Chart!Histories
<1>2. \A S, T : S \subseteq T => Seq(S) \subseteq Seq(T)
  OBVIOUS
<1>3. Chart!Histories(Width + 1, 0..3) \subseteq Seq(Nat)
  <2>1. Seq(0..3) \subseteq Seq(Nat)
    BY <1>2
  <2>2. Chart!Histories(Width + 1, 0..3) \subseteq Seq(0..3)
    BY <1>1
  <2> QED
    BY <2>1, <2>2, Zenon
<1>4. Chart!ProbeHistories \subseteq Landings
  <2> DEFINE Short == [at : 1..8, rate : 1..2]
             Row == [at : Nat, rate : Nat]
  <2>1. Short \subseteq Row
    OBVIOUS
  <2>2. Chart!Histories(3, Short) \subseteq Seq(Row)
    <3> HIDE DEF Short, Row
    <3> QED
      BY <1>1, <1>2, <2>1, ZenonT(30)
  <2> QED
    BY <2>2, Zenon DEF Chart!ProbeHistories, Landings
<1> QED
  BY <1>3, <1>4

\* Panes, hosts and titles.
LEMMA PaneInputs ==
  /\ Pane!Models \subseteq PaneModels
  /\ Pane!Sensors \subseteq [cpu : Nat, gpu : Nat, gpus : BOOLEAN]
  /\ \A x \in Pane!Headers : /\ x \in [w : Nat, engines : BOOLEAN, agents : BOOLEAN, ssh : Nat, paused : BOOLEAN]
                             /\ x.w >= 62
  /\ Pane!Titles \subseteq [w : Nat, parts : [1..3 -> Nat]]
  /\ \A x \in Pane!ProbeTitles :
       /\ x \in [w : Nat, last : {"none", "failed", "ok"}, ms : Nat, rate : Nat, probing : BOOLEAN]
       /\ x.w >= 62
<1>1. Pane!Models \subseteq PaneModels
  <2>1. {61, 62} \subseteq Nat /\ 1..70 \subseteq Nat \ {0} /\ {0, 1, 4} \subseteq Nat /\ {0, 2} \subseteq Nat
    OBVIOUS
  <2> QED
    BY <2>1 DEF Pane!Models, PaneModels
<1>2. Pane!Sensors \subseteq [cpu : Nat, gpu : Nat, gpus : BOOLEAN]
  BY DEF Pane!Sensors
<1>3. \A x \in Pane!Headers :
        /\ x \in [w : Nat, engines : BOOLEAN, agents : BOOLEAN, ssh : Nat, paused : BOOLEAN]
        /\ x.w >= 62
  BY DEF Pane!Headers
<1>4. Pane!Titles \subseteq [w : Nat, parts : [1..3 -> Nat]]
  <2>1. {9, 10, 15, 45} \subseteq Nat /\ 10..60 \subseteq Nat
    OBVIOUS
  <2>2. \A S : S \subseteq Nat => [1..3 -> S] \subseteq [1..3 -> Nat]
    OBVIOUS
  <2> QED
    BY <2>1, <2>2 DEF Pane!Titles
<1>5. \A x \in Pane!ProbeTitles :
        /\ x \in [w : Nat, last : {"none", "failed", "ok"}, ms : Nat, rate : Nat, probing : BOOLEAN]
        /\ x.w >= 62
  BY DEF Pane!ProbeTitles
<1> QED
  BY <1>1, <1>2, <1>3, <1>4, <1>5

\* Command lines.
LEMMA CommandInputs ==
  /\ Command!Lines \subseteq CommandLines
  /\ Command!Invocations \subseteq CommandLines
<1>1. \A n, S : Command!UpTo(n, S) \subseteq SUBSET S
  BY DEF Command!UpTo, Command!kSubset
<1>2. Command!Lines \subseteq CommandLines
  <2>1. ASSUME NEW f \in Command!UpTo(MaxFlags, Command!Flags \ {"help", "version"}),
               NEW c \in [flags : {f}, env : Command!UpTo(MaxEnv, Command!Environment),
                          args : {<<>>, <<"ssh">>}, tty : {TRUE},
                          bad : {"none"} \cup (Command!Checked \cap f)]
        PROVE  c \in CommandLines
    <3>1. f \subseteq Command!Flags
      BY <1>1
    <3>2. c.env \subseteq Command!Environment
      <4>1. c.env \in Command!UpTo(MaxEnv, Command!Environment)
        OBVIOUS
      <4>2. Command!UpTo(MaxEnv, Command!Environment) \subseteq SUBSET Command!Environment
        BY <1>1, Zenon
      <4> QED
        BY <4>1, <4>2
    <3>3. c.args \in Seq(Command!Words)
      <4>1. <<>> \in Seq(Command!Words) /\ <<"ssh">> \in Seq(Command!Words)
        BY DEF Command!Words
      <4>2. c.args \in {<<>>, <<"ssh">>}
        OBVIOUS
      <4> QED
        BY <4>1, <4>2, Zenon
    <3>4. c.flags = f /\ c.tty \in BOOLEAN /\ c.bad \in {"none"} \cup Command!Checked
      OBVIOUS
    <3>5. c = [flags |-> c.flags, env |-> c.env, args |-> c.args, tty |-> c.tty, bad |-> c.bad]
      OBVIOUS
    <3> QED
      BY <3>1, <3>2, <3>3, <3>4, <3>5 DEF CommandLines
  <2> DEFINE Of(f) == [flags : {f}, env : Command!UpTo(MaxEnv, Command!Environment),
                       args : {<<>>, <<"ssh">>}, tty : {TRUE},
                       bad : {"none"} \cup (Command!Checked \cap f)]
             From == Command!UpTo(MaxFlags, Command!Flags \ {"help", "version"})
  <2>2. Command!Lines = UNION {Of(f) : f \in From}
    BY Zenon DEF Command!Lines
  <2>3. \A f \in From : Of(f) \subseteq CommandLines
    BY <2>1, Zenon
  <2> HIDE DEF Of, From
  <2> QED
    BY <2>2, <2>3
<1>3. Command!Invocations \subseteq CommandLines
  <2> SUFFICES ASSUME NEW f \in Command!UpTo(1, {"once", "demo", "no-ingest", "help", "version"}),
                      NEW e \in Command!UpTo(1, Command!Environment),
                      NEW a \in UNION {[1..n -> Command!Words] : n \in 0..2}, NEW t \in BOOLEAN,
                      NEW b \in {"none"} \cup Command!Checked
               PROVE  [flags |-> f, env |-> e, args |-> a, tty |-> t, bad |-> b] \in CommandLines
    BY DEF Command!Invocations
  <2>1. f \subseteq Command!Flags /\ e \subseteq Command!Environment
    <3>1. f \subseteq {"once", "demo", "no-ingest", "help", "version"} /\ e \subseteq Command!Environment
      BY <1>1
    <3> QED
      BY <3>1 DEF Command!Flags
  <2>2. a \in Seq(Command!Words)
    BY ShortSequences, Zenon
  <2> QED
    BY <2>1, <2>2 DEF CommandLines
<1> QED
  BY <1>2, <1>3

\* Targets, contacts, challenges, keys, engines and models.
LEMMA EndpointInputs ==
  /\ Endpoint!Targets \subseteq SshTargets
  /\ Endpoint!Contacts \subseteq Seq([host : {"a", "b"}, key : {"k1", "k2"}])
  /\ Endpoint!Challenges \subseteq SshChallenges
  /\ Endpoint!KeySources \subseteq [file : {"none", "good", "unreadable"}, defaults : Nat, agent : BOOLEAN]
  /\ Endpoint!Urls \subseteq EngineUrls
  /\ Endpoint!Catalogs \subseteq EngineModels
<1>1. \A n, S : Endpoint!SeqUpTo(n, S) \subseteq Seq(S)
  BY ShortSequences, Zenon DEF Endpoint!SeqUpTo
<1>2. Endpoint!Targets \subseteq SshTargets
  BY <1>1 DEF Endpoint!Targets, SshTargets
<1>3. Endpoint!Contacts \subseteq Seq([host : {"a", "b"}, key : {"k1", "k2"}])
  BY <1>1, Zenon DEF Endpoint!Contacts
<1>4. Endpoint!Challenges \subseteq SshChallenges
  <2> DEFINE Short == [kind : {"password"}, echos : {<<>>}]
                      \cup [kind : {"interactive"}, echos : Endpoint!SeqUpTo(2, BOOLEAN)]
             Long == [kind : {"password"}, echos : {<<>>}] \cup [kind : {"interactive"}, echos : Seq(BOOLEAN)]
  <2>1. Short \subseteq Long
    BY <1>1
  <2>2. \A S, T : S \subseteq T => Seq(S) \subseteq Seq(T)
    OBVIOUS
  <2>3. Endpoint!SeqUpTo(3, Short) \subseteq Seq(Short)
    BY <1>1, Zenon
  <2>4. Endpoint!SeqUpTo(3, Short) \subseteq Seq(Long)
    <3> HIDE DEF Short, Long
    <3> QED
      BY <2>1, <2>2, <2>3, Zenon
  <2> QED
    BY <2>4, Zenon DEF Endpoint!Challenges, SshChallenges
<1>5. Endpoint!KeySources \subseteq [file : {"none", "good", "unreadable"}, defaults : Nat, agent : BOOLEAN]
  <2>1. 0..3 \subseteq Nat
    OBVIOUS
  <2> QED
    BY <2>1 DEF Endpoint!KeySources
<1>6. Endpoint!Urls \subseteq EngineUrls
  <2>1. {0, 80, 443, 8000} \subseteq Nat
    OBVIOUS
  <2> QED
    BY <2>1 DEF Endpoint!Urls, EngineUrls
<1>7. Endpoint!Catalogs \subseteq EngineModels
  BY <1>1, Zenon DEF Endpoint!Catalogs, EngineModels
<1> QED
  BY <1>2, <1>3, <1>4, <1>5, <1>6, <1>7

\* Repositories, redirects and listings.
LEMMA ListingInputs ==
  /\ Listing!Repos \subseteq Seq({"a", "-", ".", "/", "!"})
  /\ Listing!Hops \subseteq RedirectHops
  /\ Listing!Listed \subseteq Seq(Listing!ListingLines)
<1>1. \A n, S : Listing!Series(n, S) \subseteq Seq(S)
  BY ShortSequences, Zenon DEF Listing!Series
<1> QED
  BY <1>1, Zenon DEF Listing!Repos, Listing!Hops, RedirectHops, Listing!Listed

\* What is asked about a topic is one of its inputs.
Given(about, inputs) == (asked.about = about /\ "in" \in DOMAIN asked) => asked.in \in inputs

\* The questions that the theorems are about.
Sensible ==
  /\ Given("request", Wire!Requests) /\ Given("epoch", 9..10)
  /\ Given("text", Wire!Texts) /\ Given("line", Wire!Wires)
  /\ Given("probes", Chart!ProbeHistories) /\ Given("dots", Chart!Histories(Width + 1, 0..3))
  /\ Given("model", Pane!Models) /\ Given("sensors", Pane!Sensors) /\ Given("header", Pane!Headers)
  /\ Given("middle", 62..200) /\ Given("heading", Pane!Titles)
  /\ Given("probed", Pane!ProbeTitles)
  /\ Given("knobs", Command!Lines) /\ Given("words", Command!Invocations)
  /\ Given("size", [tty : Command!Terminals, override : {0, 40, 41, 80, 1024, 1025}])
  /\ Given("target", Endpoint!Targets) /\ Given("contacts", Endpoint!Contacts)
  /\ Given("challenges", Endpoint!Challenges \X Endpoint!Sources)
  /\ Given("keys", Endpoint!KeySources) /\ Given("urls", Endpoint!Urls \X Endpoint!Urls)
  /\ Given("catalog", Endpoint!Catalogs)
  /\ Given("repository", Listing!Repos) /\ Given("hops", Listing!Hops)
  /\ Given("body", (0..6) \X (0..4)) /\ Given("listing", Listing!Listed)

\* Each question of Surface is about an input of its topic.
LEMMA AsksSensibly == SurfaceSpec => []Sensible
<1>1. SurfaceInit => Sensible
  <2> SUFFICES ASSUME NEW about \in Topics, asked = [about |-> about]
               PROVE  "in" \notin DOMAIN asked
    BY DEF SurfaceInit, Sensible, Given
  <2> QED
    OBVIOUS
<1>2. ASSUME NEW about, NEW inputs, Ask(about, inputs), NEW other, NEW suitable,
             other = about => inputs \subseteq suitable
      PROVE  Given(other, suitable)'
  <2>1. PICK x \in inputs : asked' = [about |-> about, in |-> x]
    BY <1>2 DEF Ask
  <2>2. asked'.about = about /\ asked'.in = x
    BY <2>1
  <2> QED
    BY <1>2, <2>2 DEF Given
<1>3. Sensible /\ [SurfaceNext]_asked => Sensible'
  <2> SUFFICES ASSUME Sensible, [SurfaceNext]_asked
               PROVE  Sensible'
    OBVIOUS
  <2>1. CASE UNCHANGED asked
    BY <2>1 DEF Sensible, Given
  <2>2. CASE SurfaceNext
    BY <1>2, <2>2 DEF SurfaceNext, Sensible
  <2> QED
    BY <2>1, <2>2
<1> QED
  BY <1>1, <1>3, PTL DEF SurfaceSpec

\* Requests, times, texts and lines of the ingest endpoint are read as the code promises,
\* for texts of any length (server.go, event.go, sanitize.go).
THEOREM WireIsSound == SurfaceSpec => []WireSound
<1>1. Sensible => WireSound
  BY OneLineEach, UnitsTold, TextSafe, LinesSound, WireInputs DEF Sensible, Given, WireSound, If
<1> QED
  BY <1>1, AsksSensibly, PTL

\* What is drawn is what was measured: a column of probes holds the newest result that had
\* landed by its end, and a column of dots is as high as its value, in charts of any width.
THEOREM ColumnsAsMeasured == SurfaceSpec => []DrawnAsMeasured
<1>1. Sensible => DrawnAsMeasured
  BY ProbesHeld, DotsDrawn, ChartInputs DEF Sensible, Given, DrawnAsMeasured, If
<1> QED
  BY <1>1, AsksSensibly, PTL

\* Frames fit in every pane that Surface asks about, and by the lemmas above in every other
\* one; the heading of the probes, which may not fit, is cut and pushes nothing (ui.go,
\* agents.go).
THEOREM EveryFrameFits == SurfaceSpec => []FramesFit
<1>1. Sensible => FramesFit
  BY PaneFrameFits, PaneNewestShown, PaneKeysHonest, PaneSensorsCounted, PaneHeaderFits,
     PanePanelsTile, PaneTitleFits, PaneProbeTitleCut, PaneInputs DEF Sensible, Given, FramesFit, If
<1> QED
  BY <1>1, AsksSensibly, PTL

\* Nothing on a command line or in the environment is dropped in silence, for any number
\* of flags and variables, but the sizes of a frame that is printed as text
\* (cmd/toktop/main.go).
THEOREM NothingDropped == SurfaceSpec => []NothingIgnored
<1>1. Sensible => NothingIgnored
  BY KnobsCount, WordsCount, FrameSized, CommandInputs DEF Sensible, Given, NothingIgnored, If,
     Command!Terminals
<1> QED
  BY <1>1, AsksSensibly, PTL

\* Connections, secrets, probes and downloads go where they were meant to go (target.go,
\* knownhosts.go, auth.go, bearer.go, collector.go, selfupdate.go).
THEOREM GoesWhereMeant == SurfaceSpec => []MeantForIt
<1>1. Sensible => MeantForIt
  <2> SUFFICES ASSUME Sensible
               PROVE  MeantForIt
    OBVIOUS
  <2>1. /\ If("target", Endpoint!TargetSound) /\ If("contacts", Endpoint!KeysRemembered)
        /\ If("challenges", LAMBDA q : Endpoint!SecretKept(q[1], q[2]))
    BY TargetsSound, HostsRemembered, SecretsKept, EndpointInputs DEF Sensible, Given, If
  <2>2. /\ If("keys", Endpoint!KeyFirst)
        /\ If("urls", LAMBDA q : Endpoint!TokenStays(q[1], q[2]) /\ Endpoint!PortsAgree(q[1]))
        /\ If("catalog", Endpoint!ProbeSuits)
    BY KeysFirst, TokensStay, ProbesSuit, EndpointInputs DEF Sensible, Given, If
  <2>3. /\ If("repository", Listing!RepoSound) /\ If("hops", Listing!HopsSound)
        /\ If("body", LAMBDA q : Listing!WholeBody(q[1], q[2])) /\ If("listing", Listing!SumSound)
    BY ReposSound, HopsStay, BodiesWhole, SumsSound, ListingInputs DEF Sensible, Given, If
  <2> QED
    BY <2>1, <2>2, <2>3 DEF MeantForIt
<1> QED
  BY <1>1, AsksSensibly, PTL
=============================================================================
