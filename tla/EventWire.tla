------------------------------ MODULE EventWire ------------------------------
(***************************************************************************)
(* What one request and one line of the ingest endpoint are turned into    *)
(* (internal/ingest/event.go, the middleware of server.go, and the text    *)
(* cleaning of internal/core).  A request is a method and a path, a line a *)
(* record of what its fields look like, a text a sequence of classes of    *)
(* characters.                                                             *)
(***************************************************************************)
EXTENDS Integers, Sequences

CONSTANTS
  TextLength,                    \* bound: characters of a text
  AgentRoom, KindRoom, FieldRoom,  \* what clampField leaves of a name, a kind, another field
  MaxEventTokens, MaxInt           \* maxEventTokens and math.MaxInt64, scaled down

(***************************************************************************)
(* Requests: status and lines in the log                                   *)
(***************************************************************************)
Requests == [method : {"GET", "HEAD", "POST", "PUT"},
             path : {"/v1/events", "/healthz", "/events"}, origin : BOOLEAN, panics : BOOLEAN]

knownIngestPath(r) == r.path \in {"/v1/events", "/healthz"}

Reads(r) == r.method \in {"GET", "HEAD"}

\* newServer's routes; a POST is accepted here unless a browser made it.
Status(r) ==
  IF ~knownIngestPath(r) THEN 404
  ELSE IF Reads(r) THEN 200
  ELSE IF r.method # "POST" \/ r.path # "/v1/events" THEN 405
  ELSE IF r.origin THEN 403
  ELSE IF r.panics THEN 500 ELSE 202

skipUnhandledLog(r) ==
  \/ r.path = "/healthz" /\ Reads(r)
  \/ r.path = "/v1/events" /\ (Reads(r) \/ r.method = "POST")

\* handlePost or withRecover, and withUnhandledLog around the routes.
LogLines(r) ==
  (IF r.method = "POST" /\ r.path = "/v1/events" THEN 1 ELSE 0)
  + (IF ~skipUnhandledLog(r) /\ Status(r) >= 400 THEN 1 ELSE 0)

\* Every POST and every refusal leaves exactly one line, reads leave none (README
\* "Every POST is logged to stderr as one structured line").
LoggedOnce(r) ==
  LogLines(r) = IF r.method = "POST" \/ Status(r) >= 400 THEN 1 ELSE 0

(***************************************************************************)
(* Times: a Unix epoch number is told by its magnitude                     *)
(***************************************************************************)
\* Digits of the number: seconds, milli-, micro- and nanoseconds.
Units == {0, 3, 6, 9}
MaxDigits == 19            \* of an int64

unixEpochInt(digits) ==
  IF digits <= 11 THEN 0 ELSE IF digits <= 14 THEN 3 ELSE IF digits <= 17 THEN 6 ELSE 9

\* The digits of the seconds; 0 where the number is refused (before 2001-09-09).
unixEpochTime(digits) ==
  IF digits > MaxDigits \/ digits - unixEpochInt(digits) < 10 THEN 0
  ELSE digits - unixEpochInt(digits)

\* A time since 2001 (ten digits of seconds) is the same instant in every unit, and one
\* of the decades before (nine digits) is refused in every unit rather than taken for
\* a time of another century (unixEpochTime).
UnitsAgree(digits) == \A unit \in Units :
  unixEpochTime(digits + unit) = IF digits = 10 THEN 10 ELSE 0

\* The forms of ts: what it is read as.
TimeForms == {"missing", "null", "blank", "rfc3339", "naive", "spaced", "epoch", "garbage"}
parseEventTime(form, digits) ==
  IF form \in {"missing", "null", "blank"} THEN "unset"
  ELSE IF form \in {"rfc3339", "naive", "spaced"} THEN "claimed"
  ELSE IF form = "epoch" /\ unixEpochTime(digits) > 0 THEN "claimed" ELSE "bad"

(***************************************************************************)
(* Text                                                                    *)
(***************************************************************************)
\* "x" is a Latin letter, cyr one of an alphabet of lookalikes; "?" an intermediate byte;
\* "[" and "]" open CSI and OSC; bel and esc \ end an OSC; ctl is any other control and any
\* rune of unsafeRune.
Chars == {"x", "cyr", "?", "[", "]", "\\", "esc", "bel", "ctl", "nl"}
Texts == UNION {[1..n -> Chars] : n \in 0..TextLength}
Visible == {"x", "cyr", "?", "[", "]", "\\", "nl"}

At(s, i) == IF i <= Len(s) THEN s[i] ELSE "end"
FirstIn(S, else) == IF S = {} THEN else ELSE CHOOSE k \in S : \A j \in S : k <= j

\* Index of the first character past the sequence whose ESC is at i - 1.
skipEscapeSeq(s, i) ==
  CASE At(s, i) = "end" -> i
    [] At(s, i) = "[" ->
         LET f == FirstIn({k \in i + 1..Len(s) : s[k] # "?"}, Len(s) + 1)
         IN IF At(s, f) \in {"x", "[", "]", "\\"} THEN f + 1 ELSE f
    [] At(s, i) = "]" ->
         LET f == FirstIn({k \in i + 1..Len(s) :
                     s[k] = "bel" \/ (s[k] = "esc" /\ At(s, k + 1) = "\\")}, Len(s) + 1)
         IN IF f > Len(s) THEN f ELSE IF s[f] = "bel" THEN f + 1 ELSE f + 2
    [] OTHER -> i + 1

\* A plausible bug: an unterminated sequence is not a sequence.
SanitizeTerminated(s) ==
  LET out[i \in 1..Len(s) + 2] ==
        IF i > Len(s) THEN <<>>
        ELSE IF s[i] = "esc" /\ skipEscapeSeq(s, i + 1) <= Len(s)
        THEN out[skipEscapeSeq(s, i + 1)]
        ELSE IF s[i] \in Visible THEN <<s[i]>> \o out[i + 1] ELSE out[i + 1]
  IN out[1]

SanitizeText(s) ==
  LET out[i \in 1..Len(s) + 2] ==
        IF i > Len(s) THEN <<>>
        ELSE IF s[i] = "esc" THEN out[skipEscapeSeq(s, i + 1)]
        ELSE IF s[i] \in Visible THEN <<s[i]>> \o out[i + 1] ELSE out[i + 1]
  IN out[1]

OrdinaryKept(s) == (\A i \in DOMAIN s : s[i] \in Visible) => SanitizeText(s) = s

\* What follows an OSC sequence that the text begins with: past the first bel or esc \.
AfterOSC(s) ==
  LET ends == {k \in 3..Len(s) : s[k] = "bel" \/ (s[k] = "\\" /\ s[k - 1] = "esc")}
  IN IF ends = {} THEN <<>> ELSE SubSeq(s, FirstIn(ends, 0) + 1, Len(s))
PayloadGone(s) ==
  (Len(s) >= 2 /\ s[1] = "esc" /\ s[2] = "]") => SanitizeText(s) = SanitizeText(AfterOSC(s))

\* No control character survives, a second pass finds nothing, ordinary text stays, and of
\* an OSC sequence nothing is left, what it carries included: all of the text when it is
\* never terminated, and no more than up to its end when it is (core.SanitizeText).
SafeText(s) ==
  LET t == SanitizeText(s) IN
  /\ \A i \in DOMAIN t : t[i] \in Visible
  /\ Len(t) <= Len(s)
  /\ SanitizeText(t) = t
  /\ OrdinaryKept(s)
  /\ PayloadGone(s)

(***************************************************************************)
(* Lines                                                                   *)
(***************************************************************************)
\* Of the three counts of an event, which are read alike, one; and one text that stands for
\* id, model, via_engine and note.  A number may be anything that JSON can spell.
Counts == [form : {"absent", "number", "fraction", "text"}, n : -MaxInt - 3..MaxInt + 2]
Nought == [form |-> "absent", n |-> 0]
AgentKindTurn == <<"turn">>
AgentKinds == {AgentKindTurn, <<"tool">>, <<"error">>, <<"note">>}
Short(n) == {s \in Texts : Len(s) <= n}
Wires ==
  [root : {"object", "array", "null", "number"}, ts : TimeForms, digits : {5, 10, 13},
   count : Counts, agent : {<<"x">>}, kind : {AgentKindTurn}, field : {<<>>}]
  \cup [root : {"object"}, ts : {"missing"}, digits : {10}, count : {Nought},
        agent : Short(3), kind : AgentKinds \cup Short(1), field : {<<>>}]
  \cup [root : {"object"}, ts : {"missing"}, digits : {10}, count : {Nought},
        agent : Short(1), kind : Short(2), field : Short(2)]

\* The int64 that a count may become, none when the line is refused.  What is just out of
\* range is read as a float and rounded to -2^63, which fits, or to 2^63, which is not above
\* float64(MaxInt64) either, and what it is converted to is up to the machine.
parseTokenJSON(c) ==
  CASE c.form = "absent" -> {0}
    [] c.form = "number" /\ c.n \in -MaxInt - 1..MaxInt -> {c.n}
    [] c.form = "number" /\ c.n = -MaxInt - 2 -> {-MaxInt - 1}
    [] c.form = "number" /\ c.n = MaxInt + 1 -> {-MaxInt - 1, MaxInt}
    [] OTHER -> {}

clampTokens(n) == IF n < 0 \/ n > MaxEventTokens THEN 0 ELSE n

\* core.ClampField; the composition of characters is left out.
clampField(s, room) == IF Len(s) <= room THEN s ELSE SubSeq(s, 1, room)

MixedScriptIdentity(s) == {"x", "cyr"} \subseteq {s[i] : i \in DOMAIN s}

\* Nothing, and what mixes alphabets, is anonymous: after the cleaning and the cap.
Anonymous == <<"x">>
Identity(s) ==
  LET name == clampField(SanitizeText(s), AgentRoom) IN
  IF name = <<>> \/ MixedScriptIdentity(name) THEN Anonymous ELSE name

\* A known kind stays, another one is cleaned (and lowered: letter case is left out), and
\* nothing is a turn.
KindOf(s) ==
  LET kind == IF s \in AgentKinds THEN s ELSE clampField(SanitizeText(s), KindRoom) IN
  IF kind = <<>> THEN AgentKindTurn ELSE kind

\* The events a line may become, none when it is refused: for what it is, its time, its count.
eventFromWire(w) ==
  IF w.root # "object" \/ parseEventTime(w.ts, w.digits) = "bad" THEN {}
  ELSE {[at |-> parseEventTime(w.ts, w.digits), count |-> clampTokens(n),
         agent |-> Identity(w.agent), kind |-> KindOf(w.kind),
         field |-> clampField(SanitizeText(w.field), FieldRoom)] : n \in parseTokenJSON(w.count)}

AllVisible(s) == \A i \in DOMAIN s : s[i] \in Visible

\* What gets into the feed has a name, in one alphabet, and a kind, texts that fit and that
\* a terminal may see, and a count that can be summed, also where the conversion of the
\* number is undefined (eventFromWire).
SoundLine(w) == \A e \in eventFromWire(w) :
  /\ e.agent # <<>> /\ AllVisible(e.agent) /\ Len(e.agent) <= AgentRoom
  /\ ~MixedScriptIdentity(e.agent)
  /\ e.kind # <<>> /\ (AllVisible(e.kind) \/ e.kind \in AgentKinds) /\ Len(e.kind) <= KindRoom
  /\ AllVisible(e.field) /\ Len(e.field) <= FieldRoom
  /\ e.count \in 0..MaxEventTokens
=============================================================================
