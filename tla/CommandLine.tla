----------------------------- MODULE CommandLine -----------------------------
(***************************************************************************)
(* From flags, environment and arguments to a run, a usage error or a help *)
(* screen (cmd/toktop/main.go).  What a knob is set to matters only as far *)
(* as it is usable: bad is the one knob, if any, whose value is not.       *)
(***************************************************************************)
EXTENDS Integers, Sequences, FiniteSets, FiniteSetsExt

CONSTANTS MaxFlags, MaxEnv     \* bounds: knobs set at once

Flags == {"demo", "once", "agents", "no-ingest", "ingest", "seed", "frames", "plain", "probe",
          "interval", "no-hot-reload", "add", "bearer", "ssh-key", "opencode-db", "help", "version"}
Environment == {"OMNIROUTE_API_KEY", "TOKTOP_BEARER", "TOKTOP_SSH_PASSWORD", "TOKTOP_COLUMNS",
                "TOKTOP_LINES", "TOKTOP_LOG_LEVEL"}
Checked == {"add", "interval", "probe", "frames", "ingest", "ssh-key",
            "TOKTOP_COLUMNS", "TOKTOP_LINES", "TOKTOP_LOG_LEVEL"}
Words == {"ssh", "http", "help", "version", "update", "word", "-h", "-flag"}
UpTo(n, S) == UNION {kSubset(k, S) : k \in 0..n}

Lines == UNION {[flags : {f}, env : UpTo(MaxEnv, Environment),
                 args : {<<>>, <<"ssh">>}, tty : {TRUE},
                 bad : {"none"} \cup (Checked \cap f)] : f \in UpTo(MaxFlags, Flags \ {"help", "version"})}
Invocations == {[flags |-> f, env |-> e, args |-> a, tty |-> t, bad |-> b] :
                  f \in UpTo(1, {"once", "demo", "no-ingest", "help", "version"}), e \in UpTo(1, Environment),
                  a \in UNION {[1..n -> Words] : n \in 0..2}, t \in BOOLEAN,
                  b \in {"none"} \cup Checked}

Has(c, flag) == flag \in c.flags
Set(c, name) == name \in c.env
Bad(c, knob) == c.bad = knob /\ (Has(c, knob) \/ Set(c, knob))
Remotes(c) == {i \in DOMAIN c.args : c.args[i] = "ssh"}

\* All that is asked for: flags, variables, and hosts to watch.
Knobs(c) == c.flags \cup c.env \cup (IF Remotes(c) # {} THEN {"targets"} ELSE {})

(***************************************************************************)
(* Commands                                                                *)
(***************************************************************************)
runHelp(topics) ==
  CASE topics = <<>> -> "help"
    [] topics # <<>> /\ topics[1] \in {"help", "-h"} -> "help"
    [] topics # <<>> /\ topics[1] \in {"update", "version"} ->
         IF Len(topics) = 1 THEN "help" ELSE "usage"
    [] OTHER -> "usage"

runVersion(rest) ==
  IF rest = <<>> THEN "version" ELSE IF rest[1] = "-h" THEN "help" ELSE "usage"

\* Left over after the flags; they end at the first word that is none, or at --, which is
\* left out.
interpretArgs(args) ==
  CASE args = <<>> -> "run"
    [] args # <<>> /\ args[1] = "help" -> runHelp(Tail(args))
    [] args # <<>> /\ args[1] = "version" -> IF Len(args) = 1 THEN "version" ELSE "usage"
    [] OTHER -> IF \A i \in DOMAIN args : args[i] = "ssh" THEN "run" ELSE "usage"

(***************************************************************************)
(* Validation                                                              *)
(***************************************************************************)
validateFlags(c) == /\ ~Bad(c, "interval") /\ ~Bad(c, "probe")
                    /\ ~(Has(c, "once") /\ Bad(c, "frames"))
validateLogLevelEnv(c) == ~Bad(c, "TOKTOP_LOG_LEVEL")
validateOnceEnv(c) == Has(c, "once") => ~Bad(c, "TOKTOP_COLUMNS") /\ ~Bad(c, "TOKTOP_LINES")
validateIngestAddr(c) == Has(c, "no-ingest") \/ ~Bad(c, "ingest")
KeyFileFound(c) == Has(c, "demo") \/ Remotes(c) = {} \/ ~Bad(c, "ssh-key")

\* A word that comes first is a command before there is a flag.
Subcommand(c) == IF c.flags = {} /\ c.args # <<>> THEN c.args[1] ELSE "none"

\* In the order of main: commands, the flags that are commands, values, words, then what
\* depends on the mode.  The URL of an endpoint is refused by the parser of the flags.
Outcome(c) ==
  IF Subcommand(c) = "update" THEN "update"
  ELSE IF Subcommand(c) = "help" THEN runHelp(Tail(c.args))
  ELSE IF Subcommand(c) = "version" THEN runVersion(Tail(c.args))
  ELSE IF Bad(c, "add") THEN "usage"
  ELSE IF Has(c, "help") THEN runHelp(c.args)
  ELSE IF Has(c, "version") THEN runVersion(c.args)
  ELSE IF ~(validateFlags(c) /\ validateLogLevelEnv(c) /\ validateOnceEnv(c)) THEN "usage"
  ELSE IF interpretArgs(c.args) # "run" THEN interpretArgs(c.args)
  ELSE IF ~(validateIngestAddr(c) /\ KeyFileFound(c)) THEN "usage"
  ELSE IF ~Has(c, "once") /\ ~c.tty THEN "usage" ELSE "run"

(***************************************************************************)
(* Warnings: knobs that are set and named as having no effect              *)
(***************************************************************************)
\* A plausible bug: a token without an endpoint goes by in silence.
WarnModesOnly(c) ==
  {k \in Knobs(c) : \/ k \in {"add", "bearer", "ssh-key", "targets"} /\ Has(c, "demo")
                    \/ k \in {"frames", "plain"} /\ ~Has(c, "once")
                    \/ k = "seed" /\ ~Has(c, "demo")
                    \/ k = "no-hot-reload" /\ Has(c, "once")
                    \/ k = "opencode-db" /\ ~Has(c, "agents")
                    \/ k = "ingest" /\ Has(c, "no-ingest")}

warnIgnoredFlags(c) ==
  {k \in Knobs(c) : \/ k = "opencode-db" /\ ~Has(c, "agents")
                    \/ k = "ingest" /\ Has(c, "no-ingest")
                    \/ k = "seed" /\ ~Has(c, "demo")
                    \/ k \in {"frames", "plain"} /\ ~Has(c, "once")
                    \/ k = "no-hot-reload" /\ Has(c, "once")
                    \/ k \in {"add", "bearer", "ssh-key", "targets"} /\ Has(c, "demo")
                    \/ k = "bearer" /\ ~Has(c, "demo") /\ ~Has(c, "add")
                    \/ k = "ssh-key" /\ ~Has(c, "demo") /\ Remotes(c) = {}}

warnIgnoredFrameEnv(c) == IF Has(c, "once") THEN {} ELSE c.env \cap {"TOKTOP_COLUMNS", "TOKTOP_LINES"}

warnUnusedEnv(c) ==
  {k \in c.env : \/ k = "TOKTOP_SSH_PASSWORD" /\ (Has(c, "demo") \/ Remotes(c) = {})
                 \/ /\ k \in {"OMNIROUTE_API_KEY", "TOKTOP_BEARER"}
                    /\ ~Has(c, "bearer") /\ (Has(c, "demo") \/ ~Has(c, "add"))
                 \/ k = "TOKTOP_LOG_LEVEL" /\ Has(c, "no-ingest")}

Named(c) == warnIgnoredFlags(c) \cup warnIgnoredFrameEnv(c) \cup warnUnusedEnv(c)

(***************************************************************************)
(* What a run reads                                                        *)
(***************************************************************************)
\* Where the token for the endpoints comes from.
resolveBearer(c) ==
  IF Has(c, "bearer") THEN "bearer"
  ELSE IF Set(c, "OMNIROUTE_API_KEY") THEN "OMNIROUTE_API_KEY"
  ELSE IF Set(c, "TOKTOP_BEARER") THEN "TOKTOP_BEARER" ELSE "none"

\* main, runTUI and runOnce: a fleet is simulated or real, a frame printed or live.
Used(c) ==
  LET mode == {"demo", "once", "agents", "no-ingest", "probe", "interval"}
      fleet == IF Has(c, "demo") THEN {"seed"}
               ELSE {"add"} \cup (IF Remotes(c) = {} THEN {}
                                 ELSE {"targets", "ssh-key", "TOKTOP_SSH_PASSWORD"})
                    \cup (IF Has(c, "add") THEN {resolveBearer(c)} ELSE {})
      shown == IF Has(c, "once") THEN {"frames", "plain"}
                    \cup (IF Has(c, "plain") THEN {} ELSE {"TOKTOP_COLUMNS", "TOKTOP_LINES"})
               ELSE {"no-hot-reload"}
      fed == (IF Has(c, "agents") THEN {"opencode-db"} ELSE {})
             \cup (IF Has(c, "no-ingest") THEN {} ELSE {"ingest", "TOKTOP_LOG_LEVEL"})
  IN Knobs(c) \cap (mode \cup fleet \cup shown \cup fed)

\* The precedence that --help states.
Outranked(c) ==
  IF Has(c, "bearer") THEN c.env \cap {"OMNIROUTE_API_KEY", "TOKTOP_BEARER"}
  ELSE IF Set(c, "OMNIROUTE_API_KEY") THEN c.env \cap {"TOKTOP_BEARER"} ELSE {}

\* A text report has no frame to size: these knobs are dropped, and no warning says so
\* (runOnce, warnIgnoredFrameEnv).
Sizes(c) == IF Has(c, "once") /\ Has(c, "plain") THEN c.env \cap {"TOKTOP_COLUMNS", "TOKTOP_LINES"} ELSE {}

\* Cells of a printed frame: of the terminal if it is large enough, unless overridden.
Terminals == {0, 20, 41, 80, 1024, 5000}
FrameColumns(tty, override) ==
  IF override # 0 THEN override
  ELSE IF tty >= 41 THEN (IF tty > 1024 THEN 1024 ELSE tty) ELSE 120
frameEnv(v) == v \in 41..1024

(***************************************************************************)
(* What the command line promises                                          *)
(***************************************************************************)
\* Every knob that is set, a target included, has its effect or is named as having none,
\* never both, with the one exception of the sizes of a frame that is printed as text; and
\* no unusable value is run with (warnIgnoredFlags, validateFlags).
KnobsCount(c) == Outcome(c) = "run" =>
  /\ Knobs(c) = Used(c) \cup Named(c) \cup Outranked(c) \cup Sizes(c)
  /\ Used(c) \cap Named(c) = {} /\ Sizes(c) \cap (Used(c) \cup Named(c)) = {}
  /\ c.bad \notin Used(c)

\* No run lists it: there is no exception (warnIgnoredFlags: "a silently dropped knob looks
\* like a broken feature"; warnIgnoredFrameEnv: "a silently ignored variable").
NoneSilent(c) == Outcome(c) = "run" => Sizes(c) = {}

\* What is said after the command, which is a word or one of two flags.
Operands(c) ==
  IF c.args = <<>> \/ c.flags \cap {"help", "version"} # {} THEN c.args ELSE Tail(c.args)

\* No word is ignored before a request for help: a run has only targets, a command nothing
\* else than a topic or that request, whether it is a word or a flag (interpretArgs,
\* runHelp, runVersion).
WordsCount(c) ==
  /\ Outcome(c) = "run" => \A i \in DOMAIN c.args : c.args[i] = "ssh"
  /\ Outcome(c) = "version" => Operands(c) = <<>>
  /\ (Outcome(c) = "help" /\ Operands(c) # <<>>) =>
       \/ Operands(c)[1] \in {"help", "-h"}
       \/ Len(Operands(c)) = 1 /\ Operands(c)[1] \in {"update", "version"}
  /\ c.flags \cap {"help", "version"} # {} => Outcome(c) \in {"help", "version", "usage"}

\* A printed frame can be laid out whatever the terminal reports (runOnce).
FrameSized(q) == (q.override = 0 \/ frameEnv(q.override)) => FrameColumns(q.tty, q.override) \in 41..1024
=============================================================================
