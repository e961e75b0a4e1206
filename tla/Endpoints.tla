------------------------------ MODULE Endpoints ------------------------------
(***************************************************************************)
(* Names of hosts and engines, and who may have a secret (internal/remote  *)
(* target.go, knownhosts.go and auth.go; internal/bearer; the addresses of *)
(* collector.go and agentwatch.go).                                        *)
(***************************************************************************)
EXTENDS Integers, Sequences, FiniteSets, FiniteSetsExt

SeqUpTo(n, S) == UNION {[1..k -> S] : k \in 0..n}
First(S, else) == IF S = {} THEN else ELSE CHOOSE k \in S : \A j \in S : k <= j

(***************************************************************************)
(* ssh targets.  A line of ssh_config opens a block, which matches the     *)
(* host or not, or gives a key a value; a port may be no port.             *)
(***************************************************************************)
ConfigLines == [key : {"host"}, val : {"match", "other"}]
               \cup [key : {"user", "hostname", "identityfile"}, val : {"v1"}]
               \cup [key : {"user"}, val : {"v2"}] \cup [key : {"port"}, val : {"2222", "junk"}]
Targets == [user : {"", "me"}, port : {"", "44", "70000"}, password : BOOLEAN, path : {"", "/", "/x"},
            config : SeqUpTo(4, ConfigLines)]

\* A plausible bug: a block ends only where the next one matches.
OpenBlock(config, i) == \E h \in 1..i : config[h] = [key |-> "host", val |-> "match"]

\* Line i is in a block that matches: the last host line before it does.
InBlock(config, i) ==
  \E h \in 1..i : /\ config[h] = [key |-> "host", val |-> "match"]
                  /\ \A g \in h + 1..i : config[g].key # "host"

\* The first value that a matching block gives the key, in the order of the file.
lookupSSHConfig(config, key) ==
  LET k == First({i \in DOMAIN config : /\ config[i].key = key /\ config[i].val # "junk"
                                        /\ InBlock(config, i)}, 0)
  IN IF k = 0 THEN "" ELSE config[k].val

parseURLTarget(t) ==
  IF t.password \/ t.path = "/x" \/ t.port = "70000" THEN [ok |-> FALSE]
  ELSE [ok |-> TRUE, user |-> t.user, port |-> t.port]

Or(v, else) == IF v = "" THEN else ELSE v
ParseTarget(t) ==
  IF ~parseURLTarget(t).ok THEN [ok |-> FALSE]
  ELSE [ok |-> TRUE,
        user |-> Or(t.user, lookupSSHConfig(t.config, "user")),
        port |-> Or(Or(t.port, lookupSSHConfig(t.config, "port")), "22"),
        keyFile |-> lookupSSHConfig(t.config, "identityfile"),
        host |-> Or(lookupSSHConfig(t.config, "hostname"), "host")]

(***************************************************************************)
(* Host keys: a file of lines, each a host and the line it presented.      *)
(***************************************************************************)
Contacts == SeqUpTo(4, [host : {"a", "b"}, key : {"k1", "k2"}])

\* A plausible bug: the host is cut off the line as well.
ReadKeyOnly(file) == [h \in {line[1] : line \in file} |->
                        LET line == CHOOSE l \in file : l[1] = h IN <<line[Len(line)]>>]

\* host and the rest of its line.
readKnownHosts(file) == [h \in {line[1] : line \in file} |->
                           Tail(CHOOSE line \in file : line[1] = h)]

writeKnownHosts(store) == {<<h>> \o store[h] : h \in DOMAIN store}

\* The callback of one connection: [file, ok].
tofu(file, contact) ==
  LET store == readKnownHosts(file)
      line == <<contact.host, contact.key>>
  IN IF contact.host \in DOMAIN store
     THEN [file |-> file, ok |-> store[contact.host] = line]
     ELSE [file |-> writeKnownHosts([h \in DOMAIN store \cup {contact.host} |->
                                       IF h = contact.host THEN line ELSE store[h]]),
           ok |-> TRUE]

(***************************************************************************)
(* Credentials                                                             *)
(***************************************************************************)
\* What a server asks, one after the other; echos of its questions.
Challenges == SeqUpTo(3, [kind : {"password"}, echos : {<<>>}]
                         \cup [kind : {"interactive"}, echos : SeqUpTo(2, BOOLEAN)])
Sources == [env : BOOLEAN, terminal : BOOLEAN, typed : BOOLEAN]

\* passwordSource.get: the answer, or that there is none, is remembered.
get(asked, source) ==
  IF asked.done THEN asked
  ELSE [done |-> TRUE, prompts |-> IF ~source.env /\ source.terminal THEN 1 ELSE 0,
        known |-> source.env \/ (source.terminal /\ source.typed)]

\* A plausible bug: only the first question is looked at.
RefusesShown(challenge) == challenge.kind = "interactive"
                           /\ \E i \in {1} \cap DOMAIN challenge.echos : challenge.echos[i]

\* Whether a challenge is refused: several questions or none, or an answer that would be shown.
answerPasswordPrompt(challenge) ==
  challenge.kind = "interactive" /\ (Len(challenge.echos) # 1 \/ challenge.echos[1])

\* State after each challenge: what is known, and which challenges got the password.
Answered(challenges, source) ==
  LET f[n \in 0..Len(challenges)] ==
        IF n = 0 THEN [asked |-> [done |-> FALSE, prompts |-> 0, known |-> FALSE], told |-> {}]
        ELSE IF answerPasswordPrompt(challenges[n]) THEN f[n - 1]
        ELSE LET now == get(f[n - 1].asked, source)
             IN [asked |-> now, told |-> f[n - 1].told \cup (IF now.known THEN {n} ELSE {})]
  IN f[Len(challenges)]

\* Keys, in order: the explicit one, which must load, the defaults, the agent.
KeySources == [file : {"none", "good", "unreadable"}, defaults : 0..3, agent : BOOLEAN]
authMethods(k) ==
  IF k.file = "unreadable" THEN [ok |-> FALSE]
  ELSE [ok |-> TRUE, order |-> (IF k.file = "good" THEN <<"file">> ELSE <<>>)
                               \o [i \in 1..k.defaults |-> "default"]
                               \o (IF k.agent THEN <<"agent">> ELSE <<>>)]

(***************************************************************************)
(* Engines: URLs by scheme, spelling of the host, and port (0: none)       *)
(***************************************************************************)
Urls == [scheme : {"http", "https", "fake"}, host : {"h", "H", "i"}, port : {0, 80, 443, 8000}]
DefaultPort(u) == IF u.scheme = "https" THEN 443 ELSE 80
Lower(h) == IF h = "H" THEN "h" ELSE h

\* A plausible bug: the host and its port are all that counts.
OriginWithoutScheme(u) ==
  IF u.scheme = "fake" THEN <<>>
  ELSE <<Lower(u.host), IF u.port = 0 THEN DefaultPort(u) ELSE u.port>>

originOf(u) ==
  IF u.scheme = "fake" THEN <<>>
  ELSE <<u.scheme, Lower(u.host), IF u.port = 0 THEN DefaultPort(u) ELSE u.port>>

\* bearer.Apply: allowed are the URLs of --add.
admits(u, allowed) == originOf(u) # <<>> /\ \E a \in allowed : originOf(a) = originOf(u)

urlPort(u) == IF u.scheme = "fake" THEN 0 ELSE IF u.port # 0 THEN u.port ELSE DefaultPort(u)

\* The port under which agentwatch looks for connections to the engine.
parseEngineAddr(u) == IF u.port # 0 THEN u.port ELSE DefaultPort(u)

(***************************************************************************)
(* Models of an engine                                                     *)
(***************************************************************************)
Catalogs == SeqUpTo(4, [name : {"blank", "embed", "chat"}, loaded : BOOLEAN])

\* A plausible bug: the first loaded model, whatever it is for.
AnyLoaded(models) ==
  LET loaded == First({i \in DOMAIN models : models[i].loaded}, 0)
  IN IF loaded # 0 THEN loaded ELSE First({i \in DOMAIN models : models[i].name = "chat"}, 0)

\* Index of the model to probe, 0 for none.
probeModelName(models) ==
  LET usable == {i \in DOMAIN models : models[i].name = "chat"}
      loaded == First({i \in usable : models[i].loaded}, 0)
  IN IF loaded # 0 THEN loaded ELSE First(usable, 0)

(***************************************************************************)
(* What names and secrets promise                                          *)
(***************************************************************************)
\* What the URL says wins, a password in it never gets further, a value of the
\* configuration comes from a block about this host, and the first one wins: no line
\* further down changes what is found (ParseTarget, lookupSSHConfig).
TargetSound(t) == LET p == ParseTarget(t) IN
  /\ p.ok => ~t.password
  /\ p.ok => /\ t.user # "" => p.user = t.user
             /\ t.port # "" => p.port = t.port
             /\ p.port # ""
             /\ \A line \in ConfigLines, key \in {"user", "hostname", "port", "identityfile"} :
                  lookupSSHConfig(t.config, key) \in {"", lookupSSHConfig(Append(t.config, line), key)}
             /\ (\A i \in DOMAIN t.config : t.config[i] # [key |-> "host", val |-> "match"])
                  => p.host = "host" /\ p.keyFile = "" /\ p.user = t.user
             /\ \A i \in DOMAIN t.config :
                  (t.config[i] = [key |-> "host", val |-> "other"] /\ i = 1
                   /\ \A j \in 2..Len(t.config) : t.config[j].key # "host") => p.keyFile = ""
             /\ (Len(t.config) = 4 /\ t.config[1].val = "match" /\ t.config[2].val = "other"
                 /\ t.config[3].key # "host" /\ t.config[4].key # "host")
                  => p.host = "host" /\ p.keyFile = ""

\* First contact is remembered across the file, the same key is accepted ever after,
\* another one refused, and no host makes another forgotten (tofu).
KeysRemembered(contacts) ==
  LET f[n \in 0..Len(contacts)] ==
        IF n = 0 THEN [file |-> {}, ok |-> TRUE] ELSE tofu(f[n - 1].file, contacts[n])
      FirstKey(n) == contacts[First({i \in 1..n : contacts[i].host = contacts[n].host}, 0)].key
  IN \A n \in DOMAIN contacts : f[n].ok = (contacts[n].key = FirstKey(n))

\* The operator is asked once at most.  No challenge gets the password that asks several
\* questions, as that of a second factor, or one whose answer is shown; and when there is a
\* password, each challenge that asks just for it gets it (get, answerPasswordPrompt).
SecretKept(challenges, source) == LET end == Answered(challenges, source) IN
  /\ end.asked.prompts <= 1
  /\ source.env => end.asked.prompts = 0
  /\ end.told = IF source.env \/ (source.terminal /\ source.typed)
                THEN {n \in DOMAIN challenges : challenges[n] \in
                        {[kind |-> "password", echos |-> <<>>], [kind |-> "interactive", echos |-> <<FALSE>>]}}
                ELSE {}

\* No run lists it: "answering all of them with the same secret would send the password to
\* every prompt" (answerPasswordPrompt), also where they come one challenge after the other.
ToldOnce(challenges, source) ==
  \A m, n \in Answered(challenges, source).told : challenges[m].kind = challenges[n].kind => m = n

\* An explicit key is tried first or the connection is given up (authMethods).
KeyFirst(k) == LET a == authMethods(k) IN
  k.file # "none" => ~a.ok \/ a.order[1] = "file"

\* A token goes to the endpoints it was given for, in any spelling, and to no other:
\* not to another scheme, host or port (bearer).
TokenStays(u, a) == admits(u, {a}) <=>
  /\ u.scheme = a.scheme /\ u.scheme # "fake"
  /\ Lower(u.host) = Lower(a.host) /\ urlPort(u) = urlPort(a)

\* The process and the connections of an engine are looked for at one port
\* (parseEngineAddr: "its tokens would be counted twice").
PortsAgree(u) == u.scheme # "fake" => urlPort(u) = parseEngineAddr(u)

\* A probe goes to a model that can chat, one that is loaded if there is one.
ProbeSuits(models) == LET i == probeModelName(models) IN
  /\ i # 0 => models[i].name = "chat"
  /\ (i = 0 \/ ~models[i].loaded) => ~\E j \in DOMAIN models : models[j].name = "chat" /\ models[j].loaded
  /\ i = 0 => \A j \in DOMAIN models : models[j].name # "chat"
=============================================================================
