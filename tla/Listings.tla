------------------------------ MODULE Listings ------------------------------
(***************************************************************************)
(* What self-update takes from a release (internal/selfupdate): the name   *)
(* of a repository, the hosts it downloads from, and the checksum it holds *)
(* a download against.  SelfUpdate has the steps in between.               *)
(***************************************************************************)
EXTENDS Integers, Sequences, FiniteSets

CONSTANT NameLength     \* bound: characters of a repository

Series(n, S) == UNION {[1..k -> S] : k \in 0..n}

(***************************************************************************)
(* Repositories: characters that are alphanumeric (a) or themselves; "!"   *)
(* is any other one.                                                       *)
(***************************************************************************)
Repos == Series(NameLength, {"a", "-", ".", "/", "!"})
Slashes(s) == {i \in DOMAIN s : s[i] = "/"}

githubOwner(s) ==
  /\ s # <<>> /\ s[1] = "a" /\ s[Len(s)] = "a"
  /\ \A i \in DOMAIN s : s[i] \in {"a", "-"}

\* A plausible bug: only the alphabet of a name is checked.
RepoNameDotted(s) == s # <<>> /\ \A i \in DOMAIN s : s[i] \in {"a", ".", "-"}

githubRepoName(s) ==
  /\ s \notin {<<>>, <<".">>, <<".", ".">>}
  /\ \A i \in DOMAIN s : s[i] \in {"a", ".", "-"}

CutAt(s) == CHOOSE i \in Slashes(s) : \A j \in Slashes(s) : i <= j

ValidateRepo(s) ==
  /\ Slashes(s) # {}
  /\ LET i == CutAt(s)
         owner == SubSeq(s, 1, i - 1)
         name == SubSeq(s, i + 1, Len(s))
     IN githubOwner(owner) /\ githubRepoName(name)

(***************************************************************************)
(* Downloads: hops of redirects, and bodies longer than the limit          *)
(***************************************************************************)
Hops == Series(3, [tls : BOOLEAN, host : {"github.com", "x.githubusercontent.com", "elsewhere"}])
MaxHops == 2               \* of 10

githubDownloadHost(host) == host # "elsewhere"

\* How many hops are followed before one is refused.
githubRedirect(hops) ==
  LET ok[n \in 0..Len(hops)] ==
        n = 0 \/ (ok[n - 1] /\ n <= MaxHops /\ hops[n].tls /\ githubDownloadHost(hops[n].host))
  IN [n \in DOMAIN hops |-> ok[n]]

\* A plausible bug: the reader stops at the limit, and so does the check.
FetchClipped(size, limit) == IF size > limit THEN limit ELSE size

\* Bytes read from a body, or -1 for a refusal: one more than the limit is read.
fetch(size, limit) ==
  LET read == IF size > limit + 1 THEN limit + 1 ELSE size
  IN IF read > limit THEN -1 ELSE read

(***************************************************************************)
(* Checksums: lines of a listing                                           *)
(***************************************************************************)
ListingLines == [fields : {1, 2, 3}, base : {"asset", "other"}, sum : {"s1", "s2", "short"}]
Listed == Series(3, ListingLines)

\* The sum of the first line that is well-formed and about the file.
ChecksumFor(listing) ==
  LET about == {i \in DOMAIN listing : /\ listing[i].fields = 2 /\ listing[i].base = "asset"
                                       /\ listing[i].sum # "short"}
  IN IF about = {} THEN "none"
     ELSE listing[CHOOSE i \in about : \A j \in about : i <= j].sum

(***************************************************************************)
(* What self-update promises about them                                    *)
(***************************************************************************)
\* A repository that is accepted has two parts, and neither leads anywhere else in
\* the path of the request (ValidateRepo).
RepoSound(s) == ValidateRepo(s) =>
  /\ Cardinality(Slashes(s)) = 1
  /\ s[1] = "a" /\ \A i \in DOMAIN s : s[i] # "!"
  /\ ~\E i \in Slashes(s) : SubSeq(s, i + 1, Len(s)) \in {<<".">>, <<".", ".">>}

\* No hop leaves GitHub or TLS, and none is followed after one that did.
HopsSound(hops) == \A n \in DOMAIN hops : githubRedirect(hops)[n] =>
  n <= MaxHops /\ \A k \in 1..n : hops[k].tls /\ hops[k].host # "elsewhere"

\* What was read is all there was (fetch: "a truncated body cannot be parsed as a
\* complete archive").
WholeBody(size, limit) == fetch(size, limit) # -1 => fetch(size, limit) = size

\* A sum is one that the listing gives for this file, and a later line does not
\* replace it (ChecksumFor).
SumSound(listing) == ChecksumFor(listing) # "none" =>
  \E i \in DOMAIN listing :
    /\ listing[i].base = "asset" /\ listing[i].fields = 2 /\ listing[i].sum = ChecksumFor(listing)
    /\ \A j \in 1..i - 1 : listing[j].base = "other" \/ listing[j].fields # 2 \/ listing[j].sum = "short"
=============================================================================
