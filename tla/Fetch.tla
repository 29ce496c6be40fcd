-------------------------------- MODULE Fetch --------------------------------
(***************************************************************************)
(* fetch.py, the one download path of a fleet leg.  A run reads the        *)
(* robots.txt of every host it is sent to before it asks the host for      *)
(* anything, follows redirects itself, waits out a throttled server a      *)
(* bounded number of times, and continues a transfer that ended early, its *)
(* own or one an earlier run left on disk, with range requests.            *)
(*                                                                         *)
(* A byte is the version of the artifact it belongs to and its offset.     *)
(* What a server answers is its own choice at every request, within what   *)
(* HTTP lets it say of the bytes it sends.  A range request carries no     *)
(* If-Range and no validator of the answer is kept, so a 206 may be of a   *)
(* later version than the bytes it is appended to: `spliced` names it.     *)
(***************************************************************************)
EXTENDS Naturals, Sequences, FiniteSets, SequencesExt

CONSTANTS Url, First,   \* urls, and the one a leg asks for
          HostOf,       \* the host a request for a url goes to
          Cdx,          \* the urls `cdx_query` refuses
          Size, Cap,    \* length of the artifact, and the cap, in bytes
          Attempts, MaxHops, MaxResumes,   \* 4, 5 and 200 in the code
          MaxRuns,      \* bound on runs of the program over one destination
          MaxVersions   \* bound on versions of the artifact

ASSUME FetchAssumption ==
  /\ First \in Url /\ Cdx \subseteq Url /\ DOMAIN HostOf = Url
  /\ {Size, Cap, Attempts, MaxHops, MaxResumes, MaxRuns, MaxVersions} \subseteq Nat
  /\ Attempts > 0 /\ MaxVersions > 0
  /\ {"unread", "unreadable"} \cap Url = {}   \* the two marks of `robots` are not rules

VARIABLES
  version,   \* of the artifact on its server
  to,        \* the destination: "pipe", "probe", "approved" or "outside"
  sink,      \* the file, or what the pipe's reader has been given; NoFile when there is none
  fstep,     \* where the run is
  url, hops, attempt,
  robots,    \* the rules in hand, by host: the urls they allow, Unread or Unreadable
  declared,  \* Content-Length of the answer being read, None without one
  hashed,    \* what the hasher holds
  body,      \* the open response: bytes still to come, their version, how it ends
  tries, stalled, got,   \* of the range requests: sent, in a row without a byte, bytes of this one
  older,     \* the run continues a part an earlier run left
  exit,      \* how the last run ended
  began,     \* history: `sink` when the run started
  spliced,   \* history: a range was appended to bytes of another version in `sink`
  runs

NoFile == <<[v |-> 0, at |-> 0]>>
None   == 0
Unread == {"unread"}
Unreadable == {"unreadable"}

place    == <<url, hops, attempt, robots>>
transfer == <<declared, hashed, body, tries, stalled, got, older>>
fetchVars    == <<version, to, sink, fstep, place, transfer, exit, began, spliced, runs>>

Byte  == [v : 1..MaxVersions, at : 1..Size + 1]
Ends  == {"eof", "broken"}
Codes == {"running", "ok", "usage", "refused", "unreadable", "cap", "type", "failed", "cdx",
          "killed", "traceback"}

FetchTypeOK ==
  /\ version \in 1..MaxVersions /\ to \in {"pipe", "probe", "approved", "outside"}
  /\ sink = NoFile \/ sink \in BoundedSeq(Byte, Size + 1)
  /\ fstep \in {"idle", "check", "ask", "stream", "resume"}
  /\ url \in Url /\ hops \in 0..MaxHops /\ attempt \in 0..Attempts
  /\ \A h \in DOMAIN robots : robots[h] \in {Unread, Unreadable} \/ robots[h] \subseteq Url
  /\ declared \in 0..Size /\ hashed \in BoundedSeq(Byte, Size + 1)
  /\ body \in [left : 0..Size + 1, v : 0..MaxVersions, ends : Ends]
  /\ tries \in 0..MaxResumes /\ stalled \in 0..1 /\ got \in 0..Size /\ older \in BOOLEAN
  /\ spliced \in BOOLEAN /\ exit \in Codes /\ runs \in 0..MaxRuns

NoBody == [left |-> 0, v |-> 0, ends |-> "eof"]
NoRules == [h \in {HostOf[u] : u \in Url} |-> Unread]
AtRest ==
  /\ url' = First /\ hops' = 0 /\ attempt' = 0 /\ robots' = NoRules
  /\ declared' = None /\ hashed' = <<>> /\ body' = NoBody
  /\ tries' = 0 /\ stalled' = 0 /\ got' = 0 /\ older' = FALSE

FetchInit ==
  /\ version = 1 /\ to \in {"pipe", "probe", "approved", "outside"} /\ sink = NoFile
  /\ fstep = "idle" /\ url = First /\ hops = 0 /\ attempt = 0 /\ robots = NoRules
  /\ declared = None /\ hashed = <<>> /\ body = NoBody
  /\ tries = 0 /\ stalled = 0 /\ got = 0 /\ older = FALSE
  /\ exit = "killed" /\ began = NoFile /\ spliced = FALSE /\ runs = 0
-----------------------------------------------------------------------------
Length(s) == IF s = NoFile THEN 0 ELSE Len(s)

\* The run ends with a code.  What the receipt says of the bytes stays to be looked at.
Exit(code) ==
  /\ exit' = code /\ fstep' = "idle"
  /\ IF code = "ok" THEN UNCHANGED <<place, transfer>> ELSE AtRest

\* `_discard`: a failed fetch leaves nothing where it wrote.
Discard == sink' = IF to = "pipe" THEN sink ELSE NoFile
Keep    == UNCHANGED sink

Start ==
  /\ fstep = "idle" /\ runs < MaxRuns
  /\ runs' = runs + 1 /\ began' = sink
  /\ AtRest
  /\ IF to = "outside"
     THEN exit' = "usage" /\ UNCHANGED <<fstep, sink, spliced>>
     ELSE /\ exit' = "running" /\ fstep' = "check"
          /\ sink' = IF to = "pipe" THEN <<>> ELSE sink
          /\ spliced' = (to # "pipe" /\ spliced)
  /\ UNCHANGED <<version, to>>

\* One url, the caller's or a hop's: the CDX first, then the host's rules, read once a run.
Check(rules) ==
  /\ fstep = "check"
  /\ LET h == HostOf[url]
         known == IF robots[h] = Unread THEN rules ELSE robots[h] IN
     IF url \in Cdx THEN Exit("cdx")
     ELSE IF known = Unreadable THEN Exit("unreadable")
     ELSE IF url \notin known THEN Exit("refused")
     ELSE /\ robots' = [robots EXCEPT ![h] = known]
          /\ attempt' = 1 /\ fstep' = "ask"
          /\ UNCHANGED <<url, hops, transfer, exit>>
  /\ Keep /\ UNCHANGED <<version, to, began, spliced, runs>>

\* `wait`: a Retry-After longer than the run waits fails it, and so does the last attempt.
Throttled(long) ==
  /\ fstep = "ask"
  /\ IF long \/ attempt = Attempts THEN Exit("failed")
     ELSE attempt' = attempt + 1 /\ UNCHANGED <<url, hops, robots, fstep, transfer, exit>>
  /\ Keep /\ UNCHANGED <<version, to, began, spliced, runs>>

Redirected(next) ==
  /\ fstep = "ask"
  /\ IF hops = MaxHops THEN Exit("failed")
     ELSE /\ hops' = hops + 1 /\ url' = next /\ attempt' = 0 /\ fstep' = "check"
          /\ UNCHANGED <<robots, transfer, exit>>
  /\ Keep /\ UNCHANGED <<version, to, began, spliced, runs>>

\* An error status, a network failure, a redirect without or out of http.
NotServed ==
  /\ fstep = "ask"
  /\ Exit("failed")
  /\ Keep /\ UNCHANGED <<version, to, began, spliced, runs>>

\* A response that may carry `n` bytes and then end in its way.
Answer(n, ends) == [left |-> n, v |-> version, ends |-> ends]

\* The 200: the cap by Content-Length, the type, then the part an earlier run left.
Served(length, kind, n, ends) ==
  /\ fstep = "ask" /\ (length # None => n <= length)
  /\ IF length > Cap THEN Exit("cap") /\ Keep /\ UNCHANGED spliced
     ELSE IF kind = "bad" \/ (kind = "risky" /\ to = "probe") THEN Exit("type") /\ Keep /\ UNCHANGED spliced
     ELSE /\ declared' = length /\ UNCHANGED <<place, exit, stalled, tries, got>>
          /\ IF to # "pipe" /\ 0 < Length(sink) /\ Length(sink) < length
             THEN /\ hashed' = sink /\ older' = TRUE
                  /\ fstep' = "resume" /\ body' = NoBody /\ Keep
                  /\ UNCHANGED spliced
             ELSE /\ hashed' = <<>> /\ older' = FALSE
                  /\ fstep' = "stream" /\ body' = Answer(n, ends)
                  /\ sink' = <<>> /\ spliced' = FALSE
  /\ UNCHANGED <<version, to, began, runs>>

\* `stream`, one byte: the cap counts what is already written.
Read ==
  /\ fstep = "stream" /\ body.left > 0
  /\ IF Len(hashed) + 1 > Cap
     THEN Exit("cap") /\ (IF older THEN Keep ELSE Discard)
     ELSE LET b == [v |-> body.v, at |-> Len(hashed) + 1] IN
          /\ hashed' = Append(hashed, b) /\ sink' = Append(sink, b)
          /\ body' = [body EXCEPT !.left = @ - 1]
          /\ got' = IF tries = 0 THEN got ELSE got + 1
          /\ UNCHANGED <<fstep, place, declared, tries, stalled, older, exit>>
  /\ UNCHANGED <<version, to, began, spliced, runs>>

\* A failed resume removes the file only when this run began it.
Abandon == Exit("failed") /\ (IF older THEN Keep ELSE Discard)

MutFirstEnds ==
  /\ fstep = "stream" /\ body.left = 0 /\ tries = 0
  /\ IF body.ends = "broken" THEN Exit("failed") /\ Discard ELSE Exit("ok") /\ Keep
  /\ UNCHANGED <<version, to, began, spliced, runs>>

\* The first body ends.  A connection that dies fails a file and continues a pipe whose length
\* is known; a short body is continued.
FirstEnds ==
  /\ fstep = "stream" /\ body.left = 0 /\ tries = 0
  /\ IF body.ends = "broken" /\ (to # "pipe" \/ declared = None)
     THEN Exit("failed") /\ Discard
     ELSE IF declared # None /\ Len(hashed) < declared
     THEN fstep' = "resume" /\ Keep /\ UNCHANGED <<place, transfer, exit>>
     ELSE Exit("ok") /\ Keep
  /\ UNCHANGED <<version, to, began, spliced, runs>>

\* A range request's body ends, whole or broken: two in a row without a byte give up.
RangeEnds ==
  /\ fstep = "stream" /\ body.left = 0 /\ tries > 0
  /\ IF got = 0 /\ stalled = 1 THEN Abandon
     ELSE /\ stalled' = IF got = 0 THEN 1 ELSE 0
          /\ got' = 0 /\ fstep' = "resume" /\ Keep
          /\ UNCHANGED <<place, declared, hashed, body, tries, older, exit>>
  /\ UNCHANGED <<version, to, began, spliced, runs>>

Resumed ==
  /\ fstep = "resume" /\ Len(hashed) >= declared
  /\ Exit("ok") /\ Keep
  /\ UNCHANGED <<version, to, began, spliced, runs>>

AskRange == fstep = "resume" /\ Len(hashed) < declared

\* A 206 from the next byte, of at most what is missing.
Ranged(n, ends) ==
  /\ AskRange /\ tries < MaxResumes /\ n <= declared - Len(hashed)
  /\ tries' = tries + 1 /\ body' = Answer(n, ends) /\ got' = 0 /\ fstep' = "stream" /\ Keep
  /\ spliced' = (spliced \/ (hashed # <<>> /\ Last(hashed).v # version))
  /\ UNCHANGED <<place, declared, hashed, stalled, older, exit, version, to, began, runs>>

RangeThrottled ==
  /\ AskRange /\ tries < MaxResumes
  /\ tries' = tries + 1 /\ Keep
  /\ UNCHANGED <<fstep, place, declared, hashed, body, stalled, got, older, exit,
                 version, to, began, spliced, runs>>

\* A long Retry-After, a 200 that starts over, another status, a range from another byte, or
\* the last range request spent.
RangeRefused ==
  /\ AskRange
  /\ Abandon
  /\ UNCHANGED <<version, to, began, spliced, runs>>

\* The connection of a range request cannot be made: nothing above the request catches it.
RangeRaises ==
  /\ AskRange /\ tries < MaxResumes
  /\ Exit("traceback") /\ Keep
  /\ UNCHANGED <<version, to, began, spliced, runs>>

Kill ==
  /\ fstep # "idle"
  /\ exit' = "killed" /\ fstep' = "idle" /\ AtRest /\ Keep
  /\ UNCHANGED <<version, to, began, spliced, runs>>

\* The artifact is replaced on its server.
Change ==
  /\ version < MaxVersions
  /\ version' = version + 1
  /\ UNCHANGED <<to, sink, fstep, place, transfer, exit, began, spliced, runs>>

Run ==
  \/ \E rules \in {Unreadable} \cup SUBSET Url : Check(rules)
  \/ \E long \in BOOLEAN : Throttled(long)
  \/ \E next \in Url : Redirected(next)
  \/ NotServed
  \/ \E length \in {None, Size}, kind \in {"text", "risky", "bad"}, n \in 0..Size + 1, e \in Ends :
       Served(length, kind, n, e)
  \/ Read \/ FirstEnds \/ RangeEnds \/ Resumed
  \/ \E n \in 0..Size, e \in Ends : Ranged(n, e)
  \/ RangeThrottled \/ RangeRefused \/ RangeRaises

FetchNext == Start \/ Run \/ Kill \/ Change

\* A started run goes on; nothing makes a leg start one.
FetchFair == WF_fetchVars(Run)
FetchSpec == FetchInit /\ [][FetchNext]_fetchVars /\ FetchFair
-----------------------------------------------------------------------------
(* Properties. *)

OneVersion(s) == \A i, j \in 1..Len(s) : s[i].v = s[j].v

\* A receipt of a fetch whose length was known names the whole artifact: every byte once and in
\* order, and what was hashed is what was written.  The bytes are of one version when the receipt
\* counts no resume, and otherwise unless a range of another version was appended to a part.
OkIsWhole ==
  exit = "ok" /\ declared # None =>
    /\ hashed = sink /\ Len(sink) = declared
    /\ \A i \in DOMAIN sink : sink[i].at = i
    /\ (tries = 0 \/ ~spliced) => OneVersion(sink)

\* A run that failed leaves no file of its own, and takes nothing from a part it continued.
FailureLeavesNothing ==
  to # "pipe" /\ exit \in Codes \ {"running", "ok", "killed", "traceback"} =>
    \/ sink = NoFile
    \/ began # NoFile /\ IsPrefix(began, sink)

\* Nothing is asked of a url, the caller's or a hop's, that the rules of its own host, read in
\* this run, do not allow, and nothing of the CDX.
AskedAsAllowed ==
  fstep \in {"ask", "stream", "resume"} =>
    /\ url \notin Cdx
    /\ robots[HostOf[url]] \notin {Unread, Unreadable} /\ url \in robots[HostOf[url]]

\* Whatever the servers answer, a run ends.
FetchEnds == exit = "running" ~> exit # "running"

(***************************************************************************)
(* Said at fetch.py:59-60: a receipt is printed on success or failure.     *)
(* Not kept: a range request that cannot connect raises out of the run.    *)
(***************************************************************************)
EveryEndHasAReceipt == exit # "traceback"

(***************************************************************************)
(* Said at fetch.py:586-587: each round "hashes into the same `digest`, so *)
(* the sha256 is the whole artifact's".  Not kept: a range of an artifact  *)
(* that was replaced meanwhile is appended, and the sum is of no version.  *)
(***************************************************************************)
ShaIsOfOneArtifact == exit = "ok" /\ declared # None => OneVersion(sink)

(***************************************************************************)
(* A receipt is of the whole artifact, a failure leaves no file of its     *)
(* own, and nothing is asked that robots.txt does not allow, over          *)
(* redirects, resumes, kills and changes of the artifact (fetch.py).       *)
(***************************************************************************)
ReceiptIsSound == FetchTypeOK /\ OkIsWhole /\ FailureLeavesNothing /\ AskedAsAllowed
=============================================================================
