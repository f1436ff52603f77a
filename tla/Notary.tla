------------------------------- MODULE Notary -------------------------------
(***************************************************************************)
(* inverba/notary.py, NotaryService.observe, with inverba/robots.py and    *)
(* inverba/ssrf.py: the hosted notary fetches a URL on somebody's behalf,  *)
(* within its policy.                                                      *)
(*                                                                         *)
(* The calls of observe are coroutines of one event loop. A call runs      *)
(* without interruption from one await to the next, so a step is: the      *)
(* checks up to the first request (Observe), what follows the answer to    *)
(* the robots.txt request (RobotsAnswer), and what follows the answer to a *)
(* content request (FetchAnswer). The clock, the name server and the other *)
(* calls move in between.                                                  *)
(*                                                                         *)
(* A URL's netloc, its host name and its robots.txt are one element of     *)
(* Hosts. A name resolves to public addresses or it does not, when the     *)
(* notary asks. The client it hands a request to resolves the name again   *)
(* on connecting (ssrf.py, lines 11 to 17, documents that window), so what *)
(* is recorded of a request is the answer to the check, and nothing is     *)
(* said of where the connection goes. The service has a fetch engine,      *)
(* which may move on by itself: its browser loads the page again and       *)
(* follows redirects (fetch.py, lines 76 and 124), unseen by the checks.   *)
(***************************************************************************)
EXTENDS Integers, Sequences

CONSTANTS
    Tasks,          \* slots for concurrent calls of observe
    Urls, Hosts,
    Host,           \* the host of each URL
    Disallowed,     \* the URLs the robots.txt of their host disallows
    Gated,          \* the URLs that look login-walled
    RobotsAnswers,  \* what a request for robots.txt may meet
    EnforceRobots, RefuseLoginWalled, AllowPrivateNetworks,  \* the policy
    Interval,       \* per_domain_min_interval
    MaxRedirects,
    MaxClock,       \* bound: the last reading of the wall clock
    None

ASSUME UrlsAssumption == Host \in [Urls -> Hosts] /\ Disallowed \subseteq Urls /\ Gated \subseteq Urls
ASSUME RobotsAssumption == RobotsAnswers \subseteq {"served", "absent", "error"}
ASSUME PolicyAssumption ==
    /\ EnforceRobots \in BOOLEAN /\ RefuseLoginWalled \in BOOLEAN
    /\ AllowPrivateNetworks \in BOOLEAN
    /\ Interval \in Nat /\ MaxRedirects \in Nat
Refusals == {"private_network", "login_walled", "rate_limited", "robots_disallowed",
             "too_many_redirects"}

ASSUME NoneAssumption ==
    None \notin Urls \cup Int \cup Refusals \cup {"file", "empty", "signed", "failed"}
                  \cup {"public", "internal"}

VARIABLES
    clock,       \* the wall clock
    public,      \* the hosts that now resolve to public addresses only
    last,        \* _last_fetch_per_host; 0 when absent
    cache,       \* the RobotsChecker's parsers: of a file, of nothing, or absent
    call,        \* each slot's call of observe, or what its last one returned
    fetches,     \* history: the calls that reached the content, [host, at, settled]
    sent,        \* history: the request made by the last step, or None
    unserved     \* history: the hosts whose robots.txt was once not obtained

vars == <<clock, public, last, cache, call, fetches, sent, unserved>>

\* What the notary sees when it looks a URL's host up.
Addresses == {"public", "internal"}

Address(url) == IF Host[url] \in public THEN "public" ELSE "internal"

\* seen: the addresses of the host when the request was made. Nobody looks at the
\* engine's own requests.
Requests == [kind : {"robots", "first", "redirect", "engine"}, url : Urls,
             seen : Addresses \cup {None}]

\* An idle slot, and what its last call returned. seen: the addresses of the host of
\* the page, as the notary saw them.
Returned(verdict, seen) ==
    [pc |-> "idle", url |-> None, now |-> None, current |-> None, final |-> None,
     hop |-> 0, seen |-> seen, verdict |-> verdict]

Refused(code) == Returned(code, None)

\* A call that waits for an answer. final: where the engine has gone by itself.
Waiting(pc, url, now, current, hop) ==
    [pc |-> pc, url |-> url, now |-> now, current |-> current, final |-> None,
     hop |-> hop, seen |-> Address(current), verdict |-> None]

-----------------------------------------------------------------------------
(* The policy's conditions. *)

\* validate_public_url raises no SSRFError.
Resolves(url) == AllowPrivateNetworks \/ Host[url] \in public

\* Deliberately wrong: the hops rely on the check made by observe.
BugMayRequest(url) == url \in Urls

\* _validate, before the request of each hop.
MayRequest(url) == Resolves(url)

\* Deliberately wrong: the interval is one too short.
BugTooSoon(url) == clock - last[Host[url]] < Interval - 1

\* The per-domain rate limit.
TooSoon(url) == clock - last[Host[url]] < Interval

\* Deliberately wrong: the branches on the status code are swapped.
BugParser(answer) == IF answer = "served" THEN "empty" ELSE "file"

\* What the checker caches: only a 200 gives it lines to parse.
Parser(answer) == IF answer = "served" THEN "file" ELSE "empty"

\* can_fetch
Allows(parser, url) == parser = "empty" \/ url \notin Disallowed

\* The refusal of a call on url before any request, or None.
Refusal(url) ==
    IF ~Resolves(url) THEN "private_network"
    ELSE IF RefuseLoginWalled /\ url \in Gated THEN "login_walled"
    ELSE IF TooSoon(url) THEN "rate_limited"
    ELSE IF EnforceRobots /\ cache[Host[url]] # None /\ ~Allows(cache[Host[url]], url)
         THEN "robots_disallowed"
    ELSE None

\* The loop of _safe_fetch has a turn left for this hop.
Follows(hop) == hop <= MaxRedirects

\* Deliberately wrong: redirects after the first are not counted.
BugNextHop(hop) == IF hop = 0 THEN 1 ELSE hop

NextHop(hop) == hop + 1

-----------------------------------------------------------------------------
(* Actions. *)

Init ==
    /\ clock = Interval     \* the epoch is long past: no host has been fetched lately
    /\ public \in SUBSET Hosts
    /\ last = [h \in Hosts |-> 0]
    /\ cache = [h \in Hosts |-> None]
    /\ call = [t \in Tasks |-> Refused(None)]
    /\ fetches = << >>
    /\ sent = None
    /\ unserved = {}

\* The notary hands a request to its client, or to the engine.
Leaves(kind, url) ==
    sent' = [kind |-> kind, url |-> url, seen |-> Address(url)]

NothingLeaves == sent' = None

\* No call waits for the robots.txt of the host: its file is cached if it is
\* enforced, and whoever is rate-limited from now on stamps the host at once.
Settled(host) == \A s \in Tasks : call[s].pc = "robots" => Host[call[s].url] # host

\* One turn of _safe_fetch's loop, for the call on url that started at now: the
\* hop is validated, and requested if it may be.
Hop(t, url, now, current, hop) ==
    \/ /\ ~Follows(hop)
       /\ call' = [call EXCEPT ![t] = Refused("too_many_redirects")]
       /\ NothingLeaves /\ UNCHANGED fetches
    \/ /\ Follows(hop) /\ ~MayRequest(current)
       /\ call' = [call EXCEPT ![t] = Refused("private_network")]
       /\ NothingLeaves /\ UNCHANGED fetches
    \/ /\ Follows(hop) /\ MayRequest(current)
       /\ call' = [call EXCEPT ![t] = Waiting("fetch", url, now, current, hop)]
       /\ Leaves(IF hop = 0 THEN "first" ELSE "redirect", current)
       /\ fetches' = IF hop = 0
                     THEN Append(fetches, [host |-> Host[url], at |-> clock,
                                           settled |-> Settled(Host[url])])
                     ELSE fetches

\* Past the policy: the host is stamped with the time the call began.
Admit(t, url, now) ==
    /\ last' = [last EXCEPT ![Host[url]] = now]
    /\ Hop(t, url, now, url, 0)

\* observe(url) begins.
Refuse(t, url) ==
    /\ call[t].pc = "idle"
    /\ Refusal(url) # None
    /\ call' = [call EXCEPT ![t] = Refused(Refusal(url))]
    /\ NothingLeaves
    /\ UNCHANGED <<clock, public, last, cache, fetches, unserved>>

AskRobots(t, url) ==
    /\ call[t].pc = "idle"
    /\ Refusal(url) = None
    /\ EnforceRobots /\ cache[Host[url]] = None
    /\ call' = [call EXCEPT ![t] = Waiting("robots", url, clock, url, 0)]
    /\ Leaves("robots", url)
    /\ UNCHANGED <<clock, public, last, cache, fetches, unserved>>

FetchAtOnce(t, url) ==
    /\ call[t].pc = "idle"
    /\ Refusal(url) = None
    /\ EnforceRobots => cache[Host[url]] # None
    /\ Admit(t, url, clock)
    /\ UNCHANGED <<clock, public, cache, unserved>>

Observe(t, url) == Refuse(t, url) \/ AskRobots(t, url) \/ FetchAtOnce(t, url)

\* RobotsChecker.check resumes: whatever came is cached, then judged. A failure
\* is refused, yet what it leaves in the cache is the parser of an empty file.
RobotsAnswer(t, answer) ==
    LET url == call[t].url
        host == Host[url]
    IN  /\ call[t].pc = "robots"
        /\ cache' = [cache EXCEPT ![host] = Parser(answer)]
        /\ unserved' = IF answer = "served" THEN unserved ELSE unserved \cup {host}
        /\ \/ /\ answer # "error" /\ Allows(Parser(answer), url)
              /\ Admit(t, url, call[t].now)
           \/ /\ answer = "error" \/ ~Allows(Parser(answer), url)
              /\ call' = [call EXCEPT ![t] = Refused("robots_disallowed")]
              /\ NothingLeaves /\ UNCHANGED <<last, fetches>>
        /\ UNCHANGED <<clock, public>>

\* The engine moves on by itself: the browser loads the page, or follows a
\* redirect. _safe_fetch learns of it from final_url, when it is over.
Wander(t, to) ==
    /\ call[t].pc = "fetch"
    /\ call' = [call EXCEPT ![t].final = to]
    /\ sent' = [kind |-> "engine", url |-> to, seen |-> None]
    /\ UNCHANGED <<clock, public, last, cache, fetches, unserved>>

\* The engine's answer is a redirect, which a browser never surfaces.
Redirect(t, to) ==
    /\ call[t].pc = "fetch"
    /\ call[t].final = None
    /\ Hop(t, call[t].url, call[t].now, to, NextHop(call[t].hop))
    /\ UNCHANGED <<clock, public, last, cache, unserved>>

\* The URL of the answer: an exception's is the one that was asked for.
FinalUrls(c) == (IF c.final = None THEN {c.current} ELSE {c.final}) \cup {c.current}

\* A page is signed, unless the engine went on its own to a host that the notary
\* may not visit; nor is what the site denied or what failed.
Verdict(c, status, final) ==
    IF final # c.current /\ ~Resolves(final) THEN "private_network"
    ELSE IF RefuseLoginWalled /\ (status = "denied" \/ c.url \in Gated) THEN "login_walled"
    ELSE IF status = "ok" THEN "signed" ELSE "failed"

\* The answer is a page at final, a 401 or 403, or another failure.
Answer(t, status, final) ==
    LET c == call[t]
        seen == IF final = c.current THEN c.seen ELSE Address(final)
    IN  /\ c.pc = "fetch"
        /\ final \in FinalUrls(c)
        /\ status # "failed" /\ c.final # None => final = c.final
        /\ call' = [call EXCEPT ![t] = Returned(Verdict(c, status, final), seen)]
        /\ NothingLeaves
        /\ UNCHANGED <<clock, public, last, cache, fetches, unserved>>

FetchAnswer(t) ==
    \/ \E to \in Urls : Redirect(t, to)
    \/ \E status \in {"ok", "denied", "failed"}, final \in Urls : Answer(t, status, final)

Tick ==
    /\ clock < MaxClock
    /\ clock' = clock + 1
    /\ NothingLeaves
    /\ UNCHANGED <<public, last, cache, call, fetches, unserved>>

\* The addresses of a host change.
Rebind(h) ==
    /\ public' = IF h \in public THEN public \ {h} ELSE public \cup {h}
    /\ NothingLeaves
    /\ UNCHANGED <<clock, last, cache, call, fetches, unserved>>

Next ==
    \/ \E t \in Tasks, url \in Urls : Observe(t, url)
    \/ \E t \in Tasks, answer \in RobotsAnswers : RobotsAnswer(t, answer)
    \/ \E t \in Tasks, to \in Urls : Wander(t, to)
    \/ \E t \in Tasks : FetchAnswer(t)
    \/ Tick
    \/ \E h \in Hosts : Rebind(h)

Spec == Init /\ [][Next]_vars

\* Every request is answered or fails. The clients' timeouts (robots.py, line 85;
\* fetch.py, line 88) see to it when a site falls silent; they run per read, so that
\* a site that sends a byte now and then for ever does not exist is an assumption.
Fairness ==
    \A t \in Tasks :
        /\ WF_vars(\E answer \in RobotsAnswers : RobotsAnswer(t, answer))
        /\ WF_vars(FetchAnswer(t))

FairSpec == Spec /\ Fairness

-----------------------------------------------------------------------------
(* Properties. *)

Calls == [pc : {"idle", "robots", "fetch"}, url : Urls \cup {None}, now : Int \cup {None},
          current : Urls \cup {None}, final : Urls \cup {None}, hop : Nat, seen : Addresses \cup {None},
          verdict : Refusals \cup {"signed", "failed", None}]

\* Every variable has its type, and a call under way knows its URL and its start;
\* it is within its redirects.
TypeOK ==
    /\ clock \in Int
    /\ public \subseteq Hosts
    /\ last \in [Hosts -> Int]
    /\ cache \in [Hosts -> {"file", "empty", None}]
    /\ call \in [Tasks -> Calls]
    /\ \A t \in Tasks : call[t].pc # "idle" =>
          /\ call[t].url \in Urls /\ call[t].now \in Int /\ call[t].current \in Urls
          /\ call[t].hop <= MaxRedirects
    /\ fetches \in Seq([host : Hosts, at : Int, settled : BOOLEAN])
    /\ sent \in Requests \cup {None}
    /\ unserved \subseteq Hosts

\* Whatever the notary itself asks for, robots.txt and redirects included, is on a
\* host that resolved to public addresses when it was asked for, although names
\* change their addresses while a call waits (observe: "Nothing outbound may
\* precede this"); and so was the URL of every page it signs, or else it resolved
\* so when the engine was back from wherever it went by itself (_safe_fetch: "the
\* final address is validated too").
OnlyCheckedHosts ==
    ~AllowPrivateNetworks =>
        /\ sent # None => sent.kind = "engine" \/ sent.seen = "public"
        /\ \A t \in Tasks : call[t].verdict = "signed" => call[t].seen = "public"

\* Calls reach the content of one host at least Interval apart, in whatever order
\* they run (NotaryPolicy: "seconds between fetches per host"). NotarySlowRobots
\* shows that the stamp of a call that waited for robots.txt is too old for that.
Spaced(i, j) == fetches[j].at - fetches[i].at >= Interval

FetchesSpaced ==
    \A i, j \in DOMAIN fetches :
        i < j /\ fetches[i].host = fetches[j].host => Spaced(i, j)

\* What the code does keep to: after a fetch made when no call waited for the
\* robots.txt of its host any more, the one that fetches included, the host is left
\* alone for Interval, whatever calls overlapped before and however old the times
\* they stamped it with.
SpacedOnceSettled ==
    \A i, j \in DOMAIN fetches :
        i < j /\ fetches[i].host = fetches[j].host /\ fetches[i].settled => Spaced(i, j)

\* A URL its robots.txt disallows is fetched first-hand only from a host that once
\* failed to serve the file, whatever calls ran meanwhile and overwrote the cache.
RobotsHonouredIfServed ==
    EnforceRobots /\ sent # None =>
        (sent.kind = "first" /\ sent.url \in Disallowed => Host[sent.url] \in unserved)

\* Every call of observe returns, however the sites redirect it (_safe_fetch
\* follows at most max_redirects).
ObserveReturns == \A t \in Tasks : call[t].pc # "idle" ~> call[t].pc = "idle"
=============================================================================
