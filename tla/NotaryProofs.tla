---------------------------- MODULE NotaryProofs ----------------------------
(***************************************************************************)
(* Proofs about Notary, for any URLs, hosts, policy and number of calls.   *)
(***************************************************************************)
EXTENDS Notary, SequenceTheorems, TLAPS

\* What TypeOK says of the slots.
SlotsOK(calls) ==
    /\ calls \in [Tasks -> Calls]
    /\ \A t \in Tasks : calls[t].pc # "idle" =>
          /\ calls[t].url \in Urls /\ calls[t].now \in Int /\ calls[t].current \in Urls
          /\ calls[t].hop <= MaxRedirects

Fetch == [host : Hosts, at : Int, settled : BOOLEAN]

\* Every variable keeps its type, and no call outlives its redirects.
LEMMA InitType == Init => TypeOK
  <1> SUFFICES ASSUME Init PROVE TypeOK
    OBVIOUS
  <1> USE DEF Init, Refused, Returned
  <1>1. clock \in Int /\ public \subseteq Hosts /\ last \in [Hosts -> Int]
        /\ cache \in [Hosts -> {"file", "empty", None}] /\ sent \in Requests \cup {None}
        /\ unserved \subseteq Hosts
    BY PolicyAssumption
  <1>2. Refused(None) \in Calls
    BY DEF Calls
  <1>3. call \in [Tasks -> Calls] /\ \A t \in Tasks : call[t].pc = "idle"
    BY <1>2
  <1>4. fetches \in Seq([host : Hosts, at : Int, settled : BOOLEAN])
    OBVIOUS
  <1> QED
    BY <1>1, <1>3, <1>4 DEF TypeOK

\* A call that returns leaves a slot of the right type.
LEMMA ReturnType ==
    ASSUME TypeOK, NEW t \in Tasks, NEW v \in Refusals \cup {"signed", "failed", None},
           NEW seen \in Addresses \cup {None}
    PROVE  SlotsOK([call EXCEPT ![t] = Returned(v, seen)])
  <1>1. Returned(v, seen) \in Calls /\ Returned(v, seen).pc = "idle"
    BY DEF Returned, Calls
  <1> QED
    BY <1>1 DEF TypeOK, SlotsOK

LEMMA RefusedType ==
    ASSUME TypeOK, NEW t \in Tasks, NEW v \in Refusals
    PROVE  SlotsOK([call EXCEPT ![t] = Refused(v)])
  BY ReturnType DEF Refused

\* So does a call that waits, within its redirects.
LEMMA WaitingType ==
    ASSUME TypeOK, NEW t \in Tasks, NEW pc \in {"robots", "fetch"}, NEW url \in Urls,
           NEW now \in Int, NEW current \in Urls, NEW hop \in Nat, hop <= MaxRedirects
    PROVE  SlotsOK([call EXCEPT ![t] = Waiting(pc, url, now, current, hop)])
  <1> DEFINE c == Waiting(pc, url, now, current, hop)
  <1>1. c \in Calls /\ c.url \in Urls /\ c.now \in Int /\ c.current \in Urls
        /\ c.hop <= MaxRedirects
    BY DEF Waiting, Calls, Address, Addresses
  <1> HIDE DEF c
  <1> QED
    BY <1>1 DEF TypeOK, SlotsOK, c

\* What leaves the notary is a request.
LEMMA LeavesType ==
    ASSUME NEW kind \in {"robots", "first", "redirect"}, NEW url \in Urls, Leaves(kind, url)
    PROVE  sent' \in Requests
  BY DEF Leaves, Requests, Address, Addresses

\* A turn of _safe_fetch's loop keeps the types of what it changes.
LEMMA HopType ==
    ASSUME TypeOK, NEW t \in Tasks, NEW url \in Urls, NEW now \in Int, NEW current \in Urls,
           NEW hop \in Nat, Hop(t, url, now, current, hop)
    PROVE  /\ SlotsOK(call')
           /\ fetches' \in Seq(Fetch)
           /\ sent' \in Requests \cup {None}
  <1> USE DEF Fetch
  <1>1. CASE call' = [call EXCEPT ![t] = Refused("too_many_redirects")]
             /\ NothingLeaves /\ UNCHANGED fetches
    BY <1>1, RefusedType DEF TypeOK, Refusals, NothingLeaves
  <1>2. CASE call' = [call EXCEPT ![t] = Refused("private_network")]
             /\ NothingLeaves /\ UNCHANGED fetches
    BY <1>2, RefusedType DEF TypeOK, Refusals, NothingLeaves
  <1>3. CASE Follows(hop) /\ MayRequest(current)
             /\ call' = [call EXCEPT ![t] = Waiting("fetch", url, now, current, hop)]
             /\ Leaves(IF hop = 0 THEN "first" ELSE "redirect", current)
             /\ fetches' = IF hop = 0
                           THEN Append(fetches, [host |-> Host[url], at |-> clock,
                                                 settled |-> Settled(Host[url])])
                           ELSE fetches
    <2>1. SlotsOK(call')
      BY <1>3, WaitingType DEF Follows
    <2>2. [host |-> Host[url], at |-> clock, settled |-> Settled(Host[url])] \in Fetch
      BY UrlsAssumption DEF TypeOK, Settled
    <2>3. fetches' \in Seq(Fetch)
      <3> DEFINE f == [host |-> Host[url], at |-> clock, settled |-> Settled(Host[url])]
      <3>1. fetches \in Seq(Fetch)
        BY DEF TypeOK
      <3>2. f \in Fetch /\ fetches' = IF hop = 0 THEN Append(fetches, f) ELSE fetches
        BY <1>3, <2>2
      <3> HIDE DEF f, Fetch
      <3> QED
        BY <3>1, <3>2, AppendProperties
    <2>4. sent' \in Requests
      BY <1>3, LeavesType
    <2> QED
      BY <2>1, <2>3, <2>4
  <1> QED
    BY <1>1, <1>2, <1>3 DEF Hop

\* A refusal is one of the known codes.
LEMMA RefusalType == \A url \in Urls : Refusal(url) # None => Refusal(url) \in Refusals
  BY DEF Refusal, Refusals

LEMMA StepType == TypeOK /\ [Next]_vars => TypeOK'
  <1> SUFFICES ASSUME TypeOK, [Next]_vars PROVE TypeOK'
    OBVIOUS
  <1> USE UrlsAssumption DEF SlotsOK, Fetch, NothingLeaves
  <1>1. ASSUME NEW t \in Tasks, NEW url \in Urls, Refuse(t, url) PROVE TypeOK'
    BY <1>1, RefusalType, RefusedType DEF Refuse, TypeOK
  <1>2. ASSUME NEW t \in Tasks, NEW url \in Urls, AskRobots(t, url) PROVE TypeOK'
    <2>1. SlotsOK(call')
      BY <1>2, WaitingType, PolicyAssumption DEF AskRobots, TypeOK
    <2>2. sent' \in Requests
      BY <1>2, LeavesType DEF AskRobots
    <2> QED
      BY <1>2, <2>1, <2>2 DEF AskRobots, TypeOK
  <1>3. ASSUME NEW t \in Tasks, NEW url \in Urls, FetchAtOnce(t, url) PROVE TypeOK'
    <2>1. clock \in Int /\ Host[url] \in Hosts
      BY DEF TypeOK
    <2>2. Hop(t, url, clock, url, 0) /\ last' \in [Hosts -> Int]
      BY <1>3, <2>1 DEF FetchAtOnce, Admit, TypeOK
    <2> QED
      BY <1>3, <2>1, <2>2, HopType DEF FetchAtOnce, TypeOK
  <1>4. ASSUME NEW t \in Tasks, NEW answer \in RobotsAnswers, RobotsAnswer(t, answer)
        PROVE  TypeOK'
    <2>1. call[t].url \in Urls /\ call[t].now \in Int /\ Host[call[t].url] \in Hosts
      BY <1>4 DEF RobotsAnswer, TypeOK
    <2>2. cache' \in [Hosts -> {"file", "empty", None}] /\ unserved' \subseteq Hosts
          /\ UNCHANGED <<clock, public>>
      BY <1>4, <2>1 DEF RobotsAnswer, Parser, TypeOK
    <2>3. CASE Admit(t, call[t].url, call[t].now)
      <3>1. last' \in [Hosts -> Int]
        BY <2>3, <2>1 DEF Admit, TypeOK
      <3>2. PICK url \in Urls, now \in Int : url = call[t].url /\ now = call[t].now
        BY <2>1
      <3>3. Hop(t, url, now, url, 0)
        BY <2>3, <3>2 DEF Admit
      <3> QED
        BY <2>2, <3>1, <3>3, HopType DEF TypeOK
    <2>4. CASE call' = [call EXCEPT ![t] = Refused("robots_disallowed")]
               /\ NothingLeaves /\ UNCHANGED <<last, fetches>>
      BY <2>2, <2>4, RefusedType DEF TypeOK, Refusals
    <2> QED
      BY <1>4, <2>3, <2>4 DEF RobotsAnswer
  <1>5. ASSUME NEW t \in Tasks, NEW to \in Urls, Redirect(t, to) PROVE TypeOK'
    <2>1. call[t].url \in Urls /\ call[t].now \in Int /\ NextHop(call[t].hop) \in Nat
      BY <1>5 DEF Redirect, TypeOK, Calls, NextHop
    <2>2. PICK url \in Urls, now \in Int, hop \in Nat :
             url = call[t].url /\ now = call[t].now /\ hop = NextHop(call[t].hop)
      BY <2>1
    <2>3. Hop(t, url, now, to, hop)
      BY <1>5, <2>2 DEF Redirect
    <2> QED
      BY <1>5, <2>3, HopType DEF Redirect, TypeOK
  <1>6. ASSUME NEW t \in Tasks, NEW status \in {"ok", "denied", "failed"}, NEW final \in Urls,
               Answer(t, status, final)
        PROVE  TypeOK'
    <2>1. Verdict(call[t], status, final) \in Refusals \cup {"signed", "failed", None}
      BY DEF Verdict, Refusals
    <2>2. (IF final = call[t].current THEN call[t].seen ELSE Address(final))
             \in Addresses \cup {None}
      BY DEF TypeOK, Calls, Address, Addresses
    <2>3. PICK v \in Refusals \cup {"signed", "failed", None}, seen \in Addresses \cup {None} :
             call' = [call EXCEPT ![t] = Returned(v, seen)]
      BY <1>6, <2>1, <2>2 DEF Answer
    <2>4. SlotsOK(call')
      BY <2>3, ReturnType
    <2> QED
      BY <1>6, <2>4 DEF Answer, TypeOK
  <1>7. ASSUME NEW t \in Tasks, NEW to \in Urls, Wander(t, to) PROVE TypeOK'
    <2>1. [call[t] EXCEPT !.final = to] \in Calls
      BY DEF TypeOK, Calls
    <2>2. call' = [call EXCEPT ![t] = [call[t] EXCEPT !.final = to]]
      BY <1>7 DEF Wander
    <2>3. SlotsOK(call')
      BY <2>1, <2>2 DEF TypeOK, Calls
    <2> QED
      BY <1>7, <2>3 DEF Wander, TypeOK, Requests
  <1>8. CASE Tick
    BY <1>8 DEF Tick, TypeOK
  <1>9. ASSUME NEW h \in Hosts, Rebind(h) PROVE TypeOK'
    BY <1>9 DEF Rebind, TypeOK
  <1>10. CASE UNCHANGED vars
    BY <1>10 DEF vars, TypeOK
  <1> QED
    BY <1>1, <1>2, <1>3, <1>4, <1>5, <1>6, <1>7, <1>8, <1>9, <1>10
    DEF Next, Observe, FetchAnswer

\* The types hold throughout, so no call is ever past its last redirect.
THEOREM TypeCorrect == Spec => []TypeOK
  BY InitType, StepType, PTL DEF Spec

-----------------------------------------------------------------------------
(* What the notary asks for, and what it signs, is on checked hosts. *)

\* The host of the URL a call waits for had resolved to public addresses.
PublicInv ==
    /\ TypeOK
    /\ ~AllowPrivateNetworks => \A t \in Tasks : call[t].pc = "fetch" => call[t].seen = "public"
    /\ OnlyCheckedHosts

\* What a turn of the loop leaves in the slot.
LEMMA HopSlot ==
    ASSUME NEW t, NEW url, NEW now, NEW current, NEW hop, Hop(t, url, now, current, hop)
    PROVE  \E c :
              /\ call' = [call EXCEPT ![t] = c]
              /\ \/ c = Refused("too_many_redirects")
                 \/ c = Refused("private_network")
                 \/ c = Waiting("fetch", url, now, current, hop) /\ MayRequest(current)
  <1>1. CASE call' = [call EXCEPT ![t] = Refused("too_many_redirects")]
    BY <1>1
  <1>2. CASE call' = [call EXCEPT ![t] = Refused("private_network")]
    BY <1>2
  <1>3. CASE /\ call' = [call EXCEPT ![t] = Waiting("fetch", url, now, current, hop)]
             /\ MayRequest(current)
    BY <1>3
  <1> QED
    BY <1>1, <1>2, <1>3 DEF Hop

LEMMA HopPublic ==
    ASSUME PublicInv, NEW t \in Tasks, NEW url, NEW now, NEW current, NEW hop,
           Hop(t, url, now, current, hop), TypeOK'
    PROVE  PublicInv'
  <1> USE NoneAssumption DEF PublicInv
  <1>1. PICK c : /\ call' = [call EXCEPT ![t] = c]
                 /\ c.verdict # "signed"
                 /\ c.pc = "fetch" => c.seen = Address(current) /\ MayRequest(current)
    BY HopSlot DEF Refused, Returned, Waiting
  <1>2. ~AllowPrivateNetworks =>
           \A s \in Tasks : /\ call'[s].pc = "fetch" => call'[s].seen = "public"
                            /\ call'[s].verdict = "signed" => call'[s].seen = "public"
    BY <1>1 DEF MayRequest, Resolves, Address, OnlyCheckedHosts, TypeOK
  <1>3. ~AllowPrivateNetworks => (sent' # None => sent'.kind = "engine" \/ sent'.seen = "public")
    BY DEF Hop, NothingLeaves, Leaves, MayRequest, Resolves, Address
  <1> QED
    BY <1>2, <1>3 DEF OnlyCheckedHosts

LEMMA StepPublic == PublicInv /\ TypeOK' /\ [Next]_vars => PublicInv'
  <1> SUFFICES ASSUME PublicInv, TypeOK', [Next]_vars PROVE PublicInv'
    OBVIOUS
  <1> USE NoneAssumption
  <1>1. CASE UNCHANGED call /\ NothingLeaves
    BY <1>1 DEF PublicInv, OnlyCheckedHosts, NothingLeaves
  <1>2. ASSUME NEW t \in Tasks, NEW v, NothingLeaves,
               call' = [call EXCEPT ![t] = Refused(v)], v # "signed"
        PROVE  PublicInv'
    BY <1>2 DEF PublicInv, OnlyCheckedHosts, NothingLeaves, Refused, Returned, TypeOK
  <1>3. ASSUME NEW t \in Tasks, NEW url \in Urls, Refuse(t, url) PROVE PublicInv'
    <2>1. Refusal(url) # "signed"
      BY DEF Refusal
    <2> QED
      BY <1>2, <1>3, <2>1 DEF Refuse
  <1>4. ASSUME NEW t \in Tasks, NEW url \in Urls, AskRobots(t, url) PROVE PublicInv'
    <2>1. Resolves(url)
      BY <1>4, NoneAssumption DEF AskRobots, Refusal, Refusals
    <2>2. ~AllowPrivateNetworks => sent'.seen = "public"
      BY <1>4, <2>1 DEF AskRobots, Leaves, Resolves, Address
    <2>3. PICK c : call' = [call EXCEPT ![t] = c] /\ c = Waiting("robots", url, clock, url, 0)
      BY <1>4 DEF AskRobots
    <2>4. c.pc = "robots" /\ c.verdict = None
      BY <2>3 DEF Waiting
    <2> QED
      BY <2>2, <2>3, <2>4 DEF PublicInv, OnlyCheckedHosts, TypeOK
  <1>5. ASSUME NEW t \in Tasks, NEW url \in Urls, FetchAtOnce(t, url) PROVE PublicInv'
    BY <1>5, HopPublic DEF FetchAtOnce, Admit
  <1>6. ASSUME NEW t \in Tasks, NEW answer \in RobotsAnswers, RobotsAnswer(t, answer)
        PROVE  PublicInv'
    <2>1. CASE Admit(t, call[t].url, call[t].now)
      <3>1. PICK url, now : url = call[t].url /\ now = call[t].now
        OBVIOUS
      <3>2. Hop(t, url, now, url, 0)
        BY <2>1, <3>1 DEF Admit
      <3> QED
        BY <3>2, HopPublic
    <2> QED
      BY <1>2, <1>6, <2>1 DEF RobotsAnswer
  <1>7. ASSUME NEW t \in Tasks, NEW to \in Urls, Redirect(t, to) PROVE PublicInv'
    <2>1. PICK url, now, hop :
             url = call[t].url /\ now = call[t].now /\ hop = NextHop(call[t].hop)
      OBVIOUS
    <2>2. Hop(t, url, now, to, hop)
      BY <1>7, <2>1 DEF Redirect
    <2> QED
      BY <2>2, HopPublic
  <1>8. ASSUME NEW t \in Tasks, NEW to \in Urls, Wander(t, to) PROVE PublicInv'
    BY <1>8 DEF Wander, PublicInv, OnlyCheckedHosts, TypeOK, Calls
  <1>9. ASSUME NEW t \in Tasks, NEW status, NEW final \in Urls, Answer(t, status, final)
        PROVE  PublicInv'
    <2>1. PICK v, seen :
             /\ call' = [call EXCEPT ![t] = Returned(v, seen)]
             /\ v = Verdict(call[t], status, final)
             /\ seen = IF final = call[t].current THEN call[t].seen ELSE Address(final)
      BY <1>9 DEF Answer
    <2>2. ~AllowPrivateNetworks /\ v = "signed" => seen = "public"
      BY <1>9, <2>1 DEF Answer, Verdict, Resolves, Address, PublicInv
    <2>3. NothingLeaves
      BY <1>9 DEF Answer
    <2> QED
      BY <2>1, <2>2, <2>3 DEF PublicInv, OnlyCheckedHosts, NothingLeaves, Returned, TypeOK
  <1>10. CASE UNCHANGED vars
    BY <1>10 DEF vars, PublicInv, OnlyCheckedHosts
  <1> QED
    BY <1>1, <1>3, <1>4, <1>5, <1>6, <1>7, <1>8, <1>9, <1>10
    DEF Next, Observe, FetchAnswer, Tick, Rebind

\* Whatever the names resolve to, however calls interleave and wherever the engine
\* goes by itself, the notary asks only for URLs on hosts it has just found public,
\* and signs only pages of hosts it found so.
THEOREM PublicCorrect == Spec => []OnlyCheckedHosts
  <1>1. Init => PublicInv
    BY InitType, NoneAssumption
    DEF Init, PublicInv, OnlyCheckedHosts, Refused, Returned
  <1>2. PublicInv /\ [Next]_vars => PublicInv'
    BY StepType, StepPublic DEF PublicInv
  <1>3. PublicInv => OnlyCheckedHosts
    BY DEF PublicInv
  <1> QED
    BY <1>1, <1>2, <1>3, PTL DEF Spec

-----------------------------------------------------------------------------
(* robots.txt. The cache holds the parser of an empty file only for a host  *)
(* whose robots.txt was once not obtained.                                  *)

EmptyIsUnserved == \A h \in Hosts : cache[h] = "empty" => h \in unserved

RobotsInv == TypeOK /\ EmptyIsUnserved /\ RobotsHonouredIfServed

\* A hop asks for its own URL if for any, first-hand only at hop 0.
LEMMA HopSends ==
    ASSUME NEW t, NEW url, NEW now, NEW current, NEW hop, Hop(t, url, now, current, hop)
    PROVE  sent' # None /\ sent'.kind = "first" => hop = 0 /\ sent'.url = current
  BY DEF Hop, NothingLeaves, Leaves

LEMMA StepRobots == RobotsInv /\ TypeOK' /\ [Next]_vars => RobotsInv'
  <1> SUFFICES ASSUME RobotsInv, TypeOK', [Next]_vars PROVE (EmptyIsUnserved /\ RobotsHonouredIfServed)'
    BY DEF RobotsInv
  <1> USE UrlsAssumption DEF RobotsInv, NothingLeaves
  <1>1. CASE UNCHANGED <<cache, unserved>>
             /\ (sent' = sent \/ sent' = None \/ sent'.kind # "first")
    BY <1>1 DEF EmptyIsUnserved, RobotsHonouredIfServed
  <1>2. ASSUME NEW t \in Tasks, NEW url \in Urls, AskRobots(t, url)
        PROVE  (EmptyIsUnserved /\ RobotsHonouredIfServed)'
    BY <1>1, <1>2 DEF AskRobots, Leaves
  <1>3. ASSUME NEW t \in Tasks, NEW url \in Urls, FetchAtOnce(t, url)
        PROVE  (EmptyIsUnserved /\ RobotsHonouredIfServed)'
    <2>1. EmptyIsUnserved'
      BY <1>3 DEF FetchAtOnce, EmptyIsUnserved
    <2>2. EnforceRobots /\ url \in Disallowed => Host[url] \in unserved
      BY <1>3, NoneAssumption DEF FetchAtOnce, Refusal, Refusals, Allows, EmptyIsUnserved
    <2>3. Hop(t, url, clock, url, 0) /\ UNCHANGED unserved
      BY <1>3 DEF FetchAtOnce, Admit
    <2>4. RobotsHonouredIfServed'
      BY <2>2, <2>3, HopSends DEF RobotsHonouredIfServed
    <2> QED
      BY <2>1, <2>4
  <1>4. ASSUME NEW t \in Tasks, NEW answer \in RobotsAnswers, RobotsAnswer(t, answer)
        PROVE  (EmptyIsUnserved /\ RobotsHonouredIfServed)'
    <2>1. PICK url \in Urls, now \in Int : url = call[t].url /\ now = call[t].now
      BY <1>4 DEF RobotsAnswer, TypeOK
    <2>2. /\ cache' = [cache EXCEPT ![Host[url]] = Parser(answer)]
          /\ unserved' = IF answer = "served" THEN unserved ELSE unserved \cup {Host[url]}
      BY <1>4, <2>1 DEF RobotsAnswer
    <2>3. EmptyIsUnserved'
      BY <2>2 DEF EmptyIsUnserved, Parser, TypeOK
    <2>4. CASE Allows(Parser(answer), url) /\ Hop(t, url, now, url, 0)
      <3>1. url \in Disallowed => Host[url] \in unserved'
        BY <2>2, <2>4 DEF Allows, Parser
      <3> QED
        BY <2>3, <2>4, <3>1, HopSends DEF RobotsHonouredIfServed
    <2>5. CASE NothingLeaves
      BY <2>3, <2>5 DEF RobotsHonouredIfServed
    <2> QED
      BY <1>4, <2>1, <2>4, <2>5 DEF RobotsAnswer, Admit
  <1>5. ASSUME NEW t \in Tasks, NEW to \in Urls, Redirect(t, to)
        PROVE  (EmptyIsUnserved /\ RobotsHonouredIfServed)'
    <2>1. PICK url, now, hop :
             url = call[t].url /\ now = call[t].now /\ hop = NextHop(call[t].hop)
      OBVIOUS
    <2>2. Hop(t, url, now, to, hop)
      BY <1>5, <2>1 DEF Redirect
    <2>3. hop # 0
      BY <1>5, <2>1 DEF Redirect, NextHop, TypeOK, Calls
    <2> QED
      BY <1>1, <1>5, <2>2, <2>3, HopSends DEF Redirect
  <1> QED
    BY <1>1, <1>2, <1>3, <1>4, <1>5
    DEF Next, Observe, FetchAnswer, Refuse, Wander, Answer, Tick, Rebind, vars

\* A URL that robots.txt disallows is fetched first-hand only from a host that once
\* failed to serve the file, however many calls share the checker's cache.
THEOREM RobotsCorrect == Spec => []RobotsHonouredIfServed
  <1>1. Init => RobotsInv
    BY InitType, NoneAssumption DEF Init, RobotsInv, EmptyIsUnserved, RobotsHonouredIfServed
  <1>2. RobotsInv /\ [Next]_vars => RobotsInv'
    BY StepType, StepRobots DEF RobotsInv
  <1>3. RobotsInv => RobotsHonouredIfServed
    BY DEF RobotsInv
  <1> QED
    BY <1>1, <1>2, <1>3, PTL DEF Spec

-----------------------------------------------------------------------------
(* The rate limit. A settled fetch of a host stays settled: its robots.txt  *)
(* is cached for good if it is enforced, so no call waits for it any more,  *)
(* and every stamp of the host is the time of its fetch.                    *)

\* No call waits for the host's robots.txt, and none will.
ForGood(host) == Settled(host) /\ (EnforceRobots => cache[host] # None)

SpacingInv ==
    /\ TypeOK
    /\ \A i \in DOMAIN fetches : fetches[i].settled =>
          ForGood(fetches[i].host) /\ fetches[i].at <= last[fetches[i].host]
    /\ SpacedOnceSettled

\* What a step does to the stamps and the waiting calls of a host that is settled
\* for good: it neither moves the stamp back nor makes a call wait.
LEMMA SettledKept ==
    ASSUME TypeOK, TypeOK', [Next]_vars, NEW h \in Hosts, ForGood(h)
    PROVE  ForGood(h)' /\ last'[h] >= last[h]
  <1> USE UrlsAssumption, NoneAssumption DEF ForGood, Settled
  <1>1. CASE UNCHANGED <<last, cache, call>>
    BY <1>1 DEF TypeOK
  <1>2. ASSUME NEW t \in Tasks, NEW c, call' = [call EXCEPT ![t] = c], c.pc # "robots"
        PROVE  Settled(h)'
    BY <1>2 DEF TypeOK
  <1>3. ASSUME NEW t \in Tasks, NEW url, NEW now, NEW current, NEW hop,
               Hop(t, url, now, current, hop)
        PROVE  Settled(h)'
    <2>1. PICK c : call' = [call EXCEPT ![t] = c] /\ c.pc # "robots"
      BY <1>3, HopSlot DEF Refused, Returned, Waiting
    <2> QED
      BY <1>2, <2>1
  <1>4. ASSUME NEW t \in Tasks, NEW url \in Urls, Refuse(t, url) PROVE ForGood(h)' /\ last' = last
    BY <1>2, <1>4 DEF Refuse, Refused, Returned
  <1>5. ASSUME NEW t \in Tasks, NEW url \in Urls, AskRobots(t, url)
        PROVE  ForGood(h)' /\ last' = last
    <2>1. Host[url] # h
      BY <1>5 DEF AskRobots
    <2>2. \A s \in Tasks : call'[s].pc = "robots" => Host[call'[s].url] # h
      BY <1>5, <2>1 DEF AskRobots, Waiting, TypeOK
    <2> QED
      BY <1>5, <2>2 DEF AskRobots
  <1>6. ASSUME NEW t \in Tasks, NEW url \in Urls, FetchAtOnce(t, url)
        PROVE  ForGood(h)' /\ last'[h] >= last[h]
    <2>1. Settled(h)'
      BY <1>3, <1>6 DEF FetchAtOnce, Admit
    <2>2. last'[h] >= last[h]
      BY <1>6, PolicyAssumption
      DEF FetchAtOnce, Admit, Refusal, Refusals, TooSoon, TypeOK
    <2> QED
      BY <1>6, <2>1, <2>2 DEF FetchAtOnce
  <1>7. ASSUME NEW t \in Tasks, NEW answer \in RobotsAnswers, RobotsAnswer(t, answer)
        PROVE  ForGood(h)' /\ last'[h] >= last[h]
    <2>1. PICK url \in Urls, now \in Int : url = call[t].url /\ now = call[t].now
      BY <1>7 DEF RobotsAnswer, TypeOK
    <2>2. Host[url] # h
      BY <1>7, <2>1 DEF RobotsAnswer
    <2>3. cache'[h] = cache[h] /\ last'[h] = last[h] /\ last[h] \in Int
      BY <1>7, <2>1, <2>2 DEF RobotsAnswer, Admit, TypeOK
    <2>4. CASE Hop(t, url, now, url, 0)
      BY <1>3, <2>3, <2>4
    <2>5. CASE call' = [call EXCEPT ![t] = Refused("robots_disallowed")]
      <3>1. Refused("robots_disallowed").pc # "robots"
        BY DEF Refused, Returned
      <3> QED
        BY <1>2, <2>3, <2>5, <3>1
    <2> QED
      BY <1>7, <2>1, <2>4, <2>5 DEF RobotsAnswer, Admit
  <1>8. ASSUME NEW t \in Tasks, NEW to \in Urls, Redirect(t, to) PROVE ForGood(h)' /\ last' = last
    <2>1. PICK url, now, hop :
             url = call[t].url /\ now = call[t].now /\ hop = NextHop(call[t].hop)
      OBVIOUS
    <2>2. Hop(t, url, now, to, hop)
      BY <1>8, <2>1 DEF Redirect
    <2> QED
      BY <1>3, <1>8, <2>2 DEF Redirect
  <1>9. ASSUME NEW t \in Tasks, NEW to \in Urls, Wander(t, to) PROVE ForGood(h)' /\ last' = last
    BY <1>9 DEF Wander, TypeOK, Calls
  <1>10. ASSUME NEW t \in Tasks, NEW status, NEW final, Answer(t, status, final)
         PROVE  ForGood(h)' /\ last' = last
    BY <1>2, <1>10 DEF Answer, Returned
  <1> QED
    BY <1>1, <1>4, <1>5, <1>6, <1>7, <1>8, <1>9, <1>10
    DEF Next, Observe, FetchAnswer, Tick, Rebind, vars, TypeOK

\* A fetch that a step adds is stamped on its host, and, on a host that is settled
\* for good, it waited for Interval since the last stamp.
LEMMA NewFetch ==
    ASSUME TypeOK, TypeOK', [Next]_vars, fetches' # fetches
    PROVE  \E f \in Fetch :
              /\ fetches' = Append(fetches, f)
              /\ f.settled => ForGood(f.host)' /\ f.at <= last'[f.host]
              /\ ForGood(f.host) => f.at - last[f.host] >= Interval
  <1> USE UrlsAssumption, NoneAssumption
  <1>1. ASSUME NEW t \in Tasks, NEW url \in Urls, NEW now \in Int, Hop(t, url, now, url, 0)
        PROVE  \E f \in Fetch :
                  /\ fetches' = Append(fetches, f)
                  /\ f.host = Host[url] /\ f.at = clock /\ f.settled = Settled(Host[url])
    <2> DEFINE f == [host |-> Host[url], at |-> clock, settled |-> Settled(Host[url])]
    <2>1. f \in Fetch
      BY DEF Fetch, TypeOK, Settled
    <2>2. f.host = Host[url] /\ f.at = clock /\ f.settled = Settled(Host[url])
      OBVIOUS
    <2>3. fetches' = Append(fetches, f)
      BY <1>1 DEF Hop
    <2> QED
      BY <2>1, <2>2, <2>3
  <1>2. ASSUME NEW t \in Tasks, NEW url \in Urls, FetchAtOnce(t, url)
        PROVE  \E f \in Fetch :
                  /\ fetches' = Append(fetches, f)
                  /\ f.settled => ForGood(f.host)' /\ f.at <= last'[f.host]
                  /\ ForGood(f.host) => f.at - last[f.host] >= Interval
    <2>1. /\ Hop(t, url, clock, url, 0) /\ clock \in Int /\ Host[url] \in Hosts
          /\ last' = [last EXCEPT ![Host[url]] = clock]
          /\ clock - last[Host[url]] >= Interval
          /\ EnforceRobots => cache[Host[url]] # None
      <3>1. ~TooSoon(url)
        BY <1>2 DEF FetchAtOnce, Refusal, Refusals
      <3>2. clock \in Int /\ Host[url] \in Hosts /\ last[Host[url]] \in Int
        BY DEF TypeOK
      <3>3. clock - last[Host[url]] >= Interval
        BY <3>1, <3>2, PolicyAssumption DEF TooSoon
      <3> QED
        BY <1>2, <3>2, <3>3 DEF FetchAtOnce, Admit
    <2>2. PICK f \in Fetch :
             /\ fetches' = Append(fetches, f)
             /\ f.host = Host[url] /\ f.at = clock /\ f.settled = Settled(Host[url])
      BY <1>1, <2>1
    <2>3. last'[Host[url]] = clock
      BY <2>1 DEF TypeOK
    <2>4. Settled(Host[url]) => ForGood(Host[url])'
      BY <2>1, SettledKept DEF ForGood
    <2> QED
      BY <2>1, <2>2, <2>3, <2>4
  <1>3. ASSUME NEW t \in Tasks, NEW answer \in RobotsAnswers, RobotsAnswer(t, answer)
        PROVE  \E f \in Fetch :
                  /\ fetches' = Append(fetches, f)
                  /\ ~f.settled /\ ~ForGood(f.host)
    <2>1. PICK url \in Urls, now \in Int : url = call[t].url /\ now = call[t].now
      BY <1>3 DEF RobotsAnswer, TypeOK
    <2>2. Hop(t, url, now, url, 0)
      BY <1>3, <2>1 DEF RobotsAnswer, Admit
    <2>3. ~Settled(Host[url])
      BY <1>3, <2>1 DEF RobotsAnswer, Settled
    <2>4. PICK f \in Fetch :
             /\ fetches' = Append(fetches, f)
             /\ f.host = Host[url] /\ f.settled = Settled(Host[url])
      BY <1>1, <2>2
    <2> QED
      BY <2>3, <2>4 DEF ForGood
  <1>4. ASSUME NEW t \in Tasks, NEW to \in Urls, Redirect(t, to) PROVE FALSE
    <2>1. NextHop(call[t].hop) # 0
      BY <1>4 DEF Redirect, NextHop, TypeOK, Calls
    <2> QED
      BY <1>4, <2>1 DEF Redirect, Hop
  <1> QED
    BY <1>2, <1>3, <1>4
    DEF Next, Observe, FetchAnswer, Refuse, AskRobots, Wander, Answer, Tick, Rebind, vars

LEMMA StepSpacing == SpacingInv /\ TypeOK' /\ [Next]_vars => SpacingInv'
  <1> SUFFICES ASSUME SpacingInv, TypeOK', [Next]_vars PROVE SpacingInv'
    OBVIOUS
  <1> USE DEF SpacingInv
  <1>1. /\ DOMAIN fetches = 1 .. Len(fetches) /\ Len(fetches) \in Nat
        /\ \A i \in DOMAIN fetches : fetches[i] \in Fetch
        /\ last \in [Hosts -> Int] /\ last' \in [Hosts -> Int]
    BY LenProperties, ElementOfSeq DEF TypeOK, Fetch
  <1>2. ASSUME NEW i \in DOMAIN fetches, fetches[i].settled,
               NEW h \in Hosts, h = fetches[i].host
        PROVE  ForGood(h)' /\ fetches[i].at <= last'[h]
    <2>1. ForGood(h)' /\ last'[h] >= last[h]
      BY <1>2, SettledKept
    <2>2. fetches[i].at \in Int /\ last[h] \in Int /\ last'[h] \in Int
      BY <1>1 DEF Fetch
    <2> QED
      BY <1>2, <2>1, <2>2
  <1>3. CASE fetches' = fetches
    <2>1. \A i \in DOMAIN fetches : fetches[i].host \in Hosts
      BY <1>1 DEF Fetch
    <2> QED
      BY <1>2, <1>3, <2>1 DEF SpacedOnceSettled, Spaced
  <1>4. CASE fetches' # fetches
    <2>1. PICK f \in Fetch :
             /\ fetches' = Append(fetches, f)
             /\ f.settled => ForGood(f.host)' /\ f.at <= last'[f.host]
             /\ ForGood(f.host) => f.at - last[f.host] >= Interval
      BY <1>4, NewFetch
    <2>2. /\ Len(fetches') = Len(fetches) + 1
          /\ \A i \in DOMAIN fetches : fetches'[i] = fetches[i]
          /\ fetches'[Len(fetches) + 1] = f
          /\ DOMAIN fetches' = 1 .. Len(fetches')
      BY <2>1, AppendProperties DEF TypeOK, Fetch
    <2>3. \A i \in DOMAIN fetches' : i \in DOMAIN fetches \/ i = Len(fetches) + 1
      BY <1>1, <2>2
    <2>4. ASSUME NEW i \in DOMAIN fetches', fetches'[i].settled,
                 NEW h \in Hosts, h = fetches'[i].host
          PROVE  ForGood(h)' /\ fetches'[i].at <= last'[h]
      BY <1>2, <2>1, <2>2, <2>3, <2>4
    <2>5. SpacedOnceSettled'
      <3> SUFFICES ASSUME NEW i \in DOMAIN fetches', NEW j \in DOMAIN fetches', i < j,
                          fetches'[i].host = fetches'[j].host, fetches'[i].settled
                   PROVE  fetches'[j].at - fetches'[i].at >= Interval
        BY DEF SpacedOnceSettled, Spaced
      <3>1. i \in DOMAIN fetches
        BY <1>1, <2>2, <2>3
      <3>2. CASE j \in DOMAIN fetches
        BY <2>2, <3>1, <3>2 DEF SpacedOnceSettled, Spaced
      <3>3. CASE j = Len(fetches) + 1
        <4>1. fetches[i].host = f.host /\ fetches[i].settled
          BY <2>2, <3>1, <3>3
        <4>2. ForGood(f.host) /\ fetches[i].at <= last[f.host]
          BY <3>1, <4>1
        <4>3. f.at \in Int /\ fetches[i].at \in Int /\ last[f.host] \in Int
          BY <1>1, <3>1 DEF Fetch
        <4>4. f.at - last[f.host] >= Interval
          BY <2>1, <4>2
        <4> QED
          BY <2>2, <3>1, <3>3, <4>2, <4>3, <4>4, PolicyAssumption
      <3> QED
        BY <2>3, <3>2, <3>3
    <2>6. \A i \in DOMAIN fetches' : fetches'[i].host \in Hosts
      BY <1>1, <2>1, <2>2, <2>3 DEF Fetch
    <2> QED
      BY <2>4, <2>5, <2>6
  <1> QED
    BY <1>3, <1>4

\* Under every policy and however calls and answers interleave: after a fetch made
\* when no call waited for the robots.txt of its host, the host is left alone for
\* Interval.
THEOREM SpacingCorrect == Spec => []SpacedOnceSettled
  <1>1. Init => SpacingInv
    BY InitType DEF Init, SpacingInv, SpacedOnceSettled
  <1>2. SpacingInv /\ [Next]_vars => SpacingInv'
    BY StepType, StepSpacing DEF SpacingInv
  <1>3. SpacingInv => SpacedOnceSettled
    BY DEF SpacingInv
  <1> QED
    BY <1>1, <1>2, <1>3, PTL DEF Spec
=============================================================================
