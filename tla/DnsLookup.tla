------------------------------ MODULE DnsLookup ------------------------------
(***************************************************************************)
(* Looking a host up: the Java class Dns with its cache and its list of    *)
(* servers, the entry points it calls (jni.cpp), the loops of DNSQuery     *)
(* over one UDP socket, and the network.  The monitor of Dns holds one     *)
(* lookup at a time, so one set of locals is enough whatever the number of *)
(* threads; those that wait have no state yet.  Other threads may add      *)
(* servers or set the cache time meanwhile, without the monitor.  The      *)
(* clock is the wall clock, of Java and of C: it may be set back.          *)
(*                                                                         *)
(* What a reply says is one of three things, as DnsMessage shows: some     *)
(* addresses, none, or a reply that is refused.  Addresses are known by    *)
(* the host they are of.  One tick of the clock is a second.               *)
(***************************************************************************)
EXTENDS Integers, Sequences

CONSTANTS
    Hosts,
    InitServers, \* dnsServerIPs at first
    NewServers,  \* what addServerIP may add
    Adders,      \* the threads that call it
    IdOf,        \* of a second: what rand() gives after srand(second), cut to 16 bits
    Times,       \* retryTimes: polls of one socket
    InitCacheTime,
    CacheTimes,  \* what setCacheTimeInSeconds may be given
    PerSecond,   \* 1000 in the code
    IntMax,      \* the largest int
    MaxClock     \* bound of the clock

ASSUME TimesAssumption == Times \in Nat \ {0} /\ PerSecond \in Nat \ {0}
ASSUME ClockAssumption ==
    IntMax \in Nat \ {0} /\ MaxClock \in Nat /\ InitCacheTime \in Nat /\ CacheTimes \subseteq Nat
ASSUME NameAssumption ==
    /\ "none" \notin Hosts \cup NewServers
    /\ InitServers \in Seq(STRING) /\ NewServers \subseteq STRING
ASSUME QueryIdAssumption == IdOf \in [0..MaxClock -> Nat]

VARIABLES
    servers,   \* dnsServerIPs
    adding,    \* what a thread is about to add, having found it missing; or "none"
    cacheTime,
    cache,     \* hostIPCache: what of, and since when; at = -1 when there is no entry
    now,       \* the clock
    asked,     \* queries sent: the host and the trans_id
    pc,        \* where the lookup inside the monitor is; "none" when there is none
    call,      \* what it looks up: the host, and which way it tries first
    tried,     \* the ways it has tried
    size,      \* the size of the list, read before its elements
    list,      \* vec_dns_servers, copied one by one
    polls,     \* counter of get_ip_by_host
    sent,      \* trans_id
    found      \* the host the addresses found are of

settings == <<servers, adding, cacheTime>>
query == <<size, list, polls, sent>>
vars == <<settings, cache, now, asked, pc, call, tried, query, found>>

PCs == {"none", "choose", "size", "copy", "open", "poll"}
Ways == {"api", "servers"}
NoEntry == [of |-> "none", at |-> -1]
NoCall == [host |-> "none", first |-> "none"]

Init ==
    /\ servers = InitServers /\ adding = [a \in Adders |-> "none"] /\ cacheTime = InitCacheTime
    /\ cache = [h \in Hosts |-> NoEntry] /\ now = 0 /\ asked = {}
    /\ pc = "none" /\ call = NoCall /\ tried = {}
    /\ size = 0 /\ list = <<>> /\ polls = 0 /\ sent = 0 /\ found = "none"

-----------------------------------------------------------------------------
(* Dns: getHostIPFirstByAPI and getHostIPFirstByPublicDNSServer.            *)

\* cacheTime * 1000 is an int product: it wraps.
IntMillis(secs) ==
    LET m == 2 * (IntMax + 1)
        x == (secs * PerSecond) % m
    IN IF x > IntMax THEN x - m ELSE x

Fresh(entry) == (now - entry.at) * PerSecond <= IntMillis(cacheTime)

\* Into the monitor, and getHostIPFromCache: a fresh entry is the answer, one that
\* is not is removed.
Enter(h, way) ==
    /\ pc = "none"
    /\ cache[h].at >= 0 => ~Fresh(cache[h])
    /\ cache' = [cache EXCEPT ![h] = NoEntry]
    /\ pc' = "choose" /\ call' = [host |-> h, first |-> way]
    /\ UNCHANGED <<settings, now, asked, tried, query, found>>

\* Out of the monitor: the locals are gone.
Leave ==
    /\ pc' = "none" /\ call' = NoCall /\ tried' = {} /\ found' = "none"
    /\ size' = 0 /\ list' = <<>> /\ polls' = 0 /\ sent' = 0

\* The way that comes first, then the other if it gave nothing.
Way ==
    IF tried = {} THEN call.first
    ELSE IF found = "none" /\ tried # Ways THEN CHOOSE w \in Ways : w \notin tried
    ELSE "none"

\* dnsByAPI: getaddrinfo finds something or nothing.
AskApi ==
    /\ pc = "choose" /\ Way = "api"
    /\ tried' = tried \cup {"api"}
    /\ found' \in {"none", call.host}
    /\ UNCHANGED <<settings, cache, now, asked, pc, call, query>>

\* saveToCache, only if there is something to save.
Finish ==
    /\ pc = "choose" /\ Way = "none"
    /\ IF found = "none" THEN UNCHANGED cache
       ELSE cache' = [cache EXCEPT ![call.host] = [of |-> found, at |-> now]]
    /\ Leave
    /\ UNCHANGED <<settings, now, asked>>

-----------------------------------------------------------------------------
(* dnsBySpecifiedServers.                                                   *)

AskServers ==
    /\ pc = "choose" /\ Way = "servers"
    /\ tried' = tried \cup {"servers"}
    /\ pc' = "size"
    /\ UNCHANGED <<settings, cache, now, asked, call, query, found>>

\* get_vector: the size first, then element after element, of a list that may
\* change in between.
ReadSize ==
    /\ pc = "size" /\ pc' = "copy"
    /\ size' = Len(servers)
    /\ UNCHANGED <<settings, cache, now, asked, call, tried, list, polls, sent, found>>

CopyOneLess ==
    /\ pc = "copy"
    /\ IF Len(list) < size - 1
       THEN list' = Append(list, servers[Len(list) + 1]) /\ UNCHANGED pc
       ELSE pc' = "open" /\ UNCHANGED list
    /\ UNCHANGED <<settings, cache, now, asked, call, tried, size, polls, sent, found>>

CopyServer ==
    /\ pc = "copy"
    /\ IF Len(list) < size
       THEN list' = Append(list, servers[Len(list) + 1]) /\ UNCHANGED pc
       ELSE pc' = "open" /\ UNCHANGED list
    /\ UNCHANGED <<settings, cache, now, asked, call, tried, size, polls, sent, found>>

\* A server gave addresses, or every one has been asked in vain.
ServersAsked ==
    /\ pc = "open" /\ (list = <<>> \/ found # "none")
    /\ pc' = "choose"
    /\ UNCHANGED <<settings, cache, now, asked, call, tried, query, found>>

\* A DNSQuery for the next server: the socket is made and the query sent once, with
\* the trans_id of this second; or one of these fails.
SendQuery ==
    /\ pc = "open" /\ list # <<>> /\ found = "none"
    /\ list' = Tail(list)
    /\ \/ /\ asked' = asked \cup {[host |-> call.host, id |-> IdOf[now]]}
          /\ sent' = IdOf[now] /\ pc' = "poll"
       \/ UNCHANGED <<asked, sent, pc>>
    /\ UNCHANGED <<settings, cache, now, call, tried, size, polls, found>>

\* The transaction id is compared, the name in the question is not.
AnyReply(reply) == TRUE
Matches(reply) == reply.id = sent

\* The first datagram ends the loop, whatever it is: a reply to this query, or a
\* late or second one to an earlier query, whose socket had the same port.
Datagram ==
    /\ pc = "poll" /\ pc' = "open" /\ polls' = 0
    /\ \E reply \in asked :
          found' \in {"none"} \cup (IF Matches(reply) THEN {reply.host} ELSE {})
    /\ UNCHANGED <<settings, cache, now, asked, call, tried, size, list, sent>>

\* Nothing there: 100 ms of sleep, until the polls are used up.
PollAgain ==
    /\ pc = "poll"
    /\ UNCHANGED vars

NoDatagram ==
    /\ pc = "poll"
    /\ IF polls + 1 < Times THEN polls' = polls + 1 /\ UNCHANGED pc
                            ELSE polls' = 0 /\ pc' = "open"
    /\ UNCHANGED <<settings, cache, now, asked, call, tried, size, list, sent, found>>

-----------------------------------------------------------------------------
(* Without the monitor.                                                     *)

\* addServerIP is not synchronized: what contains has found may be added by another
\* thread before this one does.
Contains(a, ip) ==
    /\ adding[a] = "none" /\ \A i \in 1..Len(servers) : servers[i] # ip
    /\ adding' = [adding EXCEPT ![a] = ip]
    /\ UNCHANGED <<servers, cacheTime, cache, now, asked, pc, call, tried, query, found>>

AddServerIP(a) ==
    /\ adding[a] # "none" /\ adding' = [adding EXCEPT ![a] = "none"]
    /\ servers' = <<adding[a]>> \o servers
    /\ UNCHANGED <<cacheTime, cache, now, asked, pc, call, tried, query, found>>

SetCacheTimeInSeconds(secs) ==
    /\ secs >= 0 /\ cacheTime' = secs
    /\ UNCHANGED <<servers, adding, cache, now, asked, pc, call, tried, query, found>>

\* The clock goes on, or is set back.
Tick ==
    /\ now' \in (0..(now - 1)) \cup ({now + 1} \cap (0..MaxClock))
    /\ UNCHANGED <<settings, cache, asked, pc, call, tried, query, found>>

\* What the thread inside does of itself: a datagram is the network's doing.
Step == AskApi \/ Finish \/ AskServers \/ ReadSize \/ CopyServer
        \/ ServersAsked \/ SendQuery \/ NoDatagram

Next == \/ \E h \in Hosts, way \in Ways : Enter(h, way)
        \/ Step \/ Datagram
        \/ \E a \in Adders : AddServerIP(a) \/ \E ip \in NewServers : Contains(a, ip)
        \/ \E secs \in CacheTimes : SetCacheTimeInSeconds(secs)
        \/ Tick

\* The thread inside the monitor runs: it waits for nothing but a bounded sleep.
\* Nothing is said of who calls, of the network or of the clock.
Spec == Init /\ [][Next]_vars /\ WF_vars(Step)

-----------------------------------------------------------------------------
(* What is checked.                                                         *)

\* The variables have their types, and no more is copied than the list held.
TypeOK ==
    /\ servers \in Seq(STRING) /\ adding \in [Adders -> NewServers \cup {"none"}]
    /\ cacheTime \in Nat /\ now \in 0..MaxClock
    /\ cache \in [Hosts -> [of : Hosts \cup {"none"}, at : -1..MaxClock]]
    /\ asked \subseteq [host : Hosts, id : Nat] /\ sent \in Nat
    /\ pc \in PCs /\ tried \subseteq Ways /\ found \in Hosts \cup {"none"}
    /\ call \in (IF pc = "none" THEN {NoCall} ELSE [host : Hosts, first : Ways])
    /\ size \in 0..Len(servers) /\ list \in Seq(STRING) /\ Len(list) <= size
    /\ polls \in 0..(Times - 1)

\* What is cached for a host are addresses of that host, unless a query with the
\* same trans_id was sent for another one, in the same second, in one whose id is the
\* same, or in a second the clock was set back to: a late reply to that query is then
\* taken for an answer (analyze does not look at the name in the question).
CachedForHost ==
    \A h \in Hosts : cache[h].at >= 0 =>
        \/ cache[h].of = h
        \/ \E q, r \in asked : q.host = h /\ r.host = cache[h].of /\ q.id = r.id

\* addServerIP may move the list while get_vector copies it; even so each server
\* there was when the size was read is copied, but for as many of the last ones as
\* have been added since.
NoServerSkipped ==
    [][(pc = "copy" /\ pc' = "open") =>
        LET added == Len(servers) - size
        IN \A i \in 1..(size - added) : \E k \in 1..Len(list) : list[k] = servers[added + i]]_vars

\* However servers and network behave, a lookup comes to its end and leaves the
\* monitor to the others.
LookupEnds == (pc # "none") ~> (pc = "none")

=============================================================================
