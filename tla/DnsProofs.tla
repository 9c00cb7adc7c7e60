------------------------------ MODULE DnsProofs ------------------------------
(***************************************************************************)
(* What a lookup finds and which servers it asks, for all hosts, lists of  *)
(* servers, cache times and limits; and how the replies are read, for all  *)
(* names, addresses and numbers of answers.                                *)
(***************************************************************************)
EXTENDS DnsLookup, DnsMessage, SequenceTheorems, WellFoundedInduction, TLAPS

\* Queries for the two hosts had the same trans_id.
Mistakable(h, g, queries) == \E q, r \in queries : q.host = h /\ r.host = g /\ q.id = r.id

\* The query that is being waited for has been sent.
QuerySent == pc = "poll" => [host |-> call.host, id |-> sent] \in asked

\* What was found is of the host, or of one that may be mistaken for it.
FoundForHost == found # "none" => found = call.host \/ Mistakable(call.host, found, asked)

\* get_vector begins with an empty vector.
FreshList ==
    /\ tried = {} => found = "none" /\ list = <<>>
    /\ pc = "none" => tried = {}
    /\ pc = "choose" => list = <<>> \/ found # "none"
    /\ pc = "size" => list = <<>>
    /\ pc \in {"size", "copy"} => found = "none"
    /\ pc \in {"size", "copy", "open", "poll"} => tried # {}

\* While the list is copied: of the servers there were when the size was read, the
\* first ones are in the copy, all but as many as have been added since.
Copied ==
    pc = "copy" =>
        LET added == Len(servers) - size
        IN \A i \in 1..(Len(list) - added) : \E k \in 1..Len(list) : list[k] = servers[added + i]

\* All of it.
IInv ==
    TypeOK /\ QuerySent /\ FoundForHost /\ FreshList /\ Copied /\ CachedForHost

-----------------------------------------------------------------------------
\* It holds at first.
LEMMA InitIInv == Init => IInv
<1> SUFFICES ASSUME Init PROVE IInv
  OBVIOUS
<1>1. TypeOK
  <2>1. cache \in [Hosts -> [of : Hosts \cup {"none"}, at : -1..MaxClock]]
    BY ClockAssumption DEF Init, NoEntry
  <2>2. polls \in 0..(Times - 1)
    BY TimesAssumption DEF Init
  <2>2a. adding \in [Adders -> NewServers \cup {"none"}]
    BY DEF Init
  <2>3. servers \in Seq(STRING) /\ size \in 0..Len(servers) /\ list \in Seq(STRING) /\ Len(list) <= size
    BY NameAssumption DEF Init
  <2>. QED
    BY <2>1, <2>2, <2>2a, <2>3, ClockAssumption DEF Init, TypeOK, PCs
<1>2. QuerySent /\ FoundForHost /\ FreshList /\ Copied
  BY DEF Init, QuerySent, FoundForHost, FreshList, Copied
<1>3. CachedForHost
  BY DEF Init, CachedForHost, NoEntry
<1>. QED
  BY <1>1, <1>2, <1>3 DEF IInv

\* A step keeps the types,
LEMMA TypeStep == IInv /\ [Next]_vars => TypeOK'
<1> SUFFICES ASSUME IInv, [Next]_vars PROVE TypeOK'
  OBVIOUS
<1>. USE DEF settings, query, vars
<1>1. TypeOK /\ FreshList
  BY DEF IInv
<1>2. /\ servers \in Seq(STRING) /\ list \in Seq(STRING)
      /\ Len(servers) \in Nat /\ Len(list) \in Nat
      /\ now \in 0..MaxClock /\ MaxClock \in Nat
  BY <1>1, ClockAssumption DEF TypeOK
<1>3. ASSUME NEW h \in Hosts, NEW way \in Ways, Enter(h, way) PROVE TypeOK'
  <2>1. cache' \in [Hosts -> [of : Hosts \cup {"none"}, at : -1..MaxClock]]
    BY <1>1, <1>2, <1>3 DEF TypeOK, Enter, NoEntry
  <2>. QED
    BY <1>1, <1>3, <2>1 DEF TypeOK, Enter, PCs
<1>4. ASSUME AskApi PROVE TypeOK'
  <2>1. found' \in Hosts \cup {"none"}
    BY <1>1, <1>4 DEF TypeOK, AskApi
  <2>. QED
    BY <1>1, <1>4, <2>1 DEF TypeOK, AskApi, Ways
<1>5. ASSUME Finish PROVE TypeOK'
  <2>1. call.host \in Hosts
    BY <1>1, <1>5 DEF TypeOK, Finish
  <2>2. cache' \in [Hosts -> [of : Hosts \cup {"none"}, at : -1..MaxClock]]
    BY <1>1, <1>2, <1>5, <2>1 DEF TypeOK, Finish
  <2>3. /\ list' = <<>> /\ Len(list') = 0 /\ size' = 0 /\ polls' = 0 /\ sent' = 0
        /\ pc' = "none" /\ call' = NoCall /\ tried' = {} /\ found' = "none"
        /\ UNCHANGED <<settings, now, asked>>
    BY <1>5 DEF Finish, Leave
  <2>4. polls' \in 0..(Times - 1) /\ sent' \in Nat /\ size' \in 0..Len(servers) /\ Len(list') <= size'
    BY <1>2, <2>3, TimesAssumption
  <2>. QED
    BY <1>1, <2>2, <2>3, <2>4 DEF TypeOK, PCs
<1>6. ASSUME AskServers \/ ServersAsked PROVE TypeOK'
  BY <1>1, <1>6 DEF TypeOK, AskServers, ServersAsked, PCs, Ways
<1>7. ASSUME ReadSize PROVE TypeOK'
  <2>1. list = <<>> /\ Len(list) = 0
    BY <1>1, <1>7 DEF FreshList, ReadSize
  <2>. QED
    BY <1>1, <1>2, <1>7, <2>1 DEF TypeOK, ReadSize, PCs
<1>8. ASSUME CopyServer PROVE TypeOK'
  <2>1. CASE Len(list) < size
    <3>1. list' = Append(list, servers[Len(list) + 1]) /\ servers[Len(list) + 1] \in STRING
      BY <1>1, <1>2, <1>8, <2>1 DEF TypeOK, CopyServer
    <3>2. list' \in Seq(STRING) /\ Len(list') = Len(list) + 1
      BY <1>2, <3>1
    <3>3. Len(list') <= size
      BY <1>1, <1>2, <2>1, <3>2 DEF TypeOK
    <3>. QED
      BY <1>1, <1>8, <2>1, <3>2, <3>3 DEF TypeOK, CopyServer
  <2>2. CASE ~(Len(list) < size)
    BY <1>1, <1>8, <2>2 DEF TypeOK, CopyServer, PCs
  <2>. QED
    BY <2>1, <2>2
<1>9. ASSUME SendQuery PROVE TypeOK'
  <2>1. list' \in Seq(STRING) /\ Len(list') = Len(list) - 1
    BY <1>2, <1>9 DEF SendQuery
  <2>2. Len(list') <= size
    BY <1>1, <1>2, <2>1 DEF TypeOK
  <2>3. asked' \subseteq [host : Hosts, id : Nat] /\ sent' \in Nat /\ pc' \in {"open", "poll"}
    <3>1. IdOf[now] \in Nat /\ call.host \in Hosts
      BY <1>1, <1>2, <1>9, QueryIdAssumption DEF TypeOK, SendQuery
    <3>. QED
      BY <1>1, <1>9, <3>1 DEF TypeOK, SendQuery
  <2>. QED
    BY <1>1, <1>9, <2>1, <2>2, <2>3 DEF TypeOK, SendQuery, PCs
<1>10. ASSUME Datagram PROVE TypeOK'
  <2>1. found' \in Hosts \cup {"none"}
    BY <1>1, <1>10 DEF TypeOK, Datagram
  <2>2. polls' \in 0..(Times - 1)
    BY <1>10, TimesAssumption DEF Datagram
  <2>. QED
    BY <1>1, <1>10, <2>1, <2>2 DEF TypeOK, Datagram, PCs
<1>11. ASSUME NoDatagram PROVE TypeOK'
  <2>1. polls' \in 0..(Times - 1) /\ pc' \in {"open", "poll"}
    BY <1>1, <1>11, TimesAssumption DEF TypeOK, NoDatagram
  <2>. QED
    BY <1>1, <1>11, <2>1 DEF TypeOK, NoDatagram, PCs
<1>12. ASSUME NEW a \in Adders, AddServerIP(a) PROVE TypeOK'
  <2>1. adding[a] \in STRING
    BY <1>1, <1>12, NameAssumption DEF TypeOK, AddServerIP
  <2>2. servers' \in Seq(STRING) /\ Len(servers') = Len(servers) + 1
    <3>1. <<adding[a]>> \in Seq(STRING) /\ Len(<<adding[a]>>) = 1
      BY <2>1
    <3>. QED
      BY <1>2, <1>12, <3>1 DEF AddServerIP
  <2>3. size \in 0..Len(servers')
    BY <1>1, <1>2, <2>2 DEF TypeOK
  <2>4. adding' \in [Adders -> NewServers \cup {"none"}]
    BY <1>1, <1>12 DEF TypeOK, AddServerIP
  <2>. QED
    BY <1>1, <1>12, <2>2, <2>3, <2>4 DEF TypeOK, AddServerIP
<1>12a. ASSUME NEW a \in Adders, NEW ip \in NewServers, Contains(a, ip) PROVE TypeOK'
  <2>1. adding' \in [Adders -> NewServers \cup {"none"}]
    BY <1>1, <1>12a DEF TypeOK, Contains
  <2>. QED
    BY <1>1, <1>12a, <2>1 DEF TypeOK, Contains
<1>13. ASSUME NEW secs \in CacheTimes, SetCacheTimeInSeconds(secs) PROVE TypeOK'
  BY <1>1, <1>13, ClockAssumption DEF TypeOK, SetCacheTimeInSeconds
<1>14. ASSUME Tick PROVE TypeOK'
  <2>1. now' \in 0..MaxClock
    BY <1>2, <1>14 DEF Tick
  <2>. QED
    BY <1>1, <1>14, <2>1 DEF TypeOK, Tick
<1>15. ASSUME UNCHANGED vars PROVE TypeOK'
  BY <1>1, <1>15 DEF TypeOK
<1>. QED
  BY <1>3, <1>4, <1>5, <1>6, <1>7, <1>8, <1>9, <1>10, <1>11, <1>12, <1>12a, <1>13, <1>14, <1>15
     DEF Next, Step

\* the list empty at first,
LEMMA FreshListStep == IInv /\ [Next]_vars => FreshList'
<1> SUFFICES ASSUME IInv, [Next]_vars PROVE FreshList'
  OBVIOUS
<1>. USE DEF settings, query, vars
<1>1. TypeOK /\ FreshList
  BY DEF IInv
<1>2. ASSUME NEW h \in Hosts, NEW way \in Ways, Enter(h, way) PROVE FreshList'
  BY <1>1, <1>2 DEF FreshList, Enter
<1>3. ASSUME AskApi PROVE FreshList'
  <2>1. list = <<>>
    BY <1>1, <1>3 DEF FreshList, AskApi, Way, Ways
  <2>. QED
    BY <1>1, <1>3, <2>1 DEF FreshList, AskApi
<1>4. ASSUME Finish PROVE FreshList'
  BY <1>4 DEF FreshList, Finish, Leave
<1>5. ASSUME AskServers PROVE FreshList'
  <2>1. found = "none"
    BY <1>1, <1>5 DEF FreshList, AskServers, Way
  <2>. QED
    BY <1>1, <1>5, <2>1 DEF FreshList, AskServers
<1>6. ASSUME ReadSize \/ CopyServer \/ ServersAsked PROVE FreshList'
  BY <1>1, <1>6 DEF FreshList, ReadSize, CopyServer, ServersAsked
<1>7. ASSUME SendQuery \/ Datagram \/ NoDatagram PROVE FreshList'
  BY <1>1, <1>7 DEF FreshList, SendQuery, Datagram, NoDatagram
<1>8. ASSUME UNCHANGED <<pc, tried, list, found>> PROVE FreshList'
  BY <1>1, <1>8 DEF FreshList
<1>. QED
  BY <1>2, <1>3, <1>4, <1>5, <1>6, <1>7, <1>8 DEF Next, Step, Contains, AddServerIP,
       SetCacheTimeInSeconds, Tick

\* Queries are never forgotten, so what may be mistaken stays so.
LEMMA MistakableStays ==
    ASSUME IInv, [Next]_vars
    PROVE  asked \subseteq asked' /\ \A h, g : Mistakable(h, g, asked) => Mistakable(h, g, asked')
<1>. USE DEF settings, query, vars
<1>1. asked \subseteq asked'
  BY DEF Next, Step, Enter, AskApi, Finish, AskServers, ReadSize, CopyServer, ServersAsked,
     SendQuery, Datagram, NoDatagram, Contains, AddServerIP, SetCacheTimeInSeconds, Tick
<1>. QED
  BY <1>1 DEF Mistakable

\* what was found of the host asked for,
LEMMA FoundStep == IInv /\ [Next]_vars => QuerySent' /\ FoundForHost'
<1> SUFFICES ASSUME IInv, [Next]_vars PROVE QuerySent' /\ FoundForHost'
  OBVIOUS
<1>. USE DEF settings, query, vars
<1>1. TypeOK /\ QuerySent /\ FoundForHost /\ FreshList
  BY DEF IInv
<1>2. \A h, g : Mistakable(h, g, asked) => Mistakable(h, g, asked')
  BY MistakableStays
<1>3. ASSUME NEW h \in Hosts, NEW way \in Ways, Enter(h, way)
      PROVE  QuerySent' /\ FoundForHost'
  BY <1>1, <1>3 DEF Enter, QuerySent, FoundForHost, FreshList
<1>4. ASSUME AskApi PROVE QuerySent' /\ FoundForHost'
  BY <1>4 DEF AskApi, QuerySent, FoundForHost
<1>5. ASSUME Finish PROVE QuerySent' /\ FoundForHost'
  BY <1>5 DEF Finish, Leave, QuerySent, FoundForHost
<1>6. ASSUME AskServers \/ ReadSize \/ CopyServer \/ ServersAsked \/ NoDatagram
      PROVE  QuerySent' /\ FoundForHost'
  <2>1. UNCHANGED <<asked, call, found, sent>> /\ (pc' = "poll" => pc = "poll")
    BY <1>6 DEF AskServers, ReadSize, CopyServer, ServersAsked, NoDatagram
  <2>. QED
    BY <1>1, <1>2, <2>1 DEF QuerySent, FoundForHost
<1>7. ASSUME SendQuery PROVE QuerySent' /\ FoundForHost'
  BY <1>7 DEF SendQuery, QuerySent, FoundForHost
<1>8. ASSUME Datagram PROVE QuerySent' /\ FoundForHost'
  <2>1. pc = "poll" /\ pc' = "open" /\ UNCHANGED <<asked, call, now>>
    BY <1>8 DEF Datagram
  <2>2. PICK answer \in asked :
          found' \in {"none"} \cup (IF Matches(answer) THEN {answer.host} ELSE {})
    BY <1>8 DEF Datagram
  <2>4. ASSUME found' # "none" PROVE Mistakable(call.host, found', asked)
    <3>1. answer.id = sent /\ found' = answer.host
      BY <2>2, <2>4 DEF Matches
    <3>2. [host |-> call.host, id |-> sent] \in asked
      BY <1>1, <2>1 DEF QuerySent
    <3>. QED
      BY <2>2, <3>1, <3>2 DEF Mistakable
  <2>. QED
    BY <2>1, <2>4 DEF QuerySent, FoundForHost, Mistakable
<1>9. ASSUME UNCHANGED <<asked, pc, call, sent, found>> PROVE QuerySent' /\ FoundForHost'
  BY <1>1, <1>2, <1>9 DEF QuerySent, FoundForHost
<1>. QED
  BY <1>3, <1>4, <1>5, <1>6, <1>7, <1>8, <1>9 DEF Next, Step, Contains, AddServerIP,
       SetCacheTimeInSeconds, Tick

\* what is cached,
LEMMA CachedStep == IInv /\ [Next]_vars => CachedForHost'
<1> SUFFICES ASSUME IInv, [Next]_vars PROVE CachedForHost'
  OBVIOUS
<1>. USE DEF settings, query, vars
<1>1. TypeOK /\ FoundForHost /\ CachedForHost
  BY DEF IInv
<1>2. \A h, g : Mistakable(h, g, asked) => Mistakable(h, g, asked')
  BY MistakableStays
<1>3. SUFFICES \A h \in Hosts : cache'[h].at >= 0
                 => cache'[h].of = h \/ Mistakable(h, cache'[h].of, asked')
  BY DEF CachedForHost, Mistakable
<1>4. \A h \in Hosts : cache[h].at >= 0 => cache[h].of = h \/ Mistakable(h, cache[h].of, asked)
  BY <1>1 DEF CachedForHost, Mistakable
<1>5. ASSUME NEW g \in Hosts, NEW way \in Ways, Enter(g, way), NEW h \in Hosts, cache'[h].at >= 0
      PROVE  cache'[h].of = h \/ Mistakable(h, cache'[h].of, asked')
  <2>1. h # g
    BY <1>1, <1>5 DEF Enter, NoEntry, TypeOK
  <2>2. cache'[h] = cache[h]
    BY <1>1, <1>5, <2>1 DEF Enter, TypeOK
  <2>. QED
    BY <1>2, <1>4, <1>5, <2>2
<1>6. ASSUME Finish, NEW h \in Hosts, cache'[h].at >= 0
      PROVE  cache'[h].of = h \/ Mistakable(h, cache'[h].of, asked')
  <2>1. CASE found # "none" /\ h = call.host
    <3>1. cache'[h].of = found
      BY <1>1, <1>6, <2>1 DEF Finish, TypeOK
    <3>. QED
      BY <1>1, <1>2, <2>1, <3>1 DEF FoundForHost
  <2>2. CASE found = "none" \/ h # call.host
    <3>1. cache'[h] = cache[h]
      BY <1>1, <1>6, <2>2 DEF Finish, TypeOK
    <3>. QED
      BY <1>2, <1>4, <1>6, <3>1
  <2>. QED
    BY <2>1, <2>2
<1>7. ASSUME cache' = cache, NEW h \in Hosts, cache'[h].at >= 0
      PROVE  cache'[h].of = h \/ Mistakable(h, cache'[h].of, asked')
  BY <1>2, <1>4, <1>7
<1>. QED
  BY <1>5, <1>6, <1>7 DEF Next, Step, AskApi, AskServers, ReadSize, CopyServer, ServersAsked,
       SendQuery, Datagram, NoDatagram, Contains, AddServerIP, SetCacheTimeInSeconds, Tick

\* and what has been copied of the servers.
LEMMA CopiedStep == IInv /\ [Next]_vars => Copied'
<1> SUFFICES ASSUME IInv, [Next]_vars PROVE Copied'
  OBVIOUS
<1>. USE DEF settings, query, vars
<1>1. TypeOK /\ FreshList /\ Copied
  BY DEF IInv
<1>2. /\ servers \in Seq(STRING) /\ list \in Seq(STRING)
      /\ Len(servers) \in Nat /\ Len(list) \in Nat /\ size \in 0..Len(servers)
  BY <1>1 DEF TypeOK
<1>3. ASSUME ReadSize PROVE Copied'
  <2>1. list' = <<>> /\ size' = Len(servers) /\ servers' = servers /\ Len(list') = 0
    BY <1>1, <1>3 DEF FreshList, ReadSize
  <2>2. 1..(Len(list') - (Len(servers') - size')) = {}
    BY <1>2, <2>1
  <2>. QED
    BY <2>2 DEF Copied
<1>4. ASSUME CopyServer, pc' = "copy" PROVE Copied'
  <2>. DEFINE added == Len(servers) - size
  <2>1. /\ pc = "copy" /\ Len(list) < size /\ UNCHANGED <<servers, size>>
        /\ list' = Append(list, servers[Len(list) + 1])
    BY <1>4 DEF CopyServer
  <2>2. /\ Len(list') = Len(list) + 1 /\ list'[Len(list) + 1] = servers[Len(list) + 1]
        /\ \A k \in 1..Len(list) : list'[k] = list[k]
    BY <1>2, <2>1
  <2>3. added \in Nat
    BY <1>2
  <2>4. ASSUME NEW i \in 1..(Len(list) + 1 - added)
        PROVE  \E k \in 1..Len(list') : list'[k] = servers[added + i]
    <3>1. CASE i \in 1..(Len(list) - added)
      <4>1. PICK k \in 1..Len(list) : list[k] = servers[added + i]
        BY <1>1, <2>1, <3>1 DEF Copied
      <4>2. k \in 1..Len(list') /\ list'[k] = servers[added + i]
        BY <1>2, <2>2, <4>1
      <4>. QED
        BY <4>2
    <3>2. CASE i = Len(list) + 1 - added
      <4>1. added + i = Len(list) + 1 /\ Len(list) + 1 \in 1..Len(list')
        BY <1>2, <2>2, <2>3, <3>2
      <4>. QED
        BY <2>2, <4>1
    <3>. QED
      BY <1>2, <2>3, <3>1, <3>2
  <2>5. /\ Len(servers') - size' = added
        /\ Len(list') - (Len(servers') - size') = Len(list) + 1 - added
    BY <1>2, <2>1, <2>2
  <2>6. servers' = servers
    BY <2>1
  <2>. HIDE DEF added
  <2>. QED
    BY <2>4, <2>5, <2>6 DEF Copied
<1>5. ASSUME NEW a \in Adders, AddServerIP(a), pc' = "copy" PROVE Copied'
  <2>. DEFINE added == Len(servers) - size
  <2>1. pc = "copy" /\ UNCHANGED <<list, size>> /\ servers' = <<adding[a]>> \o servers
    BY <1>5 DEF AddServerIP
  <2>2. Len(servers') = Len(servers) + 1 /\ \A j \in 1..Len(servers) : servers'[j + 1] = servers[j]
    <3>1. adding[a] \in STRING
      BY <1>1, <1>5, NameAssumption DEF TypeOK, AddServerIP
    <3>2. <<adding[a]>> \in Seq(STRING) /\ Len(<<adding[a]>>) = 1
      BY <3>1
    <3>. QED
      BY <1>2, <2>1, <3>2
  <2>3. ASSUME NEW i \in 1..(Len(list) - (added + 1))
        PROVE  \E k \in 1..Len(list) : list[k] = servers'[added + 1 + i]
    <3>1. /\ i \in 1..(Len(list) - added) /\ added + i \in 1..Len(servers)
          /\ added + 1 + i = (added + i) + 1
      BY <1>1, <1>2 DEF TypeOK
    <3>2. servers'[added + 1 + i] = servers[added + i]
      BY <2>2, <3>1
    <3>. QED
      BY <1>1, <2>1, <3>1, <3>2 DEF Copied
  <2>4. Len(servers') - size' = added + 1 /\ list' = list
    BY <1>2, <2>1, <2>2
  <2>. QED
    BY <2>3, <2>4 DEF Copied
<1>6. ASSUME UNCHANGED <<servers, size, list>>, pc' = "copy" => pc = "copy" PROVE Copied'
  BY <1>1, <1>6 DEF Copied
<1>7. ASSUME pc' # "copy" PROVE Copied'
  BY <1>7 DEF Copied
<1>. QED
  BY <1>3, <1>4, <1>5, <1>6, <1>7 DEF Next, Step, Enter, AskApi, Finish, Leave, AskServers,
       ServersAsked, SendQuery, Datagram, NoDatagram, Contains, SetCacheTimeInSeconds, Tick

-----------------------------------------------------------------------------
(* The theorems.                                                            *)

\* The inductive invariant holds in every state of every lookup.
THEOREM Invariance == Spec => []IInv
<1>1. IInv /\ [Next]_vars => IInv'
  BY TypeStep, FreshListStep, FoundStep, CachedStep, CopiedStep DEF IInv
<1>. QED
  BY InitIInv, <1>1, PTL DEF Spec

\* What is cached has a host and a time, and get_vector copies no more servers than
\* the list held when its size was read.
THEOREM TypeInvariant == Spec => []TypeOK
<1>1. IInv => TypeOK
  BY DEF IInv
<1>. QED
  BY Invariance, <1>1, PTL

\* Java's cache gives a host no other host's addresses, unless queries for the two
\* had the same trans_id (DNSQuery::get_ip_by_host, Dns.saveToCache).
THEOREM CacheIsTrue == Spec => []CachedForHost
<1>1. IInv => CachedForHost
  BY DEF IInv
<1>. QED
  BY Invariance, <1>1, PTL

\* get_vector copies the servers that were there when it read the size, but for as
\* many of the last as addServerIP has put before them since.
THEOREM ServersCopied == Spec => NoServerSkipped
<1>1. ASSUME IInv, Next, pc = "copy", pc' = "open"
      PROVE  LET added == Len(servers) - size
             IN \A i \in 1..(size - added) : \E k \in 1..Len(list) : list[k] = servers[added + i]
  <2>1. CopyServer /\ ~(Len(list) < size)
    BY <1>1 DEF Next, Step, Enter, AskApi, Finish, Leave, AskServers, ReadSize, CopyServer,
       ServersAsked, SendQuery, Datagram, NoDatagram, Contains, AddServerIP, SetCacheTimeInSeconds, Tick
  <2>2. Len(list) = size
    BY <1>1, <2>1 DEF IInv, TypeOK
  <2>. QED
    BY <1>1, <2>2 DEF IInv, Copied
<1>2. IInv /\ [Next]_vars
        => [(pc = "copy" /\ pc' = "open") =>
              LET added == Len(servers) - size
              IN \A i \in 1..(size - added) :
                   \E k \in 1..Len(list) : list[k] = servers[added + i]]_vars
  BY <1>1
<1>. QED
  BY Invariance, <1>2, PTL DEF Spec, NoServerSkipped

-----------------------------------------------------------------------------
(* Induction, and sequences.                                                *)

\* A set of numbers that is not empty has a least one (from WFMin).
LEMMA Least == ASSUME NEW S \in SUBSET Nat, S # {}
               PROVE  \E m \in S : \A n \in S : m <= n
<1> DEFINE R == OpToRel(<, Nat)
<1>1. IsWellFoundedOn(R, Nat)
  BY NatLessThanWellFounded
<1>2. \A x, y \in Nat : <<x, y>> \in R <=> x < y
  BY DEF OpToRel
<1> HIDE DEF R
<1>3. PICK m \in S : \A n \in S : ~(<<n, m>> \in R)
  BY <1>1, WFMin
<1>4. \A n \in S : m <= n
  <2>1. TAKE n \in S
  <2>2. ~(n < m)
    BY <1>2, <1>3, <2>1
  <2>. QED
    BY <2>2
<1>. QED
  BY <1>4

\* Induction: what holds of 0 and of the next one holds of every number.
LEMMA Induct == ASSUME NEW S, 0 \in S, \A n \in Nat : n \in S => n + 1 \in S
                PROVE  Nat \subseteq S
<1>1. SUFFICES ASSUME Nat \ S # {} PROVE FALSE
  OBVIOUS
<1>2. PICK m \in Nat \ S : \A n \in Nat \ S : m <= n
  BY <1>1, Least
<1>3. m - 1 \in Nat
  BY <1>2
<1>. QED
  BY <1>2, <1>3


-----------------------------------------------------------------------------
(* Sequences of sequences.                                                  *)

\* g is the first n of seqs in a row, for each n.
IsFlat(g, seqs, n) == g = [i \in 1..n |-> IF i = 1 THEN seqs[i] ELSE g[i - 1] \o seqs[i]]

\* There is one of any length.
LEMMA FlatExists == ASSUME NEW seqs PROVE \A n \in Nat : \E g : IsFlat(g, seqs, n)
<1> DEFINE S == {n \in Nat : \E g : IsFlat(g, seqs, n)}
<1>1. 0 \in S
  <2>1. PICK g : g = [i \in 1..0 |-> seqs[i]]
    OBVIOUS
  <2>2. IsFlat(g, seqs, 0)
    BY <2>1 DEF IsFlat
  <2>. QED
    BY <2>2
<1>2. ASSUME NEW n \in Nat, n \in S PROVE n + 1 \in S
  <2>1. PICK g : IsFlat(g, seqs, n)
    BY <1>2
  <2>2. PICK last : last = IF n + 1 = 1 THEN seqs[n + 1] ELSE g[n] \o seqs[n + 1]
    OBVIOUS
  <2>3. PICK q : q = [i \in 1..(n + 1) |-> IF i = n + 1 THEN last ELSE g[i]]
    OBVIOUS
  <2>4. ASSUME NEW i \in 1..(n + 1) PROVE q[i] = IF i = 1 THEN seqs[i] ELSE q[i - 1] \o seqs[i]
    <3>1. CASE i = n + 1
      <4>1. i # 1 => q[i - 1] = g[n]
        BY <2>3, <3>1
      <4>. QED
        BY <2>2, <2>3, <3>1, <4>1
    <3>2. CASE i # n + 1
      <4>1. i \in 1..n /\ q[i] = g[i] /\ (i # 1 => q[i - 1] = g[i - 1])
        BY <2>3, <3>2
      <4>2. g[i] = IF i = 1 THEN seqs[i] ELSE g[i - 1] \o seqs[i]
        BY <2>1, <4>1 DEF IsFlat
      <4>. QED
        BY <4>1, <4>2
    <3>. QED
      BY <3>1, <3>2
  <2>5. q = [i \in 1..(n + 1) |-> IF i = 1 THEN seqs[i] ELSE q[i - 1] \o seqs[i]]
    BY <2>3, <2>4, Zenon
  <2>6. IsFlat(q, seqs, n + 1)
    BY <2>5 DEF IsFlat
  <2>. QED
    BY <2>6
<1>3. Nat \subseteq S
  BY <1>1, <1>2, Induct
<1>. QED
  BY <1>3

\* FlattenSeq ends with the last of them.
LEMMA FlatIs == ASSUME NEW seqs, NEW n \in Nat \ {0}, Len(seqs) = n
                PROVE  \E g : IsFlat(g, seqs, n) /\ SX!FlattenSeq(seqs) = g[n]
<1> DEFINE Body(f) == [i \in 1..n |-> IF i = 1 THEN seqs[i] ELSE f[i - 1] \o seqs[i]]
           H       == CHOOSE f : f = Body(f)
<1>1. SX!FlattenSeq(seqs) = H[n]
  BY DEF SX!FlattenSeq
<1>2. PICK g : IsFlat(g, seqs, n)
  BY FlatExists
<1>3. g = Body(g)
  BY <1>2 DEF IsFlat
<1>4. H = Body(H)
  BY <1>3, Zenon
<1>5. IsFlat(H, seqs, n)
  BY <1>4 DEF IsFlat
<1>. QED
  BY <1>1, <1>5

\* g and h have the same first k.
Alike(g, h, k) == \A i \in 1..k : g[i] = h[i]

\* Two that agree so far are the same so far.
LEMMA FlatSame == ASSUME NEW m \in Nat, NEW n \in Nat, NEW k \in Nat, k <= m, k <= n, NEW s, NEW t, NEW g, NEW h,
                         IsFlat(g, s, m), IsFlat(h, t, n), Alike(s, t, k)
                  PROVE  Alike(g, h, k)
<1> DEFINE S == {j \in Nat : j + 1 <= k => g[j + 1] = h[j + 1]}
<1>1. ASSUME NEW i \in 1..k
      PROVE  (i = 1 => g[i] = h[i]) /\ (i # 1 /\ g[i - 1] = h[i - 1] => g[i] = h[i])
  <2>1. i \in 1..m /\ i \in 1..n /\ s[i] = t[i]
    BY DEF Alike
  <2>2. g[i] = (IF i = 1 THEN s[i] ELSE g[i - 1] \o s[i])
    BY <2>1 DEF IsFlat
  <2>3. h[i] = (IF i = 1 THEN t[i] ELSE h[i - 1] \o t[i])
    BY <2>1 DEF IsFlat
  <2>. QED
    BY <2>1, <2>2, <2>3, Zenon
<1>2. 0 \in S
  BY <1>1
<1>3. ASSUME NEW j \in Nat, j \in S PROVE j + 1 \in S
  <2>1. SUFFICES ASSUME (j + 1) + 1 <= k PROVE g[(j + 1) + 1] = h[(j + 1) + 1]
    OBVIOUS
  <2>2. PICK i \in 1..k : i = (j + 1) + 1 /\ i # 1 /\ i - 1 = j + 1
    BY <2>1
  <2>3. g[i - 1] = h[i - 1]
    BY <1>3, <2>1, <2>2
  <2>. QED
    BY <1>1, <2>2, <2>3
<1>4. Nat \subseteq S
  BY <1>2, <1>3, Induct
<1>5. ASSUME NEW i \in 1..k PROVE g[i] = h[i]
  <2>1. i - 1 \in Nat /\ (i - 1) + 1 = i
    OBVIOUS
  <2>2. i - 1 \in S
    BY <1>4, <2>1
  <2>. QED
    BY <2>1, <2>2
<1>. QED
  BY <1>5 DEF Alike

\* What FlattenSeq makes of one more sequence.
FlatOf(T, s, x) == /\ SX!FlattenSeq(<<>>) = <<>>
                   /\ SX!FlattenSeq(s) \in Seq(T)
                   /\ SX!FlattenSeq(Append(s, x)) = SX!FlattenSeq(s) \o x

\* A sequence of sequences of T, in a row, is one of T.
LEMMA FlatTypes == ASSUME NEW T, NEW s \in Seq(Seq(T)) PROVE SX!FlattenSeq(s) \in Seq(T)
<1>1. PICK n \in Nat : n = Len(s)
  OBVIOUS
<1>2. CASE n = 0
  <2>1. s = <<>>
    BY <1>1, <1>2, EmptySeq, Zenon
  <2>2. SX!FlattenSeq(s) = s
    BY <1>1, <1>2 DEF SX!FlattenSeq
  <2>3. <<>> \in Seq(T)
    OBVIOUS
  <2>. QED
    BY <2>1, <2>2, <2>3, Zenon
<1>3. CASE n # 0
  <2>1. PICK g : IsFlat(g, s, n) /\ SX!FlattenSeq(s) = g[n]
    BY <1>1, <1>3, FlatIs
  <2>0. \A i \in 1..n : s[i] \in Seq(T)
    BY <1>1, ElementOfSeq
  <2>2. \A i \in 1..n : (i = 1 => g[i] = s[i]) /\ (i # 1 => g[i] = g[i - 1] \o s[i])
    <3> TAKE i \in 1..n
    <3>1. g[i] = IF i = 1 THEN s[i] ELSE g[i - 1] \o s[i]
      BY <2>1 DEF IsFlat
    <3>. QED
      BY <3>1, Zenon
  <2> DEFINE S == {j \in Nat : j + 1 <= n => g[j + 1] \in Seq(T)}
  <2>3. 0 \in S
    <3>1. 1 \in 1..n /\ 0 + 1 = 1
      BY <1>3
    <3>2. g[1] \in Seq(T)
      BY <2>0, <2>2, <3>1
    <3>. QED
      BY <3>1, <3>2
  <2>4. ASSUME NEW j \in Nat, j \in S PROVE j + 1 \in S
    <3>1. SUFFICES ASSUME (j + 1) + 1 <= n PROVE g[(j + 1) + 1] \in Seq(T)
      OBVIOUS
    <3>2. PICK i \in 1..n : i = (j + 1) + 1 /\ i # 1 /\ i - 1 = j + 1
      BY <3>1
    <3>3. g[i - 1] \in Seq(T)
      BY <2>4, <3>1, <3>2
    <3>4. g[i - 1] \o s[i] \in Seq(T)
      BY <2>0, <3>3, ConcatProperties
    <3>. QED
      BY <2>2, <3>2, <3>4
  <2>5. Nat \subseteq S
    BY <2>3, <2>4, Induct
  <2>6. n - 1 \in Nat /\ (n - 1) + 1 = n
    BY <1>3
  <2>7. n - 1 \in S
    BY <2>5, <2>6
  <2>. QED
    BY <2>1, <2>6, <2>7
<1>. QED
  BY <1>2, <1>3

\* With one more sequence at the end, it is what was there and then that one.
LEMMA FlatAppend == ASSUME NEW T, NEW s \in Seq(Seq(T)), NEW x \in Seq(T) PROVE FlatOf(T, s, x)
<1>1. PICK n \in Nat : n = Len(s)
  OBVIOUS
<1>2. PICK u : u = Append(s, x) /\ Len(u) = n + 1 /\ u[n + 1] = x /\ \A i \in 1..n : u[i] = s[i]
  <2>1. PICK U : U = Seq(T)
    OBVIOUS
  <2>2. s \in Seq(U) /\ x \in U
    BY <2>1
  <2>3. \A i \in 1..n : Append(s, x)[i] = s[i]
    BY <1>1, <2>2, AppendProperties
  <2>4. Len(Append(s, x)) = n + 1 /\ Append(s, x)[n + 1] = x
    BY <1>1, <2>2, AppendProperties
  <2>. QED
    BY <2>3, <2>4
<1>3. PICK h : IsFlat(h, u, n + 1) /\ SX!FlattenSeq(u) = h[n + 1]
  <2>1. n + 1 \in Nat \ {0}
    OBVIOUS
  <2>. QED
    BY <1>2, <2>1, FlatIs
<1>4. h[n + 1] = IF n + 1 = 1 THEN u[n + 1] ELSE h[(n + 1) - 1] \o u[n + 1]
  <2>1. PICK i : i = n + 1 /\ i \in 1..(n + 1)
    OBVIOUS
  <2>2. h[i] = IF i = 1 THEN u[i] ELSE h[i - 1] \o u[i]
    BY <1>3, <2>1 DEF IsFlat
  <2>. QED
    BY <2>1, <2>2
<1>5. SX!FlattenSeq(<<>>) = <<>>
  BY DEF SX!FlattenSeq
<1>6. SX!FlattenSeq(u) = SX!FlattenSeq(s) \o x
  <2>1. CASE n = 0
    <3>1. s = <<>> /\ <<>> \o x = x
      BY <1>1, <2>1, EmptySeq, ConcatEmptySeq
    <3>. QED
      BY <1>2, <1>3, <1>4, <1>5, <2>1, <3>1
  <2>2. CASE n # 0
    <3>1. PICK g : IsFlat(g, s, n) /\ SX!FlattenSeq(s) = g[n]
      BY <1>1, <2>2, FlatIs
    <3>2. n <= n /\ n <= n + 1 /\ n + 1 \in Nat /\ n \in 1..n /\ n + 1 # 1 /\ (n + 1) - 1 = n
      BY <2>2
    <3>3. Alike(g, h, n)
      <4>1. Alike(s, u, n)
        BY <1>2 DEF Alike
      <4>. QED
        BY <1>3, <3>1, <3>2, <4>1, FlatSame, Zenon
    <3>4. h[n + 1] = h[n] \o x
      BY <1>2, <1>4, <3>2
    <3>. QED
      BY <1>3, <3>1, <3>2, <3>3, <3>4 DEF Alike
  <2>. QED
    BY <2>1, <2>2
<1>. QED
  BY <1>2, <1>5, <1>6, FlatTypes DEF FlatOf

-----------------------------------------------------------------------------
(* Names: their labels and their bytes.                                     *)

\* A label that is not empty, and the bytes that are neither an end nor a pointer.
Named == Label \ {<<>>}
\* The bytes that are neither an end nor a pointer.
Plain == 1..191

\* Such a label is 1 to 63 plain bytes.
LEMMA NamedIs == ASSUME NEW l \in Named
                 PROVE  l \in Seq(33..126) /\ Len(l) \in 1..63
<1>1. l \in Seq(33..126) /\ Len(l) <= 63 /\ l # <<>>
  BY DEF Named, Label
<1>2. Len(l) \in Nat /\ Len(l) # 0
  BY <1>1, EmptySeq
<1>3. Len(l) \in 1..63
  <2>1. ASSUME NEW m \in Nat, m # 0, m <= 63 PROVE m \in 1..63
    BY <2>1
  <2>. QED
    BY <1>1, <1>2, <2>1, Zenon
<1>. QED
  BY <1>1, <1>3, Zenon

\* The bytes of a label.
Spell(l) == <<Len(l)>> \o l

\* They are plain.
LEMMA SpellIs == ASSUME NEW l \in Named
                 PROVE  /\ Spell(l) \in Seq(Plain) /\ Len(Spell(l)) = 1 + Len(l)
                        /\ Spell(l)[1] = Len(l) /\ \A j \in 1..Len(l) : Spell(l)[1 + j] = l[j]
<1>1. l \in Seq(33..126) /\ Len(l) \in 1..63
  BY NamedIs
<1>2. l \in Seq(Plain)
  <2>1. \A j \in 1..Len(l) : l[j] \in 33..126
    BY <1>1, ElementOfSeq, Zenon
  <2>2. \A j \in 1..Len(l) : l[j] \in Plain
    BY <2>1 DEF Plain
  <2>3. l = [j \in 1..Len(l) |-> l[j]]
    BY <1>1
  <2>4. PICK n, f : n \in Nat /\ n = Len(l) /\ f = l
    BY <1>1
  <2>5. f \in [1..n -> Plain]
    BY <2>2, <2>3, <2>4
  <2>. QED
    BY <2>4, <2>5
<1>3. PICK h : h = <<Len(l)>> /\ h \in Seq(Plain) /\ Len(h) = 1 /\ h[1] = Len(l)
  <2>0. PICK m \in 1..63 : m = Len(l)
    BY <1>1, Zenon
  <2>1. m \in Plain
    BY DEF Plain
  <2>2. PICK h : h = <<m>>
    OBVIOUS
  <2>3. h \in Seq(Plain) /\ Len(h) = 1 /\ h[1] = m
    BY <2>1, <2>2
  <2>. QED
    BY <2>0, <2>2, <2>3, Zenon
<1>4. h \o l \in Seq(Plain) /\ Len(h \o l) = Len(h) + Len(l)
  BY <1>2, <1>3, ConcatProperties
<1>5. \A i \in 1..(Len(h) + Len(l)) : (h \o l)[i] = IF i <= Len(h) THEN h[i] ELSE l[i - Len(h)]
  BY <1>2, <1>3, ConcatProperties
<1>6. (h \o l)[1] = Len(l)
  BY <1>1, <1>3, <1>5
<1>7. ASSUME NEW j \in 1..Len(l) PROVE (h \o l)[1 + j] = l[j]
  <2>1. PICK i : i = 1 + j /\ i \in 1..(Len(h) + Len(l)) /\ ~(i <= Len(h)) /\ i - Len(h) = j
    BY <1>1, <1>3
  <2>. QED
    BY <1>5, <2>1
<1>. QED
  BY <1>3, <1>4, <1>6, <1>7 DEF Spell

\* The bytes of one more label are added at the end.
LEMMA LabelsAppend == ASSUME NEW name \in Seq(Named), NEW l \in Named
                      PROVE  /\ Labels(<<>>) = <<>> /\ Labels(name) \in Seq(Plain)
                             /\ Labels(Append(name, l)) = Labels(name) \o Spell(l)
<1>1. PICK n \in Nat : n = Len(name)
  OBVIOUS
<1>2. PICK u : u = Append(name, l) /\ Len(u) = n + 1 /\ u[n + 1] = l /\ \A i \in 1..n : u[i] = name[i]
  <2>1. \A i \in 1..n : Append(name, l)[i] = name[i]
    BY <1>1, AppendProperties
  <2>2. Len(Append(name, l)) = n + 1 /\ Append(name, l)[n + 1] = l
    BY <1>1, AppendProperties
  <2>. QED
    BY <2>1, <2>2
<1>3. PICK s : s = [i \in 1..n |-> Spell(name[i])]
  OBVIOUS
<1>4. s \in Seq(Seq(Plain)) /\ Len(s) = n
  <2>1. \A i \in 1..n : name[i] \in Named
    BY <1>1
  <2>2. \A i \in 1..n : s[i] \in Seq(Plain)
    BY <1>3, <2>1, SpellIs
  <2>3. PICK U : U = Seq(Plain)
    OBVIOUS
  <2>4. s \in [1..n -> U]
    BY <1>3, <2>2, <2>3
  <2>5. s \in Seq(U) /\ Len(s) = n
    BY <2>4
  <2>. QED
    BY <2>3, <2>5
<1>5. PICK x : x = Spell(l) /\ x \in Seq(Plain)
  BY SpellIs
<1>6. FlatOf(Plain, s, x)
  BY <1>4, <1>5, FlatAppend
<1>7. Labels(name) = SX!FlattenSeq(s)
  BY <1>1, <1>3 DEF Labels, Spell
<1>8. Append(s, x) = [i \in 1..(n + 1) |-> Spell(u[i])]
  <2>1. PICK U : U = Seq(Plain)
    OBVIOUS
  <2>2. s \in Seq(U) /\ x \in U
    BY <1>4, <1>5, <2>1
  <2>3. PICK t : t = Append(s, x)
    OBVIOUS
  <2>4. t \in Seq(U) /\ Len(t) = n + 1 /\ t[n + 1] = x
    BY <1>4, <2>2, <2>3, AppendProperties
  <2>5. \A i \in 1..n : t[i] = s[i]
    BY <1>4, <2>2, <2>3, AppendProperties
  <2>6. ASSUME NEW i \in 1..(n + 1) PROVE t[i] = Spell(u[i])
    <3>1. CASE i = n + 1
      BY <1>2, <1>5, <2>4, <3>1
    <3>2. CASE i # n + 1
      <4>1. i \in 1..n
        BY <3>2
      <4>. QED
        BY <1>2, <1>3, <2>5, <4>1
    <3>. QED
      BY <3>1, <3>2
  <2>7. t = [i \in 1..(n + 1) |-> t[i]]
    BY <2>4
  <2>. QED
    BY <2>3, <2>6, <2>7
<1>9. Labels(u) = SX!FlattenSeq(Append(s, x))
  BY <1>2, <1>8 DEF Labels, Spell
<1>10. Labels(<<>>) = <<>>
  <2>1. [i \in 1..Len(<<>>) |-> <<Len(<<>>[i])>> \o <<>>[i]] = <<>>
    OBVIOUS
  <2>. QED
    BY <1>6, <2>1 DEF Labels, FlatOf
<1>. QED
  BY <1>2, <1>5, <1>6, <1>7, <1>9, <1>10 DEF FlatOf

-----------------------------------------------------------------------------
\* a[k] is where label k + 1 begins.
Places(name, a) == /\ a \in [0..Len(name) -> Nat] /\ a[0] = 0
                   /\ \A k \in 1..Len(name) : a[k] = a[k - 1] + 1 + Len(name[k])

\* w is the first k labels.
Spelled(w, name, a, k) ==
    /\ w \in Seq(Plain) /\ Len(w) = a[k]
    /\ \A i \in 1..k : /\ w[a[i - 1] + 1] = Len(name[i])
                       /\ \A j \in 1..Len(name[i]) : w[a[i - 1] + 1 + j] = name[i][j]

\* The places only grow.
LEMMA PlacesGrow == ASSUME NEW name \in Seq(Named), NEW a, Places(name, a)
                    PROVE  /\ \A k \in 0..Len(name) : a[k] \in Nat /\ a[k] >= k
                           /\ \A i, k \in 0..Len(name) : i < k => a[i] + 2 <= a[k]
<1>1. PICK n \in Nat : n = Len(name)
  OBVIOUS
<1>2. ASSUME NEW k \in 1..n PROVE a[k - 1] \in Nat /\ a[k] \in Nat /\ a[k] >= a[k - 1] + 2
  <2>1. name[k] \in Named /\ k - 1 \in 0..n /\ k \in 0..n
    BY <1>1
  <2>2. Len(name[k]) \in 1..63
    BY <2>1, NamedIs
  <2>3. a[k - 1] \in Nat
    BY <1>1, <2>1 DEF Places
  <2>4. a[k] = a[k - 1] + 1 + Len(name[k])
    BY <1>1 DEF Places
  <2>5. PICK x \in Nat, l \in 1..63 : x = a[k - 1] /\ l = Len(name[k])
    BY <2>2, <2>3
  <2>6. PICK y : y = a[k] /\ y = x + 1 + l
    BY <2>4, <2>5
  <2>7. y \in Nat /\ y >= x + 2
    BY <2>6
  <2>. QED
    BY <2>5, <2>6, <2>7
<1>3. ASSUME NEW k \in 0..n PROVE a[k] \in Nat
  BY <1>1 DEF Places
<1>4. \A k \in Nat : k <= n => a[k] >= k
  <2> DEFINE S == {k \in Nat : k <= n => a[k] >= k}
  <2>1. 0 \in S
    BY DEF Places
  <2>2. ASSUME NEW k \in Nat, k \in S PROVE k + 1 \in S
    <3>1. SUFFICES ASSUME k + 1 <= n PROVE a[k + 1] >= k + 1
      OBVIOUS
    <3>2. PICK j \in 1..n : j = k + 1 /\ j - 1 = k
      BY <3>1
    <3>3. a[k] \in Nat /\ a[k] >= k /\ a[j] \in Nat /\ a[j] >= a[k] + 2
      BY <1>2, <2>2, <3>1, <3>2
    <3>. QED
      BY <3>2, <3>3
  <2>3. Nat \subseteq S
    BY <2>1, <2>2, Induct
  <2>. QED
    BY <2>3
<1>5. ASSUME NEW i \in 0..n PROVE \A d \in Nat : i + d + 1 <= n => a[i] + 2 <= a[i + d + 1]
  <2> DEFINE S == {d \in Nat : i + d + 1 <= n => a[i] + 2 <= a[i + d + 1]}
  <2>1. 0 \in S
    <3>1. SUFFICES ASSUME i + 0 + 1 <= n PROVE a[i] + 2 <= a[i + 0 + 1]
      OBVIOUS
    <3>2. PICK k \in 1..n : k = i + 0 + 1 /\ k - 1 = i
      BY <3>1
    <3>3. a[k - 1] \in Nat /\ a[k] \in Nat /\ a[k] >= a[k - 1] + 2
      BY <1>2
    <3>. QED
      BY <3>2, <3>3
  <2>2. ASSUME NEW d \in Nat, d \in S PROVE d + 1 \in S
    <3>1. SUFFICES ASSUME i + (d + 1) + 1 <= n PROVE a[i] + 2 <= a[i + (d + 1) + 1]
      OBVIOUS
    <3>2. PICK k \in 1..n : k = i + (d + 1) + 1 /\ k - 1 = i + d + 1
      BY <3>1
    <3>3. a[k - 1] \in Nat /\ a[k] \in Nat /\ a[k] >= a[k - 1] + 2
      BY <1>2
    <3>4. a[i] \in Nat /\ a[i] + 2 <= a[k - 1]
      BY <1>3, <2>2, <3>1, <3>2
    <3>. QED
      BY <3>2, <3>3, <3>4
  <2>3. Nat \subseteq S
    BY <2>1, <2>2, Induct
  <2>. QED
    BY <2>3
<1>6. ASSUME NEW i \in 0..n, NEW k \in 0..n, i < k PROVE a[i] + 2 <= a[k]
  <2>1. PICK d \in Nat : k = i + d + 1
    <3>1. k - i - 1 \in Nat /\ k = i + (k - i - 1) + 1
      BY <1>6
    <3>. QED
      BY <3>1
  <2>2. i + d + 1 <= n
    BY <2>1
  <2>3. a[i] + 2 <= a[i + d + 1]
    BY <1>5, <2>2
  <2>. QED
    BY <2>1, <2>3
<1>. QED
  BY <1>1, <1>3, <1>4, <1>6

\* The first k labels are the first k - 1 and then label k.
LEMMA Begins == ASSUME NEW name \in Seq(Named), NEW k \in 1..Len(name)
                PROVE  /\ SubSeq(name, 1, k - 1) \in Seq(Named) /\ name[k] \in Named
                       /\ SubSeq(name, 1, k) = Append(SubSeq(name, 1, k - 1), name[k])
<1>1. PICK n \in Nat : n = Len(name)
  OBVIOUS
<1>2. PICK N : N = Named
  OBVIOUS
<1>3. name \in Seq(N) /\ 1 \in 1..Len(name) /\ k \in 1..Len(name) /\ k \in Int /\ k - 1 \in Int
  BY <1>1, <1>2
<1>4. SubSeq(name, 1, k) = SubSeq(name, 1, k - 1) \o <<name[k]>>
  BY <1>3, SubSeqRecursiveSecond
<1>5. \A i \in 1..(k - 1) : name[i] \in N
  BY <1>1, <1>3
<1>6. SubSeq(name, 1, k - 1) \in Seq(N)
  BY <1>3, <1>5, SubSeqProperties
<1>7. name[k] \in N
  BY <1>3
<1>8. Append(SubSeq(name, 1, k - 1), name[k]) = SubSeq(name, 1, k - 1) \o <<name[k]>>
  BY <1>6, <1>7, AppendIsConcat
<1>. QED
  BY <1>2, <1>4, <1>6, <1>7, <1>8

\* What is left after a label is that label's successors.
LEMMA Suffixes == ASSUME NEW name \in Seq(Named)
                  PROVE  /\ Suffix(name, 0) = name /\ Suffix(name, Len(name)) = <<>>
                         /\ \A k \in 0..(Len(name) - 1) :
                               Suffix(name, k) = <<name[k + 1]>> \o Suffix(name, k + 1)
<1>1. PICK n \in Nat : n = Len(name)
  OBVIOUS
<1>2. PICK N : N = Named
  OBVIOUS
<1>3. name \in Seq(N)
  BY <1>2
<1>4. SubSeq(name, 1, n) = name
  BY <1>1, <1>3, SubSeqFull
<1>5. SubSeq(name, n + 1, n) = <<>>
  BY SubSeqEmpty
<1>6. ASSUME NEW k \in 0..(n - 1)
      PROVE  SubSeq(name, k + 1, n) = <<name[k + 1]>> \o SubSeq(name, (k + 1) + 1, n)
  <2>1. k + 1 \in 1..n /\ n \in (k + 1)..n
    OBVIOUS
  <2>. QED
    BY <1>1, <1>3, <2>1, SubSeqRecursiveFirst
<1>. QED
  BY <1>1, <1>4, <1>5, <1>6 DEF Suffix

\* Where the labels begin, from the bytes before them.
PlaceOf(name) == [k \in 0..Len(name) |-> Len(Labels(SubSeq(name, 1, k)))]

\* These are places as above.
LEMMA Placing == ASSUME NEW name \in Seq(Named) PROVE Places(name, PlaceOf(name))
<1>1. PICK n \in Nat : n = Len(name)
  OBVIOUS
<1>2. PICK a : a = [k \in 0..n |-> Len(Labels(SubSeq(name, 1, k)))]
  OBVIOUS
<1>3. a[0] = 0 /\ a[0] \in Nat
  <2>1. SubSeq(name, 1, 0) = <<>>
    BY SubSeqEmpty
  <2>2. Labels(SubSeq(name, 1, 0)) = <<>>
    <3>1. [i \in 1..0 |-> <<Len(<<>>[i])>> \o <<>>[i]] = <<>> /\ Len(<<>>) = 0
      OBVIOUS
    <3>2. SX!FlattenSeq(<<>>) = <<>>
      BY DEF SX!FlattenSeq
    <3>. QED
      BY <2>1, <3>1, <3>2 DEF Labels
  <2>. QED
    BY <1>2, <2>2
<1>4. ASSUME NEW k \in 1..n PROVE a[k - 1] \in Nat /\ a[k] = a[k - 1] + 1 + Len(name[k])
  <2>1. PICK w, l : w = SubSeq(name, 1, k - 1) /\ l = name[k] /\ w \in Seq(Named) /\ l \in Named
                    /\ SubSeq(name, 1, k) = Append(w, l)
    BY <1>1, Begins
  <2>2. Labels(w) \in Seq(Plain) /\ Labels(Append(w, l)) = Labels(w) \o Spell(l)
    BY <2>1, LabelsAppend
  <2>3. Spell(l) \in Seq(Plain) /\ Len(Spell(l)) = 1 + Len(l) /\ Len(l) \in Nat
    BY <2>1, SpellIs, NamedIs
  <2>4. Len(Labels(w) \o Spell(l)) = Len(Labels(w)) + Len(Spell(l)) /\ Len(Labels(w)) \in Nat
    <3>1. PICK s, t, P : s = Labels(w) /\ t = Spell(l) /\ P = Plain
      OBVIOUS
    <3>2. s \in Seq(P) /\ t \in Seq(P)
      BY <2>2, <2>3, <3>1
    <3>3. Len(s \o t) = Len(s) + Len(t)
      BY <3>2, ConcatProperties
    <3>4. Len(s) \in Nat
      BY <3>2
    <3>. QED
      BY <3>1, <3>3, <3>4
  <2>5. a[k - 1] = Len(Labels(w)) /\ a[k] = Len(Labels(Append(w, l)))
    <3>1. k - 1 \in 0..n /\ k \in 0..n
      OBVIOUS
    <3>2. a[k - 1] = Len(Labels(SubSeq(name, 1, k - 1))) /\ a[k] = Len(Labels(SubSeq(name, 1, k)))
      BY <1>2, <3>1, Zenon
    <3>. QED
      BY <2>1, <3>2, Zenon
  <2>6. PICK p, q, t : /\ p \in Nat /\ q \in Nat /\ p = Len(Labels(w)) /\ q = Len(l) /\ t = Len(Labels(Append(w, l)))
                       /\ t = p + (1 + q)
    BY <2>2, <2>3, <2>4
  <2>7. t = p + 1 + q
    BY <2>6
  <2>. QED
    BY <2>1, <2>5, <2>6, <2>7
<1>5. \A k \in Nat : k <= n => a[k] \in Nat
  <2> DEFINE S == {k \in Nat : k <= n => a[k] \in Nat}
  <2>1. 0 \in S
    BY <1>3
  <2>2. ASSUME NEW k \in Nat, k \in S PROVE k + 1 \in S
    <3>1. SUFFICES ASSUME k + 1 <= n PROVE a[k + 1] \in Nat
      OBVIOUS
    <3>2. PICK j \in 1..n : j = k + 1
      BY <3>1
    <3>3. name[j] \in Named
      BY <1>1
    <3>4. Len(name[j]) \in Nat
      BY <3>3, NamedIs
    <3>5. PICK l \in Nat, p \in Nat : l = Len(name[j]) /\ p = a[j - 1] /\ a[j] = p + 1 + l
      BY <1>4, <3>2, <3>4
    <3>. QED
      BY <3>2, <3>5
  <2>3. Nat \subseteq S
    BY <2>1, <2>2, Induct
  <2>. QED
    BY <2>3
<1>6. a \in [0..n -> Nat]
  BY <1>2, <1>5
<1>. QED
  BY <1>1, <1>2, <1>3, <1>4, <1>6 DEF Places, PlaceOf

\* The bytes of the first k labels spell them.
LEMMA Spelling == ASSUME NEW name \in Seq(Named), NEW a, a = PlaceOf(name)
                  PROVE  \A k \in 0..Len(name) : Spelled(Labels(SubSeq(name, 1, k)), name, a, k)
<1>1. PICK n \in Nat : n = Len(name)
  OBVIOUS
<1>2. Places(name, a)
  BY Placing
<1> DEFINE S == {k \in Nat : k <= n => Spelled(Labels(SubSeq(name, 1, k)), name, a, k)}
<1>3. 0 \in S
  <2>1. SubSeq(name, 1, 0) = <<>>
    BY SubSeqEmpty
  <2>2. Labels(SubSeq(name, 1, 0)) = <<>>
    <3>1. [i \in 1..0 |-> <<Len(<<>>[i])>> \o <<>>[i]] = <<>> /\ Len(<<>>) = 0
      OBVIOUS
    <3>2. SX!FlattenSeq(<<>>) = <<>>
      BY DEF SX!FlattenSeq
    <3>. QED
      BY <2>1, <3>1, <3>2 DEF Labels
  <2>3. <<>> \in Seq(Plain) /\ Len(<<>>) = 0
    OBVIOUS
  <2>4. a[0] = 0
    BY <1>2 DEF Places
  <2>5. \A i \in 1..0 : FALSE
    OBVIOUS
  <2>6. Spelled(<<>>, name, a, 0)
    BY <2>3, <2>4, <2>5, Zenon DEF Spelled
  <2>. QED
    BY <2>2, <2>6
<1>4. ASSUME NEW k \in Nat, k \in S PROVE k + 1 \in S
  <2>1. SUFFICES ASSUME k + 1 <= n PROVE Spelled(Labels(SubSeq(name, 1, k + 1)), name, a, k + 1)
    OBVIOUS
  <2>2. PICK j \in 1..n : j = k + 1 /\ k = j - 1
    BY <2>1
  <2>3. PICK w, l : w = SubSeq(name, 1, j - 1) /\ l = name[j] /\ w \in Seq(Named) /\ l \in Named
                    /\ SubSeq(name, 1, j) = Append(w, l)
    BY <1>1, Begins
  <2>4. PICK u, v : u = Labels(w) /\ v = Spell(l) /\ Labels(Append(w, l)) = u \o v
    BY <2>3, LabelsAppend
  <2>5. u \in Seq(Plain) /\ v \in Seq(Plain)
    BY <2>3, <2>4, LabelsAppend, SpellIs
  <2>6. PICK len \in Nat : len = Len(l) /\ Len(v) = 1 + len /\ v[1] = len /\ \A i \in 1..len : v[1 + i] = l[i]
    <3>1. Len(l) \in Nat
      BY <2>3, NamedIs
    <3>2. /\ Len(v) = 1 + Len(l) /\ v[1] = Len(l) 
          /\ \A i \in 1..Len(l) : v[1 + i] = l[i]
      BY <2>3, <2>4, SpellIs, Zenon
    <3>. QED
      BY <3>1, <3>2, Zenon
  <2>7. Spelled(u, name, a, k)
    BY <1>4, <2>1, <2>2, <2>3, <2>4
  <2>8. PICK p \in Nat : p = a[k] /\ Len(u) = p
    BY <2>5, <2>7 DEF Spelled
  <2>9. PICK x : x = u \o v /\ x \in Seq(Plain) /\ Len(x) = p + (1 + len)
                 /\ \A i \in 1..(p + (1 + len)) : x[i] = IF i <= p THEN u[i] ELSE v[i - p]
    <3>1. PICK P : P = Plain
      OBVIOUS
    <3>2. u \in Seq(P) /\ v \in Seq(P)
      BY <2>5, <3>1
    <3>3. u \o v \in Seq(P) /\ Len(u \o v) = Len(u) + Len(v)
      BY <3>2, ConcatProperties
    <3>4. \A i \in 1..(Len(u) + Len(v)) : (u \o v)[i] = IF i <= Len(u) THEN u[i] ELSE v[i - Len(u)]
      BY <3>2, ConcatProperties
    <3>. QED
      BY <2>6, <2>8, <3>1, <3>3, <3>4
  <2>10. Len(x) = a[k + 1]
    <3>1. a[j] = a[j - 1] + 1 + Len(name[j])
      BY <1>1, <1>2 DEF Places
    <3>2. a[j] = p + 1 + len
      BY <2>2, <2>3, <2>6, <2>8, <3>1
    <3>. QED
      BY <2>2, <2>9, <3>2
  <2>11. ASSUME NEW i \in 1..(k + 1)
         PROVE  x[a[i - 1] + 1] = Len(name[i]) /\ \A y \in 1..Len(name[i]) : x[a[i - 1] + 1 + y] = name[i][y]
    <3>1. CASE i = j
      <4>1. a[i - 1] = p /\ name[i] = l /\ Len(name[i]) = len
        BY <2>2, <2>3, <2>6, <2>8, <3>1
      <4>2. x[p + 1] = v[1]
        <5>1. PICK z : z = p + 1 /\ z \in 1..(p + (1 + len)) /\ ~(z <= p) /\ z - p = 1
          OBVIOUS
        <5>. QED
          BY <2>9, <5>1
      <4>3. ASSUME NEW y \in 1..len PROVE x[p + 1 + y] = v[1 + y]
        <5>1. PICK z : z = p + 1 + y /\ z \in 1..(p + (1 + len)) /\ ~(z <= p) /\ z - p = 1 + y
          OBVIOUS
        <5>. QED
          BY <2>9, <5>1
      <4>. QED
        BY <2>6, <4>1, <4>2, <4>3
    <3>2. CASE i # j
      <4>1. i \in 1..k /\ i \in 1..n /\ i - 1 \in 0..n /\ i \in 0..n /\ k \in 0..n
        BY <2>1, <2>2, <3>2
      <4>2. name[i] \in Named
        BY <1>1, <4>1
      <4>3. PICK q, r \in Nat : q = a[i - 1] /\ r = Len(name[i])
        <5>1. a[i - 1] \in Nat
          BY <1>1, <1>2, <4>1, PlacesGrow
        <5>2. Len(name[i]) \in Nat
          BY <4>2, NamedIs
        <5>. QED
          BY <5>1, <5>2
      <4>4. a[i] = q + 1 + r
        BY <1>1, <1>2, <4>1, <4>3 DEF Places
      <4>5. a[i] <= p
        <5>1. CASE i = k
          BY <2>8, <4>3, <4>4, <5>1
        <5>2. CASE i # k
          <6>1. i < k
            BY <4>1, <5>2
          <6>2. a[i] + 2 <= a[k] /\ a[i] \in Nat
            BY <1>1, <1>2, <4>1, <6>1, PlacesGrow
          <6>. QED
            BY <2>8, <6>2
        <5>. QED
          BY <5>1, <5>2
      <4>6. q + 1 + r <= p
        BY <4>4, <4>5
      <4>7. u[q + 1] = r /\ \A y \in 1..r : u[q + 1 + y] = name[i][y]
        BY <2>7, <4>1, <4>3 DEF Spelled
      <4>8. ASSUME NEW z \in 1..p PROVE x[z] = u[z]
        <5>1. z \in 1..(p + (1 + len)) /\ z <= p
          OBVIOUS
        <5>. QED
          BY <2>9, <5>1
      <4>9. q + 1 \in 1..p /\ \A y \in 1..r : q + 1 + y \in 1..p
        BY <4>6
      <4>. QED
        BY <4>3, <4>7, <4>8, <4>9
    <3>. QED
      BY <3>1, <3>2
  <2>12. Spelled(x, name, a, k + 1)
    BY <2>9, <2>10, <2>11, Zenon DEF Spelled
  <2>13. x = Labels(SubSeq(name, 1, k + 1))
    BY <2>2, <2>3, <2>4, <2>9
  <2>. QED
    BY <2>12, <2>13, Zenon
<1>5. Nat \subseteq S
  BY <1>3, <1>4, Induct
<1>. QED
  BY <1>1, <1>5

-----------------------------------------------------------------------------
(* Where the bytes of a name are.                                           *)

\* From o the bytes are plain up to f, where the name ends or goes on elsewhere.
Goes(m, o, f, bound) ==
    /\ f \in o..(bound - 1) /\ \A i \in o..(f - 1) : At(m, i) \in Plain
    /\ At(m, f) = 0 \/ (IsPointer(At(m, f)) /\ f + 1 < bound)

\* The offset after it.
After(m, f) == f + (IF IsPointer(At(m, f)) THEN 2 ELSE 1)

\* The name at o is empty.
Ends(m, name, fin, o) == At(m, o) = 0 /\ name[o] = <<>> /\ fin[o] = o

\* At o is a pointer to a place that says the same in fewer steps.
Points(m, P, name, rank, fin, o) ==
    /\ IsPointer(At(m, o)) /\ fin[o] = o
    /\ \E p \in P : /\ p = 256 * (At(m, o) - 192) + At(m, o + 1)
                    /\ name[p] = name[o] /\ rank[p] < rank[o]

\* At o is the label l.
Says(m, o, l) == /\ l \in Seq(Bytes) /\ At(m, o) = Len(l) /\ Len(l) \in 1..63
                 /\ \A j \in 1..Len(l) : At(m, o + j) = l[j]

\* At o is a label, and behind it a place that says the rest in fewer steps.
Continues(m, P, name, rank, fin, o) ==
    \E n \in P, l \in Seq(Bytes) :
        /\ Says(m, o, l) /\ n = o + 1 + Len(l)
        /\ name[o] = <<l>> \o name[n] /\ rank[n] < rank[o] /\ fin[o] = fin[n]

\* P are places of m where names begin: at each the name there, an upper bound of the
\* places that are still read, and where the bytes that are passed over end.
Laid(m, P, name, rank, fin, bound) ==
    /\ bound \in Nat /\ bound <= Len(m) /\ P \subseteq 12..(bound - 1)
    /\ \A o \in P : /\ rank[o] \in 0..(bound - 1) /\ Goes(m, o, fin[o], bound)
                    /\ \/ Ends(m, name, fin, o)
                       \/ Points(m, P, name, rank, fin, o)
                       \/ Continues(m, P, name, rank, fin, o)

\* A byte of a message is one.
LEMMA AtIs == ASSUME NEW m \in Seq(Bytes), NEW i \in Nat
              PROVE  At(m, i) \in Bytes /\ (i < Len(m) => At(m, i) = m[i + 1])
<1>1. PICK n \in Nat : n = Len(m)
  OBVIOUS
<1>2. CASE i < n
  <2>1. i + 1 \in 1..n
    BY <1>2
  <2>2. m[i + 1] \in Bytes
    BY <1>1, <2>1
  <2>. QED
    BY <1>1, <1>2, <2>2 DEF At
<1>3. CASE ~(i < n)
  BY <1>1, <1>3 DEF At, Bytes
<1>. QED
  BY <1>2, <1>3

\* So calc_message_name_size goes there.
LEMMA SizeIs == ASSUME NEW m \in Seq(Bytes), NEW o \in Nat, NEW f \in Nat, NEW bound \in Nat, bound <= Len(m),
                       Goes(m, o, f, bound)
                PROVE  calc_message_name_size(m, o) = After(m, f) - o
<1>1. PICK n \in Nat : n = Len(m)
  OBVIOUS
<1> DEFINE ends == {k \in o..(n - 1) : At(m, k) = 0 \/ IsPointer(At(m, k))}
<1>2. f \in o..(n - 1) /\ f \in ends
  <2>1. f \in o..(bound - 1) /\ (At(m, f) = 0 \/ IsPointer(At(m, f)))
    BY DEF Goes
  <2>2. f \in o..(n - 1)
    BY <1>1, <2>1
  <2>. QED
    BY <2>1, <2>2
<1>3. ASSUME NEW k \in ends PROVE f <= k
  <2>1. SUFFICES ASSUME k < f PROVE FALSE
    BY <1>2
  <2>2. k \in o..(f - 1)
    BY <2>1
  <2>3. PICK y \in 1..191 : y = At(m, k)
    BY <2>2 DEF Goes, Plain
  <2>4. y = 0 \/ y >= 192
    BY <2>3 DEF IsPointer
  <2>. QED
    BY <2>4
<1>4. SX!Min(ends) = f
  <2>1. \A x \in ends : x \in Int
    OBVIOUS
  <2>2. \A x \in ends : (\A y \in ends : x <= y) => x = f
    <3> TAKE x \in ends
    <3> HAVE \A y \in ends : x <= y
    <3>1. x <= f /\ f <= x
      BY <1>2, <1>3
    <3>. QED
      BY <1>2, <2>1, <3>1
  <2> HIDE DEF ends
  <2>3. (CHOOSE x \in ends : \A y \in ends : x <= y) = f
    BY <1>2, <1>3, <2>2
  <2>. QED
    BY <2>3 DEF SX!Min
<1>5. calc_message_name_size(m, o) =
        IF ends = {} THEN INT_MAX
        ELSE SX!Min(ends) - o + (IF IsPointer(At(m, SX!Min(ends))) THEN 2 ELSE 1)
  BY <1>1 DEF calc_message_name_size
<1>6. ends # {}
  BY <1>2
<1> HIDE DEF ends
<1>7. calc_message_name_size(m, o) = f - o + (IF IsPointer(At(m, f)) THEN 2 ELSE 1)
  BY <1>4, <1>5, <1>6, Zenon
<1>. QED
  BY <1>7 DEF After

-----------------------------------------------------------------------------
(* get_message_name.                                                        *)

\* What is found at j with one place fewer left.
Further(H, left, j) == IF left = 0 THEN [labels |-> <<>>, next |-> INT_MAX] ELSE H[left - 1][j]

\* What it does at one place: pointed and rest are what it does where it goes on.
Seen(m, i, pointed, rest) ==
    LET b == At(m, i)
        label == IF i + 1 + b <= Len(m) THEN <<SubSeq(m, i + 2, i + 1 + b)>> ELSE <<>>
    IN IF IsPointer(b) THEN [labels |-> pointed.labels, next |-> i + 2]
       ELSE IF ~check_index(m, i) THEN [labels |-> <<>>, next |-> Len(m)]
       ELSE IF b = 0 THEN [labels |-> <<>>, next |-> i + 1]
       ELSE [labels |-> label \o rest.labels, next |-> rest.next]

\* What it finds at i.
Look(m, H, left, i) == Seen(m, i, Further(H, left, 256 * (At(m, i) - 192) + At(m, i + 1)),
                                  Further(H, left, i + 1 + At(m, i)))

\* H is what it finds everywhere, with at most n places left.
IsLook(H, m, n) == H = [left \in 0..n |-> [i \in Nat |-> Look(m, H, left, i)]]

\* There is such a function for any number of places.
LEMMA LookExists == ASSUME NEW m PROVE \A n \in Nat : \E g : IsLook(g, m, n)
<1> DEFINE S == {n \in Nat : \E g : IsLook(g, m, n)}
<1>1. 0 \in S
  <2>1. PICK g : g = [left \in 0..0 |-> [i \in Nat |-> Look(m, m, 0, i)]]
    OBVIOUS
  <2>2. ASSUME NEW left \in 0..0 PROVE g[left] = [i \in Nat |-> Look(m, g, left, i)]
    <3>1. left = 0
      OBVIOUS
    <3>2. \A i \in Nat : Look(m, m, 0, i) = Look(m, g, 0, i)
      BY DEF Look, Further
    <3>3. g[0] = [i \in Nat |-> Look(m, m, 0, i)]
      BY <2>1
    <3>4. [i \in Nat |-> Look(m, m, 0, i)] = [i \in Nat |-> Look(m, g, 0, i)]
      BY <3>2, Zenon
    <3>. QED
      BY <3>1, <3>3, <3>4
  <2>3. g = [left \in 0..0 |-> [i \in Nat |-> Look(m, g, left, i)]]
    BY <2>1, <2>2, Zenon
  <2>4. IsLook(g, m, 0)
    BY <2>3 DEF IsLook
  <2>. QED
    BY <2>4
<1>2. ASSUME NEW n \in Nat, n \in S PROVE n + 1 \in S
  <2>1. PICK g : IsLook(g, m, n)
    BY <1>2
  <2>2. PICK last : last = [i \in Nat |-> Look(m, g, n + 1, i)]
    OBVIOUS
  <2>3. PICK q : q = [left \in 0..(n + 1) |-> IF left = n + 1 THEN last ELSE g[left]]
    OBVIOUS
  <2>4. ASSUME NEW left \in 0..(n + 1) PROVE q[left] = [i \in Nat |-> Look(m, q, left, i)]
    <3>1. left # 0 => q[left - 1] = g[left - 1]
      BY <2>3
    <3>2. \A j : Further(q, left, j) = Further(g, left, j)
      BY <3>1, Zenon DEF Further
    <3>3. \A i \in Nat : Look(m, q, left, i) = Look(m, g, left, i)
      <4> TAKE i \in Nat
      <4>1. PICK x, y : x = 256 * (At(m, i) - 192) + At(m, i + 1) /\ y = i + 1 + At(m, i)
        OBVIOUS
      <4>2. Further(q, left, x) = Further(g, left, x) /\ Further(q, left, y) = Further(g, left, y)
        BY <3>2
      <4>. QED
        BY <4>1, <4>2 DEF Look
    <3>4. q[left] = [i \in Nat |-> Look(m, g, left, i)]
      <4>1. CASE left = n + 1
        BY <2>2, <2>3, <4>1
      <4>2. CASE left # n + 1
        <5>1. left \in 0..n /\ q[left] = g[left]
          BY <2>3, <4>2
        <5>2. g[left] = [i \in Nat |-> Look(m, g, left, i)]
          BY <2>1, <5>1 DEF IsLook
        <5>. QED
          BY <5>1, <5>2
      <4>. QED
        BY <4>1, <4>2
    <3>. QED
      BY <3>3, <3>4, Zenon
  <2>5. q = [left \in 0..(n + 1) |-> [i \in Nat |-> Look(m, q, left, i)]]
    BY <2>3, <2>4, Zenon
  <2>6. IsLook(q, m, n + 1)
    BY <2>5 DEF IsLook
  <2>. QED
    BY <2>6
<1>3. Nat \subseteq S
  BY <1>1, <1>2, Induct
<1>. QED
  BY <1>3

\* get_message_name is such a function.
LEMMA NameIs == ASSUME NEW m \in Seq(Bytes)
                PROVE  \E H : /\ \A left \in 0..Len(m), i \in Nat : H[left][i] = Look(m, H, left, i)
                              /\ \A at \in Nat : get_message_name(m, at) = H[Len(m)][at]
<1>1. PICK n \in Nat : n = Len(m)
  OBVIOUS
<1> DEFINE BodyAt(f, left, i) ==
            LET b == At(m, i)
                pointer == 256 * (b - 192) + At(m, i + 1)
                From(j) == IF left = 0 THEN [labels |-> <<>>, next |-> INT_MAX] ELSE f[left - 1][j]
            IN IF IsPointer(b) THEN [labels |-> From(pointer).labels, next |-> i + 2]
               ELSE IF ~check_index(m, i) THEN [labels |-> <<>>, next |-> Len(m)]
               ELSE IF b = 0 THEN [labels |-> <<>>, next |-> i + 1]
               ELSE LET rest == From(i + 1 + b)
                        label == IF i + 1 + b <= Len(m) THEN <<SubSeq(m, i + 2, i + 1 + b)>>
                                 ELSE <<>>
                    IN [labels |-> label \o rest.labels, next |-> rest.next]
           Body(f) == [left \in 0..Len(m) |-> [i \in Nat |-> BodyAt(f, left, i)]]
           H       == CHOOSE f : f = Body(f)
<1>2. ASSUME NEW at \in Nat PROVE get_message_name(m, at) = H[Len(m)][at]
  BY DEF get_message_name
<1>3. PICK g : IsLook(g, m, n)
  BY LookExists
<1>0. ASSUME NEW f, NEW left, NEW i PROVE BodyAt(f, left, i) = Look(m, f, left, i)
  BY DEF Look, Further, Seen
<1> HIDE DEF BodyAt
<1>4. g = Body(g)
  <2>1. g = [left \in 0..Len(m) |-> [i \in Nat |-> Look(m, g, left, i)]]
    BY <1>1, <1>3 DEF IsLook
  <2>2. \A left : [i \in Nat |-> Look(m, g, left, i)] = [i \in Nat |-> BodyAt(g, left, i)]
    BY <1>0
  <2>. QED
    BY <2>1, <2>2
<1>5. H = Body(H)
  BY <1>4, Zenon
<1>6. \A left \in 0..n, i \in Nat : H[left][i] = Look(m, H, left, i)
  <2> HIDE DEF H
  <2> TAKE left \in 0..n, i \in Nat
  <2>1. H[left] = [j \in Nat |-> BodyAt(H, left, j)]
    BY <1>1, <1>5
  <2>2. H[left][i] = BodyAt(H, left, i)
    BY <2>1
  <2>. QED
    BY <1>0, <2>2
<1> HIDE DEF H
<1>. QED
  BY <1>1, <1>2, <1>6

\* The bytes of a label that is there are cut out of the message.
LEMMA SaysIs == ASSUME NEW m \in Seq(Bytes), NEW o \in Nat, NEW l, Says(m, o, l), o + 1 + Len(l) <= Len(m)
                PROVE  SubSeq(m, o + 2, o + 1 + Len(l)) = l
<1>1. PICK n \in Nat : n = Len(m)
  OBVIOUS
<1>2. l \in Seq(Bytes) /\ Len(l) \in 1..63 /\ \A j \in 1..Len(l) : At(m, o + j) = l[j]
  BY DEF Says
<1>3. PICK k \in 1..63 : k = Len(l)
  BY <1>2
<1>4. o + 1 + k <= n
  BY <1>1, <1>3
<1>5. ASSUME NEW j \in 1..k PROVE m[(o + 2) + j - 1] = l[j] /\ (o + 2) + j - 1 \in 1..n
  <2>1. PICK i \in Nat : i = o + j /\ i < n /\ i + 1 \in 1..n /\ i + 1 = (o + 2) + j - 1
    BY <1>4
  <2>2. At(m, i) = m[i + 1]
    BY <1>1, <2>1, AtIs
  <2>3. At(m, i) = l[j]
    BY <1>2, <1>3, <2>1
  <2>. QED
    BY <2>1, <2>2, <2>3
<1>6. PICK x, y \in Nat : x = o + 2 /\ y = o + 1 + k /\ x \in Nat /\ y - x + 1 = k /\ x <= y
  OBVIOUS
<1>7. \A i \in x..y : m[i] \in Bytes
  <2>1. \A i \in x..y : i \in 1..n
    BY <1>4, <1>6
  <2>. QED
    BY <1>1, <2>1
<1>8. PICK w : w = SubSeq(m, x, y)
  OBVIOUS
<1>9. w \in Seq(Bytes) /\ Len(w) = k /\ \A i \in 1..k : w[i] = m[x + i - 1]
  <2>1. PICK B : B = Bytes
    OBVIOUS
  <2>2. /\ SubSeq(m, x, y) \in Seq(B) /\ Len(SubSeq(m, x, y)) = IF x <= y THEN y - x + 1 ELSE 0
        /\ \A i \in 1..(y - x + 1) : SubSeq(m, x, y)[i] = m[x + i - 1]
    BY <1>6, <1>7, <2>1, SubSeqProperties
  <2>. QED
    BY <1>6, <1>8, <2>1, <2>2
<1>10. \A i \in 1..k : w[i] = l[i]
  BY <1>5, <1>6, <1>9
<1>11. w = l
  BY <1>2, <1>3, <1>9, <1>10, SeqEqual
<1>. QED
  BY <1>3, <1>6, <1>8, <1>11

\* What get_message_name says of a place.
Result(m, name, fin, o) == [labels |-> name[o], next |-> After(m, fin[o])]

\* It reads every name that is laid, and goes to the offset after it.
LEMMA Reads == ASSUME NEW m \in Seq(Bytes), NEW P, NEW name, NEW rank, NEW fin, NEW bound,
                      Laid(m, P, name, rank, fin, bound)
               PROVE  \A o \in P : get_message_name(m, o) = Result(m, name, fin, o)
<1>1. PICK L \in Nat : L = Len(m)
  OBVIOUS
<1>2. PICK H : /\ \A left \in 0..L, i \in Nat : H[left][i] = Look(m, H, left, i)
               /\ \A at \in Nat : get_message_name(m, at) = H[L][at]
  BY <1>1, NameIs
<1>3. bound \in Nat /\ bound <= L /\ P \subseteq 12..(bound - 1)
  BY <1>1 DEF Laid
<1>4. ASSUME NEW o \in P PROVE o \in Nat /\ o < L /\ rank[o] \in 0..(bound - 1) /\ check_index(m, o)
  <2>1. o \in 12..(bound - 1)
    BY <1>3
  <2>2. rank[o] \in 0..(bound - 1)
    BY DEF Laid
  <2>. QED
    BY <1>1, <1>3, <2>1, <2>2 DEF check_index
<1> DEFINE S == {r \in Nat : \A o \in P, left \in 0..L :
                    rank[o] < r /\ r <= left => H[left][o] = Result(m, name, fin, o)}
<1>5. 0 \in S
  <2>1. \A o \in P : ~(rank[o] < 0)
    BY <1>3, <1>4
  <2>. QED
    BY <2>1
<1>6. ASSUME NEW r \in Nat, r \in S PROVE r + 1 \in S
  <2>1. SUFFICES ASSUME NEW o \in P, NEW left \in 0..L, rank[o] < r + 1, r + 1 <= left
                 PROVE  H[left][o] = Result(m, name, fin, o)
    OBVIOUS
  <2>2. left - 1 \in 0..L /\ r <= left - 1 /\ left # 0
    BY <2>1
  <2>3. ASSUME NEW p \in P, rank[p] < rank[o] PROVE Further(H, left, p) = Result(m, name, fin, p)
    <3>1. rank[p] < r
      BY <1>3, <1>4, <2>1, <2>3
    <3>2. H[left - 1][p] = Result(m, name, fin, p)
      BY <1>6, <2>2, <3>1
    <3>. QED
      BY <2>2, <3>2 DEF Further
  <2>4. PICK b \in 0..255 : b = At(m, o)
    BY <1>4, AtIs DEF Bytes
  <2>5. PICK A, B : /\ A = Further(H, left, 256 * (b - 192) + At(m, o + 1)) /\ B = Further(H, left, o + 1 + b)
                    /\ H[left][o] = Seen(m, o, A, B)
    <3>1. H[left][o] = Look(m, H, left, o)
      BY <1>2, <1>4
    <3>. QED
      BY <2>4, <3>1 DEF Look
  <2>6. CASE Ends(m, name, fin, o)
    <3>1. b = 0 /\ name[o] = <<>> /\ fin[o] = o /\ ~IsPointer(b)
      BY <2>4, <2>6 DEF Ends, IsPointer
    <3>2. Seen(m, o, A, B) = [labels |-> <<>>, next |-> o + 1]
      BY <1>4, <2>4, <3>1 DEF Seen
    <3>3. After(m, o) = o + 1
      BY <2>4, <3>1 DEF After
    <3>. QED
      BY <2>5, <3>1, <3>2, <3>3 DEF Result
  <2>7. CASE Points(m, P, name, rank, fin, o)
    <3>1. PICK p \in P : p = 256 * (b - 192) + At(m, o + 1) /\ name[p] = name[o] /\ rank[p] < rank[o]
      BY <2>4, <2>7 DEF Points
    <3>2. IsPointer(b) /\ fin[o] = o
      BY <2>4, <2>7 DEF Points
    <3>3. A = Result(m, name, fin, p)
      BY <2>3, <2>5, <3>1
    <3>4. A.labels = name[o]
      BY <3>1, <3>3 DEF Result
    <3>5. Seen(m, o, A, B) = [labels |-> name[o], next |-> o + 2]
      BY <2>4, <3>2, <3>4 DEF Seen
    <3>6. After(m, o) = o + 2
      BY <2>4, <3>2 DEF After
    <3>. QED
      BY <2>5, <3>2, <3>5, <3>6 DEF Result
  <2>8. CASE Continues(m, P, name, rank, fin, o)
    <3>1. PICK n \in P, l \in Seq(Bytes) :
             /\ Says(m, o, l) /\ n = o + 1 + Len(l)
             /\ name[o] = <<l>> \o name[n] /\ rank[n] < rank[o] /\ fin[o] = fin[n]
      BY <2>8 DEF Continues
    <3>2. b = Len(l) /\ b \in 1..63
      <4>1. At(m, o) = Len(l) /\ Len(l) \in 1..63
        BY <3>1, Zenon DEF Says
      <4>. QED
        BY <2>4, <4>1, Zenon
    <3>3. n = o + 1 + b /\ n <= L
      <4>1. n = o + 1 + b
        BY <3>1, <3>2
      <4>2. n \in Nat /\ n < L
        BY <1>4, <3>1
      <4>. QED
        BY <4>1, <4>2
    <3>4. SubSeq(m, o + 2, o + 1 + b) = l
      BY <1>1, <1>4, <3>1, <3>2, <3>3, SaysIs
    <3>5. B = Result(m, name, fin, n)
      BY <2>3, <2>5, <3>1, <3>3
    <3>6. B.labels = name[n] /\ B.next = After(m, fin[o])
      BY <3>1, <3>5 DEF Result
    <3>7. ~IsPointer(b) /\ b # 0 /\ o + 1 + b <= Len(m)
      <4>1. ~(b >= 192) /\ b # 0
        <5>1. b \in 1..63
          BY <3>2
        <5>. QED
          BY <5>1
      <4>2. o + 1 + b <= Len(m)
        BY <1>1, <3>3
      <4>. QED
        BY <4>1, <4>2 DEF IsPointer
    <3>8. Seen(m, o, A, B) = [labels |-> <<SubSeq(m, o + 2, o + 1 + b)>> \o B.labels, next |-> B.next]
      BY <1>4, <2>4, <3>7 DEF Seen
    <3>9. Seen(m, o, A, B) = [labels |-> name[o], next |-> After(m, fin[o])]
      BY <3>1, <3>4, <3>6, <3>8
    <3>. QED
      BY <2>5, <3>9 DEF Result
  <2>. QED
    BY <2>6, <2>7, <2>8 DEF Laid
<1>7. Nat \subseteq S
  BY <1>5, <1>6, Induct
<1>8. ASSUME NEW o \in P PROVE get_message_name(m, o) = Result(m, name, fin, o)
  <2>1. L \in S /\ L \in 0..L /\ rank[o] < L
    BY <1>3, <1>4, <1>7
  <2>2. H[L][o] = Result(m, name, fin, o)
    BY <2>1
  <2>. QED
    BY <1>2, <1>4, <2>2
<1>. QED
  BY <1>8

\* m2 has the bytes that m has up to bound, but for those of the header.
SameBytes(m, m2, bound) == \A i \in 12..(bound - 1) : At(m2, i) = At(m, i)

\* So the bytes that are passed over stay,
LEMMA GoesKept == ASSUME NEW m, NEW m2, NEW o \in Nat, o >= 12, NEW f, NEW b \in Nat, NEW c \in Nat, b <= c,
                         Goes(m, o, f, b), SameBytes(m, m2, b)
                  PROVE  Goes(m2, o, f, c) /\ After(m2, f) = After(m, f)
<1>1. f \in o..(b - 1) /\ f \in 12..(b - 1) /\ f \in o..(c - 1)
  BY DEF Goes
<1>2. At(m2, f) = At(m, f)
  BY <1>1 DEF SameBytes
<1>3. ASSUME NEW i \in o..(f - 1) PROVE At(m2, i) \in Plain
  <2>1. i \in 12..(b - 1)
    BY <1>1
  <2>2. At(m2, i) = At(m, i)
    BY <2>1 DEF SameBytes
  <2>. QED
    BY <2>2 DEF Goes
<1>4. At(m, f) = 0 \/ (IsPointer(At(m, f)) /\ f + 1 < c)
  <2>1. At(m, f) = 0 \/ (IsPointer(At(m, f)) /\ f + 1 < b)
    BY DEF Goes
  <2>2. f + 1 < b => f + 1 < c
    BY <1>1
  <2>. QED
    BY <2>1, <2>2
<1>. QED
  BY <1>1, <1>2, <1>3, <1>4 DEF Goes, After

\* and so do the places where names begin.
LEMMA LaidKept == ASSUME NEW m, NEW m2, NEW P, NEW name, NEW rank, NEW fin, NEW b, NEW c \in Nat,
                         b <= c, c <= Len(m2), Laid(m, P, name, rank, fin, b), SameBytes(m, m2, b)
                  PROVE  Laid(m2, P, name, rank, fin, c)
<1>1. b \in Nat /\ P \subseteq 12..(b - 1) /\ P \subseteq 12..(c - 1)
  <2>1. b \in Nat /\ P \subseteq 12..(b - 1)
    BY DEF Laid
  <2>2. 12..(b - 1) \subseteq 12..(c - 1)
    BY <2>1
  <2>. QED
    BY <2>1, <2>2
<1>2. ASSUME NEW o \in P
      PROVE  /\ rank[o] \in 0..(c - 1) /\ Goes(m2, o, fin[o], c)
             /\ \/ Ends(m2, name, fin, o) \/ Points(m2, P, name, rank, fin, o)
                \/ Continues(m2, P, name, rank, fin, o)
  <2>1. o \in 12..(b - 1) /\ o \in Nat /\ o >= 12
    BY <1>1
  <2>2. rank[o] \in 0..(b - 1) /\ Goes(m, o, fin[o], b)
    BY DEF Laid
  <2>3. rank[o] \in 0..(c - 1)
    BY <1>1, <2>2
  <2>4. Goes(m2, o, fin[o], c)
    BY <1>1, <2>1, <2>2, GoesKept
  <2>5. At(m2, o) = At(m, o)
    BY <2>1 DEF SameBytes
  <2>6. Ends(m, name, fin, o) => Ends(m2, name, fin, o)
    BY <2>5 DEF Ends
  <2>7. ASSUME Points(m, P, name, rank, fin, o) PROVE Points(m2, P, name, rank, fin, o)
    <3>1. IsPointer(At(m, o)) /\ fin[o] = o
      BY <2>7 DEF Points
    <3>2. o + 1 \in 12..(b - 1)
      <4>1. At(m, o) # 0
        BY <3>1 DEF IsPointer
      <4>2. o + 1 < b
        BY <2>2, <3>1, <4>1 DEF Goes
      <4>. QED
        BY <1>1, <2>1, <4>2
    <3>3. At(m2, o + 1) = At(m, o + 1)
      BY <3>2 DEF SameBytes
    <3>. QED
      BY <2>5, <2>7, <3>3, Zenon DEF Points
  <2>8. ASSUME Continues(m, P, name, rank, fin, o) PROVE Continues(m2, P, name, rank, fin, o)
    <3>1. PICK n \in P, l \in Seq(Bytes) :
             /\ Says(m, o, l) /\ n = o + 1 + Len(l)
             /\ name[o] = <<l>> \o name[n] /\ rank[n] < rank[o] /\ fin[o] = fin[n]
      BY <2>8 DEF Continues
    <3>2. Len(l) \in 1..63 /\ At(m, o) = Len(l) /\ \A j \in 1..Len(l) : At(m, o + j) = l[j]
      BY <3>1 DEF Says
    <3>3. \A j \in 1..Len(l) : o + j \in 12..(b - 1)
      BY <1>1, <2>1, <3>1, <3>2
    <3>4. \A j \in 1..Len(l) : At(m2, o + j) = l[j]
      BY <3>2, <3>3 DEF SameBytes
    <3>5. Says(m2, o, l)
      BY <2>5, <3>1, <3>2, <3>4 DEF Says
    <3>. QED
      BY <3>1, <3>5, Zenon DEF Continues
  <2>9. \/ Ends(m, name, fin, o) \/ Points(m, P, name, rank, fin, o)
        \/ Continues(m, P, name, rank, fin, o)
    BY DEF Laid
  <2>. QED
    BY <2>3, <2>4, <2>6, <2>7, <2>8, <2>9
<1>. QED
  BY <1>1, <1>2 DEF Laid

-----------------------------------------------------------------------------
(* A name that is written is laid.                                          *)

\* The bytes t are in m from at on.
Has(m, at, t) == at + Len(t) <= Len(m) /\ \A i \in 0..(Len(t) - 1) : At(m, at + i) = t[i + 1]

\* At f, after k labels of nm, the name ends or a pointer leads to what is left of it.
EndsOrPoints(m, P, name, nm, k, f, bound) ==
    \/ k = Len(nm) /\ At(m, f) = 0
    \/ /\ IsPointer(At(m, f)) /\ f + 1 < bound
       /\ \E p \in P : p = 256 * (At(m, f) - 192) + At(m, f + 1) /\ name[p] = Suffix(nm, k)

\* nm, of which the first k labels are spelled, is at base.
Written(m, nm, k, base) == base \in Nat /\ base >= 12 /\ Has(m, base, Labels(SubSeq(nm, 1, k)))

\* One that is written in m says the labels one by one.
LabelThere(m, nm, a, base, i) ==
    \E l \in Seq(Bytes) : /\ l = nm[i + 1] /\ Says(m, base + a[i], l)
                          /\ base + a[i + 1] = base + a[i] + 1 + Len(l)

\* It does: by the places of the labels.
LEMMA WrittenSays == ASSUME NEW m \in Seq(Bytes), NEW nm \in Seq(Named), NEW k \in 0..Len(nm), NEW a, a = PlaceOf(nm),
                            NEW base, Written(m, nm, k, base)
                     PROVE  /\ \A i \in 0..(k - 1) : LabelThere(m, nm, a, base, i)
                            /\ \A x \in base..(base + a[k] - 1) : At(m, x) \in Plain
<1>1. PICK n \in Nat : n = Len(nm)
  OBVIOUS
<1>2. PICK w : w = Labels(SubSeq(nm, 1, k))
  OBVIOUS
<1>3. Spelled(w, nm, a, k)
  BY <1>2, Spelling
<1>4. Places(nm, a)
  BY Placing
<1>5. PICK p \in Nat : p = a[k] /\ Len(w) = p /\ w \in Seq(Plain)
  BY <1>3, <1>4, PlacesGrow DEF Spelled
<1>6. ASSUME NEW x \in 0..(p - 1) PROVE At(m, base + x) = w[x + 1] /\ At(m, base + x) \in Plain
  <2>1. At(m, base + x) = w[x + 1]
    BY <1>2, <1>5 DEF Written, Has
  <2>2. x + 1 \in 1..p
    OBVIOUS
  <2>3. w[x + 1] \in Plain
    BY <1>5, <2>2, ElementOfSeq
  <2>. QED
    BY <2>1, <2>3
<1>7. base \in Nat /\ base >= 12
  BY DEF Written
<1>8. ASSUME NEW x \in base..(base + p - 1) PROVE At(m, x) \in Plain
  <2>1. PICK y \in 0..(p - 1) : x = base + y
    <3>1. x - base \in 0..(p - 1) /\ x = base + (x - base)
      BY <1>7
    <3>. QED
      BY <3>1
  <2>. QED
    BY <1>6, <2>1
<1>9. ASSUME NEW i \in 0..(k - 1) PROVE LabelThere(m, nm, a, base, i)
  <2>1. PICK j \in 1..k : j = i + 1 /\ i = j - 1 /\ j \in 1..n /\ j \in 0..n /\ i \in 0..n /\ k \in 0..n
    BY <1>1
  <2>2. PICK l \in Named : l = nm[j]
    BY <1>1, <2>1
  <2>3. PICK len \in 1..63 : len = Len(l) /\ l \in Seq(33..126)
    BY <2>2, NamedIs
  <2>4. l \in Seq(Bytes)
    <3>1. (33..126) \subseteq Bytes
      BY DEF Bytes
    <3>. QED
      BY <2>3, <3>1, SeqMonotonic
  <2>5. PICK q \in Nat : q = a[i]
    BY <1>1, <1>4, <2>1, PlacesGrow
  <2>6. a[j] = q + 1 + len
    BY <1>1, <1>4, <2>1, <2>2, <2>3, <2>5 DEF Places
  <2>7. a[j] <= p
    <3>1. CASE j = k
      BY <1>5, <2>6, <3>1
    <3>2. CASE j # k
      <4>1. j < k
        BY <2>1, <3>2
      <4>2. a[j] + 2 <= a[k]
        BY <1>1, <1>4, <2>1, <4>1, PlacesGrow
      <4>. QED
        BY <1>5, <2>6, <4>2
    <3>. QED
      BY <3>1, <3>2
  <2>8. w[q + 1] = len /\ \A y \in 1..len : w[q + 1 + y] = l[y]
    <3>1. /\ w[a[j - 1] + 1] = Len(nm[j])
          /\ \A y \in 1..Len(nm[j]) : w[a[j - 1] + 1 + y] = nm[j][y]
      BY <1>3, <2>1, Zenon DEF Spelled
    <3>2. a[j - 1] = q
      BY <2>1, <2>5
    <3>. QED
      BY <2>2, <2>3, <3>1, <3>2, Zenon
  <2>9. At(m, base + q) = len
    <3>1. q \in 0..(p - 1)
      BY <2>6, <2>7
    <3>. QED
      BY <1>6, <2>8, <3>1
  <2>10. ASSUME NEW y \in 1..len PROVE At(m, base + q + y) = l[y]
    <3>1. PICK x \in 0..(p - 1) : x = q + y /\ x + 1 = q + 1 + y /\ base + x = base + q + y
      <4>1. q + y \in 0..(p - 1)
        BY <2>6, <2>7
      <4>2. (q + y) + 1 = q + 1 + y /\ base + (q + y) = base + q + y
        BY <1>7
      <4>. QED
        BY <4>1, <4>2
    <3>. QED
      BY <1>6, <2>8, <3>1
  <2>11. Says(m, base + q, l)
    BY <2>3, <2>4, <2>9, <2>10 DEF Says
  <2>12. base + a[j] = base + q + 1 + len
    BY <1>7, <2>6
  <2>. QED
    BY <2>1, <2>2, <2>3, <2>4, <2>5, <2>11, <2>12 DEF LabelThere
<1>. QED
  BY <1>5, <1>8, <1>9

\* New places are laid beside the old ones.
LEMMA Widened == ASSUME NEW m, NEW P, NEW name, NEW rank, NEW fin, NEW b, Laid(m, P, name, rank, fin, b),
                        NEW P2, NEW name2, NEW rank2, NEW fin2, P \subseteq P2,
                        \A o \in P : name2[o] = name[o] /\ rank2[o] = rank[o] /\ fin2[o] = fin[o],
                        NEW o \in P
                 PROVE  \/ Ends(m, name2, fin2, o) \/ Points(m, P2, name2, rank2, fin2, o)
                        \/ Continues(m, P2, name2, rank2, fin2, o)
<1>1. Ends(m, name, fin, o) => Ends(m, name2, fin2, o)
  BY DEF Ends
<1>2. ASSUME Points(m, P, name, rank, fin, o) PROVE Points(m, P2, name2, rank2, fin2, o)
  <2>1. PICK p \in P : /\ p = 256 * (At(m, o) - 192) + At(m, o + 1)
                       /\ name[p] = name[o] /\ rank[p] < rank[o]
    BY <1>2 DEF Points
  <2>2. p \in P2 /\ name2[p] = name2[o] /\ rank2[p] < rank2[o]
    BY <2>1
  <2>3. IsPointer(At(m, o)) /\ fin2[o] = o
    BY <1>2 DEF Points
  <2>. QED
    BY <2>1, <2>2, <2>3, Zenon DEF Points
<1>3. ASSUME Continues(m, P, name, rank, fin, o) PROVE Continues(m, P2, name2, rank2, fin2, o)
  <2>1. PICK n \in P, l \in Seq(Bytes) :
           /\ Says(m, o, l) /\ n = o + 1 + Len(l)
           /\ name[o] = <<l>> \o name[n] /\ rank[n] < rank[o] /\ fin[o] = fin[n]
    BY <1>3 DEF Continues
  <2>2. n \in P2 /\ name2[o] = <<l>> \o name2[n] /\ rank2[n] < rank2[o] /\ fin2[o] = fin2[n]
    BY <2>1
  <2>. QED
    BY <2>1, <2>2, Zenon DEF Continues
<1>. QED
  BY <1>1, <1>2, <1>3 DEF Laid

\* P2 has those of P and those of nm, written at base.
Extends(P, name, P2, name2, nm, k, base) ==
    /\ P \subseteq P2 /\ \A o \in P : name2[o] = name[o]
    /\ \A i \in 0..k : /\ base + PlaceOf(nm)[i] \in P2
                       /\ name2[base + PlaceOf(nm)[i]] = Suffix(nm, i)

\* They are laid: by induction from the last label to the first.
LEMMA Extended == ASSUME NEW m \in Seq(Bytes), NEW P, NEW name, NEW rank, NEW fin, NEW b, Laid(m, P, name, rank, fin, b),
                         NEW nm \in Seq(Named), NEW k \in 0..Len(nm), NEW base, Written(m, nm, k, base), b <= base,
                         NEW c \in Nat, c <= Len(m), base + PlaceOf(nm)[k] < c,
                         EndsOrPoints(m, P, name, nm, k, base + PlaceOf(nm)[k], c)
                  PROVE  /\ Goes(m, base, base + PlaceOf(nm)[k], c)
                         /\ \E P2, name2, rank2, fin2 : /\ Laid(m, P2, name2, rank2, fin2, c)
                                                        /\ Extends(P, name, P2, name2, nm, k, base)
<1>1. PICK n, a : n \in Nat /\ n = Len(nm) /\ a = PlaceOf(nm)
  OBVIOUS
<1>2. Places(nm, a)
  BY <1>1, Placing
<1>3. base \in Nat /\ base >= 12 /\ b \in Nat /\ b <= base
  BY DEF Written, Laid
<1>4. PICK f \in Nat : f = base + a[k]
  BY <1>1, <1>2, <1>3, PlacesGrow
<1>5. ASSUME NEW i \in 0..k
      PROVE  /\ a[i] \in Nat /\ base + a[i] <= f /\ base + a[i] \in 12..(c - 1) /\ base + a[i] \notin P
             /\ base + a[i] >= base
  <2>1. i \in 0..n /\ k \in 0..n
    BY <1>1
  <2>2. a[i] \in Nat /\ (i < k => a[i] + 2 <= a[k])
    BY <1>1, <1>2, <2>1, PlacesGrow
  <2>3. a[k] \in Nat
    BY <1>1, <1>2, <2>1, PlacesGrow
  <2>4. a[i] <= a[k]
    <3>1. CASE i = k
      BY <2>2, <3>1
    <3>2. CASE i # k
      <4>1. i < k
        BY <2>1, <3>2
      <4>. QED
        BY <2>2, <2>3, <4>1
    <3>. QED
      BY <3>1, <3>2
  <2>5. base + a[i] <= f /\ f < c
    BY <1>1, <1>3, <1>4, <2>2, <2>3, <2>4
  <2>6. base + a[i] \notin P
    <3>1. \A o \in P : o < base
      BY <1>3 DEF Laid
    <3>. QED
      BY <1>3, <2>2, <3>1
  <2>7. base + a[i] \in 12..(c - 1)
    <3>1. PICK y \in Nat : y = base + a[i] /\ y >= 12 /\ y <= f /\ f < c
      <4>1. base + a[i] \in Nat /\ base + a[i] >= 12
        BY <1>3, <2>2
      <4>. QED
        BY <2>5, <4>1
    <3>. QED
      BY <3>1
  <2>8. base + a[i] >= base
    BY <1>3, <2>2
  <2>. QED
    BY <2>2, <2>5, <2>6, <2>7, <2>8
<1>6. ASSUME NEW i \in 0..k, NEW j \in 0..k, i < j PROVE a[i] + 2 <= a[j]
  <2>1. i \in 0..n /\ j \in 0..n
    BY <1>1
  <2>. QED
    BY <1>1, <1>2, <1>6, <2>1, PlacesGrow
<1>7. ASSUME NEW i \in 0..k, NEW j \in 0..k, base + a[i] = base + a[j] PROVE i = j
  <2>1. a[i] = a[j]
    <3>1. a[i] \in Nat /\ a[j] \in Nat /\ base \in Nat
      BY <1>3, <1>5
    <3>2. \A x, y, z \in Nat : z + x = z + y => x = y
      OBVIOUS
    <3>. QED
      BY <1>7, <3>1, <3>2, Zenon
  <2>2. ~(i < j) /\ ~(j < i)
    BY <1>5, <1>6, <2>1
  <2>. QED
    BY <2>2
<1>8. PICK Q : Q = {base + a[i] : i \in 0..k}
  OBVIOUS
<1>9. PICK index : index = [o \in Q |-> CHOOSE i \in 0..k : o = base + a[i]]
  OBVIOUS
<1>10. ASSUME NEW i \in 0..k PROVE base + a[i] \in Q /\ index[base + a[i]] = i
  <2>1. PICK o : o = base + a[i] /\ o \in Q
    BY <1>8
  <2>2. \A j \in 0..k : o = base + a[j] => j = i
    BY <1>7, <2>1
  <2>3. (CHOOSE j \in 0..k : o = base + a[j]) = i
    BY <2>1, <2>2
  <2>. QED
    BY <1>9, <2>1, <2>3
<1>11. PICK name2 : name2 = [o \in P \cup Q |-> IF o \in P THEN name[o] ELSE Suffix(nm, index[o])]
  OBVIOUS
<1>12. PICK rank2 : rank2 = [o \in P \cup Q |-> IF o \in P THEN rank[o] ELSE base + (f - o)]
  OBVIOUS
<1>13. PICK fin2 : fin2 = [o \in P \cup Q |-> IF o \in P THEN fin[o] ELSE f]
  OBVIOUS
<1>14. PICK P2 : P2 = P \cup Q
  OBVIOUS
<1>15. \A o \in P : name2[o] = name[o] /\ rank2[o] = rank[o] /\ fin2[o] = fin[o]
  BY <1>11, <1>12, <1>13
<1>16. ASSUME NEW i \in 0..k, NEW q, q = base + a[i]
       PROVE  /\ q \in P2 /\ name2[q] = Suffix(nm, i) /\ rank2[q] = base + (f - q) /\ fin2[q] = f
  <2>1. q \in Q /\ q \notin P /\ index[q] = i
    BY <1>5, <1>10, <1>16
  <2>. QED
    BY <1>11, <1>12, <1>13, <1>14, <2>1
<1>17. /\ \A i \in 0..(k - 1) : LabelThere(m, nm, a, base, i)
       /\ \A x \in base..(f - 1) : At(m, x) \in Plain
  <2>1. /\ \A i \in 0..(k - 1) : LabelThere(m, nm, a, base, i)
        /\ \A x \in base..(base + a[k] - 1) : At(m, x) \in Plain
    BY <1>1, WrittenSays
  <2>2. base + (a[k] - 1) = f - 1
    <3>1. k \in 0..k
      BY <1>1
    <3>. QED
      BY <1>3, <1>4, <1>5, <3>1
  <2>3. \A x \in base..(f - 1) : At(m, x) \in Plain
    BY <2>1, <2>2, Zenon
  <2>. QED
    BY <2>1, <2>3
<1>18. EndsOrPoints(m, P, name, nm, k, f, c)
  BY <1>1, <1>4
<1>19. f < c
  BY <1>1, <1>4
<1>20. ASSUME NEW i \in 0..k, NEW q, q = base + a[i] PROVE Goes(m, q, f, c)
  <2>1. q \in Nat /\ q >= base /\ q <= f
    BY <1>3, <1>5, <1>20
  <2>2. f \in q..(c - 1) /\ \A x \in q..(f - 1) : x \in base..(f - 1)
    BY <1>3, <1>19, <2>1
  <2>3. At(m, f) = 0 \/ (IsPointer(At(m, f)) /\ f + 1 < c)
    BY <1>18 DEF EndsOrPoints
  <2>. QED
    BY <1>17, <2>2, <2>3 DEF Goes
<1>21. ASSUME NEW i \in 0..k, NEW q, q = base + a[i]
       PROVE  /\ rank2[q] \in 0..(c - 1) /\ Goes(m, q, fin2[q], c)
              /\ \/ Ends(m, name2, fin2, q) \/ Points(m, P2, name2, rank2, fin2, q)
                 \/ Continues(m, P2, name2, rank2, fin2, q)
  <2>1. q \in P2 /\ name2[q] = Suffix(nm, i) /\ rank2[q] = base + (f - q) /\ fin2[q] = f
    BY <1>16, <1>21
  <2>2. q \in Nat /\ q >= base /\ q <= f
    BY <1>3, <1>5, <1>21
  <2>3. rank2[q] \in 0..(c - 1)
    BY <1>3, <1>19, <2>1, <2>2
  <2>4. Goes(m, q, fin2[q], c)
    BY <1>20, <1>21, <2>1
  <2>5. CASE i = k
    <3>1. q = f
      BY <1>4, <1>21, <2>5
    <3>2. ASSUME k = Len(nm), At(m, f) = 0 PROVE Ends(m, name2, fin2, q)
      <4>1. Suffix(nm, k) = <<>>
        BY <3>2, Suffixes
      <4>. QED
        BY <2>1, <2>5, <3>1, <3>2, <4>1 DEF Ends
    <3>3. ASSUME IsPointer(At(m, f)), NEW p \in P, p = 256 * (At(m, f) - 192) + At(m, f + 1),
                 name[p] = Suffix(nm, k)
          PROVE  Points(m, P2, name2, rank2, fin2, q)
      <4>1. p \in P2 /\ name2[p] = name2[q]
        BY <1>14, <1>15, <2>1, <2>5, <3>3
      <4>2. rank2[p] \in 0..(b - 1)
        BY <1>15 DEF Laid
      <4>3. rank2[p] < rank2[q]
        BY <1>3, <2>1, <2>2, <4>2
      <4>. QED
        BY <2>1, <3>1, <3>3, <4>1, <4>3 DEF Points
    <3>. QED
      BY <1>18, <2>3, <2>4, <3>2, <3>3 DEF EndsOrPoints
  <2>6. CASE i # k
    <3>1. i \in 0..(k - 1) /\ i + 1 \in 0..k /\ i < i + 1 /\ i \in 0..(n - 1)
      BY <1>1, <2>6
    <3>2. PICK l \in Seq(Bytes) : /\ l = nm[i + 1] /\ Says(m, q, l)
                                  /\ base + a[i + 1] = q + 1 + Len(l)
      BY <1>17, <1>21, <3>1 DEF LabelThere
    <3>3. PICK r : r = base + a[i + 1]
      OBVIOUS
    <3>4. r \in P2 /\ name2[r] = Suffix(nm, i + 1) /\ rank2[r] = base + (f - r) /\ fin2[r] = f
      BY <1>16, <3>1, <3>3
    <3>5. a[i] + 2 <= a[i + 1] /\ a[i] \in Nat /\ a[i + 1] \in Nat
      BY <1>5, <1>6, <3>1
    <3>6. rank2[r] < rank2[q]
      <4>1. PICK x, y \in Nat : x = a[i] /\ y = a[i + 1] /\ x < y
        BY <3>5
      <4>2. q = base + x /\ r = base + y
        BY <1>21, <3>3, <4>1
      <4>3. base + (f - r) < base + (f - q)
        <5>1. \A u, v, d, e \in Nat : d < e => u + (v - (u + e)) < u + (v - (u + d))
          OBVIOUS
        <5>. QED
          BY <1>3, <4>1, <4>2, <5>1, Zenon
      <4>. QED
        BY <2>1, <3>4, <4>3
    <3>7. Suffix(nm, i) = <<l>> \o Suffix(nm, i + 1)
      BY <1>1, <3>1, <3>2, Suffixes
    <3>8. Continues(m, P2, name2, rank2, fin2, q)
      BY <2>1, <3>2, <3>3, <3>4, <3>6, <3>7, Zenon DEF Continues
    <3>. QED
      BY <2>3, <2>4, <3>8
  <2>. QED
    BY <2>5, <2>6
<1>22. P2 \subseteq 12..(c - 1)
  <2>1. P \subseteq 12..(c - 1)
    <3>1. k \in 0..k
      BY <1>1
    <3>2. b <= c
      BY <1>3, <1>4, <1>5, <1>19, <3>1
    <3>3. P \subseteq 12..(b - 1)
      BY DEF Laid
    <3>4. 12..(b - 1) \subseteq 12..(c - 1)
      BY <1>3, <3>2
    <3>. QED
      BY <3>3, <3>4
  <2>2. Q \subseteq 12..(c - 1)
    BY <1>5, <1>8
  <2>. QED
    BY <1>14, <2>1, <2>2
<1>23. ASSUME NEW o \in P2
       PROVE  /\ rank2[o] \in 0..(c - 1) /\ Goes(m, o, fin2[o], c)
              /\ \/ Ends(m, name2, fin2, o) \/ Points(m, P2, name2, rank2, fin2, o)
                 \/ Continues(m, P2, name2, rank2, fin2, o)
  <2>1. CASE o \in P
    <3>1. \/ Ends(m, name2, fin2, o) \/ Points(m, P2, name2, rank2, fin2, o)
          \/ Continues(m, P2, name2, rank2, fin2, o)
      BY <1>14, <1>15, <2>1, Widened
    <3>2. rank[o] \in 0..(b - 1) /\ Goes(m, o, fin[o], b) /\ o \in 12..(b - 1)
      BY <2>1 DEF Laid
    <3>3. o \in Nat /\ o >= 12 /\ b <= c
      BY <1>3, <1>4, <1>5, <1>19, <3>2
    <3>4. rank2[o] \in 0..(c - 1)
      BY <1>3, <1>15, <2>1, <3>2, <3>3
    <3>5. SameBytes(m, m, b)
      BY DEF SameBytes
    <3>6. Goes(m, o, fin2[o], c)
      BY <1>3, <1>15, <2>1, <3>2, <3>3, <3>5, GoesKept
    <3>. QED
      BY <3>1, <3>4, <3>6
  <2>2. CASE o \in Q
    <3>1. PICK i \in 0..k : o = base + a[i]
      BY <1>8, <2>2
    <3>. QED
      BY <1>21, <3>1
  <2>. QED
    BY <1>14, <2>1, <2>2
<1>24. Laid(m, P2, name2, rank2, fin2, c)
  BY <1>22, <1>23 DEF Laid
<1>25. Extends(P, name, P2, name2, nm, k, base)
  <2>1. P \subseteq P2 /\ \A o \in P : name2[o] = name[o]
    BY <1>14, <1>15
  <2>2. \A i \in 0..k : base + a[i] \in P2 /\ name2[base + a[i]] = Suffix(nm, i)
    BY <1>16
  <2>. QED
    BY <1>1, <2>1, <2>2 DEF Extends
<1>26. Goes(m, base, f, c)
  <2>1. 0 \in 0..k /\ base = base + a[0]
    BY <1>1, <1>2, <1>3 DEF Places
  <2>. QED
    BY <1>20, <2>1
<1>. QED
  BY <1>1, <1>4, <1>24, <1>25, <1>26

-----------------------------------------------------------------------------
(* Strings of bytes in a row; the header; one more answer.                  *)

\* m is s and then t.
Joined(s, t, m) ==
    /\ m \in Seq(Bytes) /\ Len(m) = Len(s) + Len(t)
    /\ \A i \in 0..(Len(s) - 1) : At(m, i) = At(s, i)
    /\ Has(m, Len(s), t)

\* Two strings of bytes in a row are.
LEMMA Joins == ASSUME NEW s \in Seq(Bytes), NEW t \in Seq(Bytes) PROVE Joined(s, t, s \o t)
<1>1. PICK p, q \in Nat : p = Len(s) /\ q = Len(t)
  OBVIOUS
<1>2. PICK m : m = s \o t
  OBVIOUS
<1>3. m \in Seq(Bytes) /\ Len(m) = p + q /\ \A i \in 1..(p + q) : m[i] = IF i <= p THEN s[i] ELSE t[i - p]
  <2>1. PICK B : B = Bytes
    OBVIOUS
  <2>2. /\ s \o t \in Seq(B) /\ Len(s \o t) = Len(s) + Len(t)
        /\ \A i \in 1..(Len(s) + Len(t)) : (s \o t)[i] = IF i <= Len(s) THEN s[i] ELSE t[i - Len(s)]
    BY <2>1, ConcatProperties
  <2>. QED
    BY <1>1, <1>2, <2>1, <2>2
<1>4. ASSUME NEW i \in 0..(p - 1) PROVE At(m, i) = At(s, i)
  <2>1. PICK j \in 1..(p + q) : j = i + 1 /\ j <= p /\ i < p /\ i < p + q /\ i \in Nat
    <3>1. i + 1 \in 1..(p + q) /\ i + 1 <= p /\ i < p /\ i < p + q /\ i \in Nat
      BY <1>1
    <3>. QED
      BY <3>1
  <2>2. m[j] = s[j]
    BY <1>3, <2>1
  <2>3. At(m, i) = m[i + 1] /\ At(s, i) = s[i + 1]
    BY <1>1, <1>3, <2>1, AtIs
  <2>. QED
    BY <2>1, <2>2, <2>3
<1>5. ASSUME NEW i \in 0..(q - 1) PROVE At(m, p + i) = t[i + 1]
  <2>1. PICK j \in 1..(p + q) : j = p + i + 1 /\ ~(j <= p) /\ j - p = i + 1 /\ p + i < p + q /\ p + i \in Nat
    <3>1. p + i + 1 \in 1..(p + q) /\ ~(p + i + 1 <= p) /\ (p + i + 1) - p = i + 1 /\ p + i < p + q /\ p + i \in Nat
      BY <1>1
    <3>. QED
      BY <3>1
  <2>2. m[j] = t[i + 1]
    BY <1>3, <2>1
  <2>3. At(m, p + i) = m[(p + i) + 1]
    BY <1>1, <1>3, <2>1, AtIs
  <2>. QED
    BY <2>1, <2>2, <2>3
<1>. QED
  BY <1>1, <1>2, <1>3, <1>4, <1>5 DEF Joined, Has

\* What was in s still is.
LEMMA HasKept == ASSUME NEW s \in Seq(Bytes), NEW t \in Seq(Bytes), NEW m, Joined(s, t, m),
                        NEW at \in Nat, NEW u, Len(u) \in Nat, Has(s, at, u)
                 PROVE  Has(m, at, u)
<1>1. PICK p, q, r \in Nat : p = Len(s) /\ q = Len(t) /\ r = Len(u)
  OBVIOUS
<1>2. at + r <= p /\ Len(m) = p + q /\ \A i \in 0..(p - 1) : At(m, i) = At(s, i)
  BY <1>1 DEF Joined, Has
<1>3. ASSUME NEW i \in 0..(r - 1) PROVE At(m, at + i) = u[i + 1]
  <2>1. at + i \in 0..(p - 1)
    BY <1>2
  <2>2. At(s, at + i) = u[i + 1]
    BY <1>1 DEF Has
  <2>. QED
    BY <1>2, <2>1, <2>2
<1>. QED
  BY <1>1, <1>2, <1>3 DEF Has

\* It begins with s.
LEMMA HasFirst == ASSUME NEW s \in Seq(Bytes), NEW t \in Seq(Bytes), NEW m, Joined(s, t, m)
                  PROVE  Has(m, 0, s)
<1>1. PICK p, q \in Nat : p = Len(s) /\ q = Len(t)
  OBVIOUS
<1>2. 0 + p <= Len(m)
  BY <1>1 DEF Joined
<1>3. ASSUME NEW i \in 0..(p - 1) PROVE At(m, 0 + i) = s[i + 1]
  <2>1. i \in Nat /\ i < p /\ 0 + i = i
    BY <1>1
  <2>2. At(m, i) = At(s, i)
    BY <1>1 DEF Joined
  <2>3. At(s, i) = s[i + 1]
    BY <1>1, <2>1, AtIs
  <2>. QED
    BY <2>1, <2>2, <2>3
<1>. QED
  BY <1>1, <1>2, <1>3 DEF Has

\* The header has 12 bytes, those of a reply without an error.
LEMMA HeaderIs == ASSUME NEW n \in Bytes
                  PROVE  /\ Header(n) \in Seq(Bytes) /\ Len(Header(n)) = 12
                         /\ <<Header(n)[1], Header(n)[2]>> = TransId /\ Header(n)[3] = 129 /\ Header(n)[4] = 128
                         /\ Header(n)[5] = 0 /\ Header(n)[6] = 1 /\ Header(n)[7] = 0 /\ Header(n)[8] = n
<1>0. 129 \in Bytes /\ 128 \in Bytes /\ 0 \in Bytes /\ 1 \in Bytes
  BY DEF Bytes
<1>1. PICK x \in Bytes, y \in Bytes : TransId = <<x, y>>
  BY IdAssumption
<1>2. ASSUME NEW u \in Bytes, NEW v \in Bytes, NEW t, t = <<u, v>>
      PROVE  t \in Seq(Bytes) /\ Len(t) = 2 /\ t[1] = u /\ t[2] = v
  <2>1. t \in Seq(Bytes)
    BY <1>2
  <2>2. Len(t) = 2 /\ t[1] = u /\ t[2] = v
    BY <1>2
  <2>. QED
    BY <2>1, <2>2
<1>3. PICK g1, g2, g3, g4 : g1 = <<129, 128>> /\ g2 = <<0, 1>> /\ g3 = <<0, n>> /\ g4 = <<0, 0, 0, 0>>
  OBVIOUS
<1>4. TransId \in Seq(Bytes) /\ Len(TransId) = 2 /\ TransId[1] = x /\ TransId[2] = y
  BY <1>1, <1>2
<1>5. g1 \in Seq(Bytes) /\ Len(g1) = 2 /\ g1[1] = 129 /\ g1[2] = 128
  BY <1>0, <1>2, <1>3
<1>6. g2 \in Seq(Bytes) /\ Len(g2) = 2 /\ g2[1] = 0 /\ g2[2] = 1
  BY <1>0, <1>2, <1>3
<1>7. g3 \in Seq(Bytes) /\ Len(g3) = 2 /\ g3[1] = 0 /\ g3[2] = n
  BY <1>0, <1>2, <1>3
<1>8. g4 \in Seq(Bytes) /\ Len(g4) = 4
  <2>1. g4 \in Seq(Bytes)
    BY <1>0, <1>3
  <2>. QED
    BY <1>3, <2>1
<1>9. PICK k1, k2, k3, k4 : k1 = TransId \o g1 /\ k2 = k1 \o g2 /\ k3 = k2 \o g3 /\ k4 = k3 \o g4
  OBVIOUS
<1>10. Joined(TransId, g1, k1) /\ k1 \in Seq(Bytes) /\ Len(k1) = 4
  <2>1. Joined(TransId, g1, k1)
    BY <1>4, <1>5, <1>9, Joins
  <2>. QED
    BY <1>4, <1>5, <2>1 DEF Joined
<1>11. Joined(k1, g2, k2) /\ k2 \in Seq(Bytes) /\ Len(k2) = 6
  <2>1. Joined(k1, g2, k2)
    BY <1>6, <1>9, <1>10, Joins
  <2>2. k2 \in Seq(Bytes) /\ Len(k2) = Len(k1) + Len(g2)
    BY <2>1 DEF Joined
  <2>. QED
    BY <1>6, <1>10, <2>1, <2>2
<1>12. Joined(k2, g3, k3) /\ k3 \in Seq(Bytes) /\ Len(k3) = 8
  <2>1. Joined(k2, g3, k3)
    BY <1>7, <1>9, <1>11, Joins
  <2>2. k3 \in Seq(Bytes) /\ Len(k3) = Len(k2) + Len(g3)
    BY <2>1 DEF Joined
  <2>. QED
    BY <1>7, <1>11, <2>1, <2>2
<1>13. Joined(k3, g4, k4) /\ k4 \in Seq(Bytes) /\ Len(k4) = 12
  <2>1. Joined(k3, g4, k4)
    BY <1>8, <1>9, <1>12, Joins
  <2>2. k4 \in Seq(Bytes) /\ Len(k4) = Len(k3) + Len(g4)
    BY <2>1 DEF Joined
  <2>. QED
    BY <1>8, <1>12, <2>1, <2>2
<1>14. \A at \in Nat, u \in Seq(Bytes) :
          /\ Has(k1, at, u) => Has(k2, at, u)
          /\ Has(k2, at, u) => Has(k3, at, u)
          /\ Has(k3, at, u) => Has(k4, at, u)
  <2> TAKE at \in Nat, u \in Seq(Bytes)
  <2>0. Len(u) \in Nat
    OBVIOUS
  <2>1. Has(k1, at, u) => Has(k2, at, u)
    BY <2>0, <1>6, <1>10, <1>11, HasKept
  <2>2. Has(k2, at, u) => Has(k3, at, u)
    BY <2>0, <1>7, <1>11, <1>12, HasKept
  <2>3. Has(k3, at, u) => Has(k4, at, u)
    BY <2>0, <1>8, <1>12, <1>13, HasKept
  <2>. QED
    BY <2>1, <2>2, <2>3
<1>15. Has(k1, 0, TransId) /\ Has(k1, 2, g1) /\ Has(k2, 4, g2) /\ Has(k3, 6, g3)
  <2>1. Has(k1, 0, TransId)
    BY <1>4, <1>5, <1>10, HasFirst
  <2>2. Has(k1, 2, g1)
    BY <1>4, <1>10 DEF Joined
  <2>3. Has(k2, 4, g2)
    BY <1>10, <1>11 DEF Joined
  <2>4. Has(k3, 6, g3)
    BY <1>11, <1>12 DEF Joined
  <2>. QED
    BY <2>1, <2>2, <2>3, <2>4
<1>16. Has(k4, 0, TransId) /\ Has(k4, 2, g1) /\ Has(k4, 4, g2) /\ Has(k4, 6, g3)
  <2>0. 0 \in Nat /\ 2 \in Nat /\ 4 \in Nat /\ 6 \in Nat
    OBVIOUS
  <2>9. ASSUME NEW at \in Nat, NEW u \in Seq(Bytes), Has(k1, at, u) PROVE Has(k4, at, u)
    BY <1>14, <2>9, Zenon
  <2>1. Has(k4, 0, TransId)
    BY <1>4, <1>15, <2>0, <2>9, Zenon
  <2>2. Has(k4, 2, g1)
    <3>1. g1 \in Seq(Bytes) /\ Has(k1, 2, g1) /\ 2 \in Nat
      BY <1>5, <1>15, <2>0
    <3>. QED
      BY <2>9, <3>1, Zenon
  <2>3. Has(k4, 4, g2)
    BY <1>6, <1>14, <1>15, <2>0, Zenon
  <2>4. Has(k4, 6, g3)
    BY <1>7, <1>14, <1>15, <2>0, Zenon
  <2>. QED
    BY <2>1, <2>2, <2>3, <2>4
<1>17. ASSUME NEW at \in 0..6, NEW t, Len(t) = 2, Has(k4, at, t)
       PROVE  k4[at + 1] = t[1] /\ k4[at + 2] = t[2]
  <2>1. At(k4, at + 0) = t[0 + 1] /\ At(k4, at + 1) = t[1 + 1]
    BY <1>17 DEF Has
  <2>2. at \in Nat /\ at < 12 /\ at + 1 \in Nat /\ at + 1 < 12
    OBVIOUS
  <2>3. At(k4, at) = k4[at + 1] /\ At(k4, at + 1) = k4[(at + 1) + 1]
    BY <1>13, <2>2, AtIs
  <2>. QED
    BY <2>1, <2>3
<1>18. k4[1] = x /\ k4[2] = y /\ k4[3] = 129 /\ k4[4] = 128 /\ k4[5] = 0 /\ k4[6] = 1 /\ k4[7] = 0 /\ k4[8] = n
  <2>1. k4[0 + 1] = x /\ k4[0 + 2] = y
    BY <1>4, <1>16, <1>17
  <2>2. k4[2 + 1] = 129 /\ k4[2 + 2] = 128
    BY <1>5, <1>16, <1>17
  <2>3. k4[4 + 1] = 0 /\ k4[4 + 2] = 1
    BY <1>6, <1>16, <1>17
  <2>4. k4[6 + 1] = 0 /\ k4[6 + 2] = n
    BY <1>7, <1>16, <1>17
  <2>. QED
    BY <2>1, <2>2, <2>3, <2>4
<1>19. Header(n) = k4
  BY <1>3, <1>9, Zenon DEF Header
<1>. QED
  BY <1>1, <1>13, <1>18, <1>19

\* m with another header.
Reheaded(m, n) == Header(n) \o SubSeq(m, 13, Len(m))

\* The rest stays as it was.
LEMMA ReheadedIs == ASSUME NEW m \in Seq(Bytes), Len(m) >= 12, NEW n \in Bytes
                    PROVE  LET s1 == Reheaded(m, n)
                           IN /\ s1 \in Seq(Bytes) /\ Len(s1) = Len(m)
                              /\ Has(s1, 0, Header(n)) /\ SameBytes(m, s1, Len(m))
<1>1. PICK L \in Nat : L = Len(m) /\ L >= 12
  OBVIOUS
<1>2. PICK h : h = Header(n) /\ h \in Seq(Bytes) /\ Len(h) = 12
  BY HeaderIs
<1>3. PICK r : r = SubSeq(m, 13, L)
  OBVIOUS
<1>4. r \in Seq(Bytes) /\ Len(r) = L - 12 /\ \A i \in 1..(L - 12) : r[i] = m[12 + i]
  <2>1. PICK B : B = Bytes
    OBVIOUS
  <2>2. \A i \in 13..L : m[i] \in B
    BY <1>1, <2>1
  <2>3. /\ SubSeq(m, 13, L) \in Seq(B)
        /\ Len(SubSeq(m, 13, L)) = IF 13 <= L THEN L - 13 + 1 ELSE 0
        /\ \A i \in 1..(L - 13 + 1) : SubSeq(m, 13, L)[i] = m[13 + i - 1]
    BY <2>2, SubSeqProperties
  <2>4. \A i \in 1..(L - 12) : i \in 1..(L - 13 + 1) /\ 13 + i - 1 = 12 + i
    BY <1>1
  <2>5. (IF 13 <= L THEN L - 13 + 1 ELSE 0) = L - 12
    BY <1>1
  <2>. QED
    BY <1>3, <2>1, <2>3, <2>4, <2>5
<1>5. PICK s1 : s1 = h \o r
  OBVIOUS
<1>6. Joined(h, r, s1) /\ s1 \in Seq(Bytes) /\ Len(s1) = L
  <2>1. Joined(h, r, s1)
    BY <1>2, <1>4, <1>5, Joins
  <2>2. s1 \in Seq(Bytes) /\ Len(s1) = 12 + (L - 12)
    BY <1>2, <1>4, <2>1 DEF Joined
  <2>. QED
    BY <1>1, <2>1, <2>2
<1>7. Has(s1, 0, h) /\ SameBytes(m, s1, L)
  <2>1. ASSUME NEW i \in 0..11 PROVE At(s1, i) = h[i + 1]
    <3>1. At(s1, i) = At(h, i)
      BY <1>2, <1>6 DEF Joined
    <3>2. At(h, i) = h[i + 1]
      <4>1. i \in Nat /\ i < Len(h)
        BY <1>2
      <4>. QED
        BY <1>2, <4>1, AtIs
    <3>. QED
      BY <3>1, <3>2
  <2>2. ASSUME NEW i \in 12..(L - 1) PROVE At(s1, i) = At(m, i)
    <3>1. PICK j \in 0..(L - 12 - 1) : i = 12 + j /\ j + 1 \in 1..(L - 12) /\ i + 1 = 12 + (j + 1) /\ i < L /\ i \in Nat
      <4>1. i - 12 \in 0..(L - 12 - 1) /\ i = 12 + (i - 12) /\ (i - 12) + 1 \in 1..(L - 12)
            /\ i + 1 = 12 + ((i - 12) + 1) /\ i < L /\ i \in Nat
        BY <1>1
      <4>. QED
        BY <4>1
    <3>2. At(s1, 12 + j) = r[j + 1]
      BY <1>2, <1>4, <1>6 DEF Joined, Has
    <3>3. r[j + 1] = m[i + 1]
      BY <1>4, <3>1
    <3>4. At(m, i) = m[i + 1]
      BY <1>1, <3>1, AtIs
    <3>. QED
      BY <3>1, <3>2, <3>3, <3>4
  <2>3. \A i \in 0..(12 - 1) : i \in 0..11
    OBVIOUS
  <2>. QED
    BY <1>1, <1>2, <1>6, <2>1, <2>2, <2>3 DEF Has, SameBytes
<1>8. s1 = Reheaded(m, n)
  BY <1>1, <1>2, <1>3, <1>5, Zenon DEF Reheaded
<1>. QED
  BY <1>1, <1>2, <1>6, <1>7, <1>8

\* m2 is m with one more answer: n in the header.
Answered(m, m2, n, code, type, class, data) ==
    LET t == Len(m) + Len(code)
    IN /\ m2 \in Seq(Bytes) /\ Len(m2) = t + 10 + Len(data)
       /\ Has(m2, 0, Header(n)) /\ SameBytes(m, m2, Len(m)) /\ Has(m2, Len(m), code)
       /\ Word16(m2, t) = type /\ Word16(m2, t + 2) = class /\ Word16(m2, t + 8) = Len(data)
       /\ Has(m2, t + 10, data)

\* What Append1 writes is that.
LEMMA AnswerIs == ASSUME NEW m \in Seq(Bytes), Len(m) >= 12, NEW n \in Bytes, NEW code \in Seq(Bytes),
                         NEW type \in Bytes, NEW class \in Bytes, NEW data \in Seq(Bytes), Len(data) \in Bytes
                  PROVE  Answered(m, Header(n) \o SubSeq(m, 13, Len(m)) \o code
                                       \o <<0, type>> \o <<0, class>> \o <<0, 0, 1, 44>> \o <<0, Len(data)>> \o data,
                                  n, code, type, class, data)
<1>1. PICK L, c, d \in Nat : L = Len(m) /\ c = Len(code) /\ d = Len(data) /\ L >= 12
  OBVIOUS
<1>2. PICK h : h = Header(n) /\ h \in Seq(Bytes) /\ Len(h) = 12
  BY HeaderIs
<1>5. PICK s1 : s1 = Reheaded(m, n)
  OBVIOUS
<1>6. s1 \in Seq(Bytes) /\ Len(s1) = L
  BY <1>1, <1>5, ReheadedIs
<1>7. Has(s1, 0, h) /\ SameBytes(m, s1, L)
  BY <1>1, <1>2, <1>5, ReheadedIs
<1> DEFINE Two(x) == <<0, x>>
<1>8. \A x \in Bytes : Two(x) \in Seq(Bytes) /\ Len(Two(x)) = 2 /\ Two(x)[1] = 0 /\ Two(x)[2] = x
  <2> TAKE x \in Bytes
  <2>1. 0 \in Bytes
    BY DEF Bytes
  <2>2. PICK t : t = <<0, x>>
    OBVIOUS
  <2>3. t \in Seq(Bytes)
    BY <2>1, <2>2
  <2>4. Len(t) = 2 /\ t[1] = 0 /\ t[2] = x
    BY <2>2
  <2>. QED
    BY <2>2, <2>3, <2>4
<1>9. PICK ttl : ttl = <<0, 0, 1, 44>> /\ ttl \in Seq(Bytes) /\ Len(ttl) = 4
  <2>1. 0 \in Bytes /\ 1 \in Bytes /\ 44 \in Bytes
    BY DEF Bytes
  <2>2. PICK t : t = <<0, 0, 1, 44>>
    OBVIOUS
  <2>3. t \in Seq(Bytes)
    BY <2>1, <2>2
  <2>4. Len(t) = 4
    BY <2>2
  <2>. QED
    BY <2>2, <2>3, <2>4
<1>10. PICK ty, cl, le : ty = <<0, type>> /\ cl = <<0, class>> /\ le = <<0, Len(data)>>
  OBVIOUS
<1>11. /\ ty \in Seq(Bytes) /\ cl \in Seq(Bytes) /\ le \in Seq(Bytes) /\ Len(ty) = 2 /\ Len(cl) = 2 /\ Len(le) = 2
       /\ ty[1] = 0 /\ ty[2] = type /\ cl[1] = 0 /\ cl[2] = class /\ le[1] = 0 /\ le[2] = d
  BY <1>1, <1>8, <1>10
<1> HIDE DEF Two
<1>12. PICK s2 : s2 = s1 \o code
  OBVIOUS
<1>13. Joined(s1, code, s2) /\ s2 \in Seq(Bytes) /\ Len(s2) = L + c
  <2>1. Joined(s1, code, s2)
    BY <1>6, <1>12, Joins
  <2>. QED
    BY <1>1, <1>6, <2>1 DEF Joined
<1>14. PICK s3 : s3 = s2 \o ty
  OBVIOUS
<1>15. Joined(s2, ty, s3) /\ s3 \in Seq(Bytes) /\ Len(s3) = L + c + 2
  <2>1. Joined(s2, ty, s3)
    BY <1>11, <1>13, <1>14, Joins
  <2>. QED
    BY <1>11, <1>13, <2>1 DEF Joined
<1>16. PICK s4 : s4 = s3 \o cl
  OBVIOUS
<1>17. Joined(s3, cl, s4) /\ s4 \in Seq(Bytes) /\ Len(s4) = L + c + 4
  <2>1. Joined(s3, cl, s4)
    BY <1>11, <1>15, <1>16, Joins
  <2>2. s4 \in Seq(Bytes) /\ Len(s4) = Len(s3) + 2
    BY <1>11, <2>1 DEF Joined
  <2>3. L + c + 2 + 2 = L + c + 4
    OBVIOUS
  <2>. QED
    BY <1>15, <2>1, <2>2, <2>3
<1>18. PICK s5 : s5 = s4 \o ttl
  OBVIOUS
<1>19. Joined(s4, ttl, s5) /\ s5 \in Seq(Bytes) /\ Len(s5) = L + c + 8
  <2>1. Joined(s4, ttl, s5)
    BY <1>9, <1>17, <1>18, Joins
  <2>. QED
    BY <1>9, <1>17, <2>1 DEF Joined
<1>20. PICK s6 : s6 = s5 \o le
  OBVIOUS
<1>21. Joined(s5, le, s6) /\ s6 \in Seq(Bytes) /\ Len(s6) = L + c + 10
  <2>1. Joined(s5, le, s6)
    BY <1>11, <1>19, <1>20, Joins
  <2>2. s6 \in Seq(Bytes) /\ Len(s6) = Len(s5) + 2
    BY <1>11, <2>1 DEF Joined
  <2>3. L + c + 8 + 2 = L + c + 10
    OBVIOUS
  <2>. QED
    BY <1>19, <2>1, <2>2, <2>3
<1>22. PICK s7 : s7 = s6 \o data
  OBVIOUS
<1>23. Joined(s6, data, s7) /\ s7 \in Seq(Bytes) /\ Len(s7) = L + c + 10 + d
  <2>1. Joined(s6, data, s7)
    BY <1>21, <1>22, Joins
  <2>. QED
    BY <1>1, <1>21, <2>1 DEF Joined
<1>24. /\ Has(s2, L, code) /\ Has(s3, L + c, ty) /\ Has(s4, L + c + 2, cl)
       /\ Has(s6, L + c + 8, le) /\ Has(s7, L + c + 10, data)
  BY <1>6, <1>13, <1>15, <1>17, <1>19, <1>21, <1>23 DEF Joined
<1>25. \A at \in Nat, u \in Seq(Bytes) :
          /\ Has(s1, at, u) => Has(s2, at, u)
          /\ Has(s2, at, u) => Has(s3, at, u)
          /\ Has(s3, at, u) => Has(s4, at, u)
          /\ Has(s4, at, u) => Has(s5, at, u)
          /\ Has(s5, at, u) => Has(s6, at, u)
          /\ Has(s6, at, u) => Has(s7, at, u)
  <2> TAKE at \in Nat, u \in Seq(Bytes)
  <2>0. Len(u) \in Nat
    OBVIOUS
  <2>1. Has(s1, at, u) => Has(s2, at, u)
    BY <2>0, <1>6, <1>13, HasKept
  <2>2. Has(s2, at, u) => Has(s3, at, u)
    BY <2>0, <1>11, <1>13, <1>15, HasKept
  <2>3. Has(s3, at, u) => Has(s4, at, u)
    BY <2>0, <1>11, <1>15, <1>17, HasKept
  <2>4. Has(s4, at, u) => Has(s5, at, u)
    BY <2>0, <1>9, <1>17, <1>19, HasKept
  <2>5. Has(s5, at, u) => Has(s6, at, u)
    BY <2>0, <1>11, <1>19, <1>21, HasKept
  <2>6. Has(s6, at, u) => Has(s7, at, u)
    BY <2>0, <1>21, <1>23, HasKept
  <2>. QED
    BY <2>1, <2>2, <2>3, <2>4, <2>5, <2>6
<1>26. /\ Has(s7, 0, h) /\ Has(s7, L, code) /\ Has(s7, L + c, ty) /\ Has(s7, L + c + 2, cl)
       /\ Has(s7, L + c + 8, le) /\ Has(s7, L + c + 10, data)
  <2>1. Has(s7, 0, h)
    BY <1>2, <1>7, <1>25
  <2>2. L \in Nat /\ L + c \in Nat /\ L + c + 2 \in Nat /\ L + c + 8 \in Nat
    OBVIOUS
  <2>3. Has(s7, L, code)
    BY <1>24, <1>25, <2>2
  <2>4. Has(s7, L + c, ty)
    BY <1>11, <1>24, <1>25, <2>2
  <2>5. Has(s7, L + c + 2, cl)
    BY <1>11, <1>24, <1>25, <2>2
  <2>6. Has(s7, L + c + 8, le)
    BY <1>11, <1>24, <1>25, <2>2
  <2>. QED
    BY <1>24, <2>1, <2>3, <2>4, <2>5, <2>6
<1>27. SameBytes(m, s7, L)
  <2> SUFFICES ASSUME NEW i \in 12..(L - 1) PROVE At(s7, i) = At(m, i)
    BY DEF SameBytes
  <2>1. /\ i \in 0..(L - 1) /\ i \in 0..(L + c - 1) /\ i \in 0..(L + c + 2 - 1) /\ i \in 0..(L + c + 4 - 1)
        /\ i \in 0..(L + c + 8 - 1) /\ i \in 0..(L + c + 10 - 1)
    OBVIOUS
  <2>2. At(s1, i) = At(m, i)
    BY <1>7 DEF SameBytes
  <2>3. At(s2, i) = At(s1, i)
    BY <1>6, <1>13, <2>1 DEF Joined
  <2>4. At(s3, i) = At(s2, i)
    BY <1>13, <1>15, <2>1 DEF Joined
  <2>5. At(s4, i) = At(s3, i)
    BY <1>15, <1>17, <2>1 DEF Joined
  <2>6. At(s5, i) = At(s4, i)
    BY <1>17, <1>19, <2>1 DEF Joined
  <2>7. At(s6, i) = At(s5, i)
    BY <1>19, <1>21, <2>1 DEF Joined
  <2>8. At(s7, i) = At(s6, i)
    BY <1>21, <1>23, <2>1 DEF Joined
  <2>. QED
    BY <2>2, <2>3, <2>4, <2>5, <2>6, <2>7, <2>8
<1>28. ASSUME NEW at \in Nat, NEW x \in Bytes, NEW u, Len(u) = 2, u[1] = 0, u[2] = x, Has(s7, at, u)
       PROVE  Word16(s7, at) = x
  <2>1. 0 \in 0..(Len(u) - 1) /\ 1 \in 0..(Len(u) - 1)
    BY <1>28
  <2>2. At(s7, at + 0) = u[0 + 1] /\ At(s7, at + 1) = u[1 + 1]
    BY <1>28, <2>1 DEF Has
  <2>3. At(s7, at) = 0 /\ At(s7, at + 1) = x
    BY <1>28, <2>2
  <2>4. x \in Nat
    BY DEF Bytes
  <2>. QED
    BY <2>3, <2>4 DEF Word16
<1>29. Word16(s7, L + c) = type /\ Word16(s7, L + c + 2) = class /\ Word16(s7, L + c + 8) = d
  <2>1. L + c \in Nat /\ L + c + 2 \in Nat /\ L + c + 8 \in Nat /\ d \in Bytes
    BY <1>1
  <2>2. Word16(s7, L + c) = type
    BY <1>11, <1>26, <1>28, <2>1
  <2>3. Word16(s7, L + c + 2) = class
    BY <1>11, <1>26, <1>28, <2>1
  <2>4. Word16(s7, L + c + 8) = d
    <3>1. Len(le) = 2 /\ le[1] = 0 /\ le[2] = d /\ Has(s7, L + c + 8, le)
      BY <1>11, <1>26
    <3>. QED
      BY <1>28, <2>1, <3>1
  <2>. QED
    BY <2>2, <2>3, <2>4
<1>30. Answered(m, s7, n, code, type, class, data)
  BY <1>1, <1>2, <1>23, <1>26, <1>27, <1>29 DEF Answered
<1>31. s7 = Header(n) \o SubSeq(m, 13, Len(m)) \o code \o <<0, type>> \o <<0, class>>
              \o <<0, 0, 1, 44>> \o <<0, Len(data)>> \o data
  BY <1>1, <1>5, <1>9, <1>10, <1>12, <1>14, <1>16, <1>18, <1>20, <1>22, Zenon DEF Reheaded
<1>. QED
  BY <1>30, <1>31, Zenon

-----------------------------------------------------------------------------
(* The ways to write a name.                                                *)

\* Quotient and remainder by a positive divisor.
LEMMA Division == ASSUME NEW a \in Nat, NEW b \in Nat \ {0}
                  PROVE  /\ a \div b \in Nat /\ a % b \in 0..(b - 1)
                         /\ a = b * (a \div b) + (a % b)
  OBVIOUS

\* A way to write nm: k labels, and the end or a pointer.
Coded(nm, k, code) ==
    LET n == PlaceOf(nm)[k]
    IN /\ code \in Seq(Bytes) /\ Len(code) \in (n + 1)..(n + 2) /\ Len(code) <= 255
       /\ \A i \in 1..n : code[i] = Labels(SubSeq(nm, 1, k))[i]
       /\ \/ k = Len(nm) /\ code[n + 1] = 0 /\ Len(code) = n + 1
          \/ \E o \in DOMAIN placed : /\ placed[o] = Suffix(nm, k) /\ o < 16384 /\ Len(code) = n + 2
                                      /\ code[n + 1] = 192 + o \div 256 /\ code[n + 2] = o % 256

\* Encodings gives these ways, and they are short.
LEMMA Codes == ASSUME NEW nm \in Names, DOMAIN placed \subseteq Nat, NEW code \in Encodings(nm)
               PROVE  nm \in Seq(Named) /\ \E k \in 0..Len(nm) : Coded(nm, k, code)
<1>1. nm \in Seq(Named) /\ Len(Labels(nm)) < 255
  BY NamesAssumption DEF Named
<1>0. PICK a : a = PlaceOf(nm)
  OBVIOUS
<1>2. PICK N \in Nat : N = Len(nm)
  BY <1>1
<1>3. Places(nm, a)
  BY <1>1, <1>0, <1>2, Placing
<1>14. PICK k \in 0..N : \E tail : /\ tail \in IF k = Len(nm) THEN {<<0>>} ELSE Pointers(Suffix(nm, k))
                                   /\ code = Labels(SubSeq(nm, 1, k)) \o tail
  BY <1>2 DEF Encodings
<1>4. PICK tail : /\ tail \in IF k = Len(nm) THEN {<<0>>} ELSE Pointers(Suffix(nm, k))
                  /\ code = Labels(SubSeq(nm, 1, k)) \o tail
  BY <1>14
<1>5. PICK w : w = Labels(SubSeq(nm, 1, k))
  OBVIOUS
<1>6. Spelled(w, nm, a, k)
  BY <1>1, <1>0, <1>2, <1>5, Spelling
<1>7. PICK n \in Nat : n = a[k] /\ Len(w) = n
  BY <1>1, <1>0, <1>2, <1>3, <1>6, PlacesGrow DEF Spelled
<1>8. w \in Seq(Bytes)
  <2>1. Plain \subseteq Bytes
    BY DEF Plain, Bytes
  <2>2. w \in Seq(Plain)
    BY <1>6 DEF Spelled
  <2>. QED
    BY <2>1, <2>2, SeqMonotonic
<1>9. n <= 254 /\ (k # N => n + 2 <= 254)
  <2>1. SubSeq(nm, 1, N) = nm
    BY <1>1, <1>0, <1>2, SubSeqFull
  <2>2. a[N] = Len(Labels(nm))
    <3>1. N \in 0..Len(nm)
      BY <1>0, <1>2
    <3>2. a[N] = Len(Labels(SubSeq(nm, 1, N)))
      BY <1>0, <1>2, <3>1 DEF PlaceOf
    <3>. QED
      BY <2>1, <3>2
  <2>3. N \in 0..N /\ k \in 0..N
    OBVIOUS
  <2>4. a[N] \in Nat /\ (k < N => a[k] + 2 <= a[N])
    BY <1>1, <1>0, <1>2, <1>3, <2>3, PlacesGrow
  <2>5. PICK y \in Nat : y = a[N] /\ y <= 254
    BY <1>1, <2>2, <2>4
  <2>6. k # N => k < N
    OBVIOUS
  <2>. QED
    BY <1>7, <2>4, <2>5, <2>6
<1>10. ASSUME NEW t \in Seq(Bytes), tail = t
       PROVE  /\ code \in Seq(Bytes) /\ Len(code) = n + Len(t)
              /\ \A i \in 1..n : code[i] = w[i]
              /\ \A i \in 1..Len(t) : code[n + i] = t[i]
  <2>1. PICK B : B = Bytes
    OBVIOUS
  <2>2. /\ w \o t \in Seq(B) /\ Len(w \o t) = Len(w) + Len(t)
        /\ \A i \in 1..(Len(w) + Len(t)) : (w \o t)[i] = IF i <= Len(w) THEN w[i] ELSE t[i - Len(w)]
    BY <1>8, <2>1, ConcatProperties
  <2>3. code = w \o t
    BY <1>4, <1>5, <1>10
  <2>4. PICK q \in Nat : q = Len(t)
    OBVIOUS
  <2>5. \A i \in 1..(n + q) : code[i] = IF i <= n THEN w[i] ELSE t[i - n]
    BY <1>7, <2>2, <2>3, <2>4
  <2>6. ASSUME NEW i \in 1..n PROVE code[i] = w[i]
    <3>1. i \in 1..(n + q) /\ i <= n
      OBVIOUS
    <3>. QED
      BY <2>5, <3>1
  <2>7. ASSUME NEW i \in 1..q PROVE code[n + i] = t[i]
    <3>1. n + i \in 1..(n + q) /\ ~(n + i <= n) /\ (n + i) - n = i
      OBVIOUS
    <3>. QED
      BY <2>5, <3>1
  <2>. QED
    BY <1>7, <2>1, <2>2, <2>3, <2>4, <2>6, <2>7
<1>11. CASE k = N
  <2>1. PICK t : t = <<0>>
    OBVIOUS
  <2>2. tail = t
    BY <1>0, <1>2, <1>4, <1>11, <2>1
  <2>3. t \in Seq(Bytes)
    <3>1. 0 \in Bytes
      BY DEF Bytes
    <3>. QED
      BY <2>1, <3>1
  <2>4. Len(t) = 1 /\ t[1] = 0
    BY <2>1
  <2>5. code \in Seq(Bytes) /\ Len(code) = n + 1 /\ \A i \in 1..n : code[i] = w[i]
    BY <1>10, <2>2, <2>3, <2>4
  <2>6. code[n + 1] = 0
    <3>1. 1 \in 1..Len(t)
      BY <2>4
    <3>. QED
      BY <1>10, <2>2, <2>3, <2>4, <3>1
  <2>7. n + 1 \in (n + 1)..(n + 2) /\ n + 1 <= 255
    BY <1>9
  <2>8. Coded(nm, k, code)
    BY <1>0, <1>2, <1>5, <1>7, <1>11, <2>5, <2>6, <2>7 DEF Coded
  <2>. QED
    BY <1>1, <1>0, <1>2, <2>8
<1>12. CASE k # N
  <2>1. PICK o \in DOMAIN placed : /\ placed[o] = Suffix(nm, k) /\ o < 16384
                                   /\ tail = <<192 + o \div 256, o % 256>>
    BY <1>0, <1>2, <1>4, <1>12 DEF Pointers
  <2>2. PICK x, y : x = 192 + o \div 256 /\ y = o % 256
    OBVIOUS
  <2>3. x \in Bytes /\ y \in Bytes
    <3>1. o \in Nat
      OBVIOUS
    <3>2. o \div 256 \in 0..63 /\ o % 256 \in 0..255
      BY <2>1, <3>1
    <3>. QED
      BY <2>2, <3>2 DEF Bytes
  <2>4. PICK t : t = <<x, y>>
    OBVIOUS
  <2>5. t \in Seq(Bytes)
    BY <2>3, <2>4
  <2>6. Len(t) = 2 /\ t[1] = x /\ t[2] = y
    BY <2>4
  <2>7. tail = t
    BY <2>1, <2>2, <2>4
  <2>8. code \in Seq(Bytes) /\ Len(code) = n + 2 /\ \A i \in 1..n : code[i] = w[i]
    BY <1>10, <2>5, <2>6, <2>7
  <2>9. code[n + 1] = x /\ code[n + 2] = y
    <3>1. 1 \in 1..Len(t) /\ 2 \in 1..Len(t)
      BY <2>6
    <3>. QED
      BY <1>10, <2>5, <2>6, <2>7, <3>1
  <2>10. n + 2 \in (n + 1)..(n + 2) /\ n + 2 <= 255
    BY <1>9, <1>12
  <2>11. Coded(nm, k, code)
    BY <1>0, <1>2, <1>5, <1>7, <2>1, <2>2, <2>8, <2>9, <2>10 DEF Coded
  <2>. QED
    BY <1>1, <1>0, <1>2, <2>11
<1>. QED
  BY <1>11, <1>12

\* The names in pl are those that are laid.
Agrees(pl, P, name) == \A o \in DOMAIN pl : o \in P /\ pl[o] = name[o]

\* Written that way, the name ends there or points to what is left of it.
LEMMA CodeWritten == ASSUME NEW m \in Seq(Bytes), NEW nm \in Seq(Named), NEW k \in 0..Len(nm), NEW code, Coded(nm, k, code),
                            NEW base \in Nat, base >= 12, Has(m, base, code),
                            NEW P, NEW name, Agrees(placed, P, name), DOMAIN placed \subseteq Nat,
                            NEW c \in Nat, base + Len(code) <= c
                     PROVE  LET f == base + PlaceOf(nm)[k]
                            IN /\ Written(m, nm, k, base) /\ EndsOrPoints(m, P, name, nm, k, f, c)
                               /\ f < c /\ f \in Nat /\ After(m, f) = base + Len(code)
<1>1. PICK a : a = PlaceOf(nm)
  OBVIOUS
<1>2. Spelled(Labels(SubSeq(nm, 1, k)), nm, a, k) /\ Places(nm, a)
  BY <1>1, Spelling, Placing
<1>3. PICK w : w = Labels(SubSeq(nm, 1, k))
  OBVIOUS
<1>4. PICK n \in Nat : n = a[k] /\ Len(w) = n
  BY <1>1, <1>2, <1>3, PlacesGrow DEF Spelled
<1>5. PICK z \in Nat : z = Len(code) /\ z \in (n + 1)..(n + 2)
  BY <1>1, <1>4 DEF Coded
<1>6. base + z <= Len(m) /\ \A i \in 0..(z - 1) : At(m, base + i) = code[i + 1]
  BY <1>5 DEF Has
<1>7. Written(m, nm, k, base)
  <2>1. base + n <= Len(m)
    <3>1. PICK q \in Nat : q = Len(m)
      OBVIOUS
    <3>. QED
      BY <1>5, <1>6, <3>1
  <2>0. \A i \in 1..n : code[i] = w[i]
    BY <1>1, <1>3, <1>4 DEF Coded
  <2>2. ASSUME NEW i \in 0..(n - 1) PROVE At(m, base + i) = w[i + 1]
    <3>1. i \in 0..(z - 1) /\ i + 1 \in 1..n
      BY <1>5
    <3>2. code[i + 1] = w[i + 1]
      BY <2>0, <3>1
    <3>. QED
      BY <1>6, <3>1, <3>2
  <2>. QED
    BY <1>3, <1>4, <2>1, <2>2 DEF Written, Has
<1>8. PICK f \in Nat : f = base + n /\ f < c /\ f + 1 = base + (n + 1)
  <2>1. base + n \in Nat /\ base + n < c /\ (base + n) + 1 = base + (n + 1)
    BY <1>5
  <2>. QED
    BY <2>1
<1>9. At(m, f) = code[n + 1]
  <2>1. n \in 0..(z - 1)
    BY <1>5
  <2>. QED
    BY <1>6, <1>8, <2>1
<1>10. ASSUME k = Len(nm), code[n + 1] = 0, z = n + 1
       PROVE  EndsOrPoints(m, P, name, nm, k, f, c) /\ After(m, f) = base + z
  <2>1. At(m, f) = 0 /\ ~IsPointer(At(m, f))
    BY <1>9, <1>10 DEF IsPointer
  <2>2. After(m, f) = f + 1
    BY <2>1 DEF After
  <2>. QED
    BY <1>8, <1>10, <2>1, <2>2 DEF EndsOrPoints
<1>11. ASSUME NEW o \in DOMAIN placed, placed[o] = Suffix(nm, k), o < 16384, z = n + 2,
              code[n + 1] = 192 + o \div 256, code[n + 2] = o % 256
       PROVE  EndsOrPoints(m, P, name, nm, k, f, c) /\ After(m, f) = base + z
  <2>1. o \in Nat /\ o \in P /\ name[o] = Suffix(nm, k)
    BY <1>11 DEF Agrees
  <2>2. PICK x \in 0..63, y \in 0..255 : x = o \div 256 /\ y = o % 256 /\ o = 256 * x + y
    <3>1. PICK b \in Nat \ {0} : b = 256
      OBVIOUS
    <3>2. o \div b \in Nat /\ o % b \in 0..(b - 1) /\ o = b * (o \div b) + (o % b)
      BY <2>1, Division, Zenon
    <3>3. PICK x, y : /\ x = o \div 256 /\ y = o % 256 /\ x \in Nat /\ y \in 0..255
                      /\ o = 256 * x + y
      <4>1. PICK x, y : x = o \div b /\ y = o % b
        OBVIOUS
      <4>2. x \in Nat /\ y \in 0..(b - 1) /\ o = b * x + y
        BY <3>2, <4>1, Zenon
      <4>3. y \in 0..255 /\ o = 256 * x + y
        BY <3>1, <4>2
      <4>4. x = o \div 256 /\ y = o % 256
        BY <3>1, <4>1
      <4>5. x \in Nat
        BY <4>2
      <4>. QED
        BY <4>3, <4>4, <4>5, Zenon
    <3>4. \A u, v \in Nat : 256 * u + v < 16384 => u <= 63
      OBVIOUS
    <3>5. x \in 0..63
      <4>1. x \in Nat /\ y \in Nat /\ 256 * x + y < 16384
        <5>1. o = 256 * x + y /\ o < 16384
          BY <1>11, <3>3
        <5>2. \A v \in 0..255 : v \in Nat
          OBVIOUS
        <5>3. x \in Nat /\ y \in Nat
          BY <3>3, <5>2, Zenon
        <5>. QED
          BY <5>1, <5>3
      <4>2. x <= 63
        BY <3>4, <4>1
      <4>. QED
        BY <4>1, <4>2
    <3>6. y \in 0..255 /\ o = 256 * x + y /\ x = o \div 256 /\ y = o % 256
      BY <3>3
    <3>. QED
      BY <3>5, <3>6, Zenon
  <2>3. At(m, f) = 192 + x
    BY <1>9, <1>11, <2>2
  <2>4. At(m, f + 1) = y
    <3>1. n + 1 \in 0..(z - 1) /\ (n + 1) + 1 = n + 2
      BY <1>11
    <3>2. At(m, base + (n + 1)) = code[(n + 1) + 1]
      BY <1>6, <3>1
    <3>. QED
      BY <1>8, <1>11, <2>2, <3>1, <3>2
  <2>5. IsPointer(At(m, f))
    BY <2>3 DEF IsPointer
  <2>6. o = 256 * (At(m, f) - 192) + At(m, f + 1)
    <3>1. (192 + x) - 192 = x
      OBVIOUS
    <3>2. o = 256 * x + y
      BY <2>2
    <3>. QED
      BY <2>3, <2>4, <3>1, <3>2, Zenon
  <2>7. f + 1 < c /\ f + 2 = base + z
    BY <1>5, <1>8, <1>11
  <2>8. EndsOrPoints(m, P, name, nm, k, f, c)
    BY <2>1, <2>5, <2>6, <2>7 DEF EndsOrPoints
  <2>9. After(m, f) = f + 2
    BY <2>5 DEF After
  <2>. QED
    BY <2>7, <2>8, <2>9
<1>12. EndsOrPoints(m, P, name, nm, k, f, c) /\ After(m, f) = base + z
  BY <1>1, <1>4, <1>5, <1>10, <1>11 DEF Coded
<1>. QED
  BY <1>1, <1>4, <1>5, <1>7, <1>8, <1>12

\* The places of set are laid.
Covers(set, P, name) == \A e \in set : e.at \in P /\ name[e.at] = e.name

\* So are those that Offsets gives.
LEMMA OffsetsCovered == ASSUME NEW nm \in Seq(Named), NEW k \in 0..Len(nm), NEW code, Len(code) \in Nat,
                               k = Len(nm) \/ Len(code) <= PlaceOf(nm)[k] + 2, NEW base \in Nat,
                               NEW P, NEW name, NEW P2, NEW name2, Extends(P, name, P2, name2, nm, k, base)
                        PROVE  Covers(Offsets(nm, code, base), P2, name2)
<1>1. PICK N, a : N \in Nat /\ N = Len(nm) /\ a = PlaceOf(nm)
  OBVIOUS
<1>2. Places(nm, a)
  BY <1>1, Placing
<1>3. SUFFICES ASSUME NEW e \in Offsets(nm, code, base) PROVE e.at \in P2 /\ name2[e.at] = e.name
  BY DEF Covers
<1>4. PICK i \in 0..N : /\ i = 0 \/ (i < N /\ base + Len(Labels(SubSeq(nm, 1, i))) < base + Len(code))
                        /\ e = [at |-> base + Len(Labels(SubSeq(nm, 1, i))), name |-> Suffix(nm, i)]
  BY <1>1, <1>3 DEF Offsets
<1>5. Len(Labels(SubSeq(nm, 1, i))) = a[i]
  BY <1>1 DEF PlaceOf
<1>6. i \in 0..k
  <2>1. SUFFICES ASSUME k < i PROVE FALSE
    BY <1>1
  <2>2. i < N /\ base + a[i] < base + Len(code) /\ Len(code) <= a[k] + 2
    BY <1>1, <1>4, <1>5, <2>1
  <2>3. a[i] \in Nat /\ a[k] \in Nat /\ a[k] + 2 <= a[i]
    BY <1>1, <1>2, <2>1, PlacesGrow
  <2>. QED
    BY <2>2, <2>3
<1>. QED
  BY <1>1, <1>4, <1>5, <1>6 DEF Extends

\* What Place adds is laid too.
LEMMA PlaceAgrees == ASSUME NEW P, NEW name, Agrees(placed, P, name), NEW set, Covers(set, P, name)
                     PROVE  Agrees(Place(set), P, name)
<1>1. PICK D : D = DOMAIN placed \cup {e.at : e \in set}
  OBVIOUS
<1>2. PICK pl : pl = [o \in D |-> IF o \in DOMAIN placed THEN placed[o]
                                  ELSE (CHOOSE e \in set : e.at = o).name]
  OBVIOUS
<1>3. ASSUME NEW o \in D PROVE o \in P /\ pl[o] = name[o]
  <2>1. CASE o \in DOMAIN placed
    BY <1>2, <2>1 DEF Agrees
  <2>2. CASE o \notin DOMAIN placed
    <3>1. PICK d \in set : d.at = o
      BY <1>1, <2>2
    <3>2. PICK e : e = CHOOSE x \in set : x.at = o
      OBVIOUS
    <3>3. e \in set /\ e.at = o
      BY <3>1, <3>2
    <3>4. pl[o] = e.name
      BY <1>2, <2>2, <3>2
    <3>. QED
      BY <3>3, <3>4 DEF Covers
  <2>. QED
    BY <2>1, <2>2
<1>4. pl = Place(set) /\ DOMAIN pl = D
  BY <1>1, <1>2 DEF Place
<1>. QED
  BY <1>3, <1>4 DEF Agrees

\* One more name in a reply.
More(m, base, code, c, P, name, set) ==
    /\ \E f \in Nat : Goes(m, base, f, c) /\ After(m, f) = base + Len(code)
    /\ \E P2, name2, rank2, fin2 : /\ Laid(m, P2, name2, rank2, fin2, c) /\ P \subseteq P2
                                   /\ \A o \in P : name2[o] = name[o]
                                   /\ Covers(set, P2, name2)

\* It is laid, and so is what Offsets gives of it.
LEMMA OneMore == ASSUME NEW m \in Seq(Bytes), NEW P, NEW name, NEW rank, NEW fin, NEW b, Laid(m, P, name, rank, fin, b),
                        Agrees(placed, P, name), NEW nm \in Names, NEW code \in Encodings(nm),
                        NEW base \in Nat, base >= 12, b <= base, Has(m, base, code),
                        NEW c \in Nat, base + Len(code) <= c, c <= Len(m)
                 PROVE  More(m, base, code, c, P, name, Offsets(nm, code, base))
<1>1. DOMAIN placed \subseteq Nat
  <2>1. P \subseteq Nat
    <3>1. b \in Nat /\ P \subseteq 12..(b - 1)
      BY DEF Laid
    <3>. QED
      BY <3>1
  <2>. QED
    BY <2>1 DEF Agrees
<1>2. PICK k \in 0..Len(nm) : nm \in Seq(Named) /\ Coded(nm, k, code)
  BY <1>1, Codes
<1>3. PICK f : f = base + PlaceOf(nm)[k]
  OBVIOUS
<1>4. /\ Written(m, nm, k, base) /\ EndsOrPoints(m, P, name, nm, k, f, c)
      /\ f < c /\ f \in Nat /\ After(m, f) = base + Len(code)
  BY <1>1, <1>2, <1>3, CodeWritten
<1>5. /\ Goes(m, base, f, c)
      /\ \E P2, name2, rank2, fin2 : Laid(m, P2, name2, rank2, fin2, c) /\ Extends(P, name, P2, name2, nm, k, base)
  BY <1>2, <1>3, <1>4, Extended
<1>6. PICK P2, name2, rank2, fin2 : Laid(m, P2, name2, rank2, fin2, c) /\ Extends(P, name, P2, name2, nm, k, base)
  BY <1>5
<1>7. Covers(Offsets(nm, code, base), P2, name2)
  <2>1. PlaceOf(nm)[k] \in Nat
    BY <1>2, Placing DEF Places
  <2>2. Len(code) \in Nat /\ Len(code) <= PlaceOf(nm)[k] + 2
    BY <1>2, <2>1 DEF Coded
  <2>. QED
    BY <1>2, <1>6, <2>2, OffsetsCovered
<1>8. P \subseteq P2 /\ \A o \in P : name2[o] = name[o]
  BY <1>6 DEF Extends
<1>. QED
  BY <1>4, <1>5, <1>6, <1>7, <1>8 DEF More

-----------------------------------------------------------------------------
(* The question.                                                            *)

\* split_string leaves labels that are not empty.
LEMMA SplitIs == ASSUME NEW h \in Questions PROVE split_string(h) \in Seq(Named)
<1>1. h \in Seq(Label) /\ Len(h) >= 2
  BY HostAssumption
<1>2. PICK n \in Nat : n = Len(h) /\ n >= 2
  BY <1>1
<1>3. PICK s : s = [i \in 1..n |-> IF h[i] = <<>> THEN <<>> ELSE <<h[i]>>]
  OBVIOUS
<1>4. PICK N, U : N = Named /\ U = Seq(N)
  OBVIOUS
<1>5. ASSUME NEW i \in 1..n PROVE s[i] \in U
  <2>1. PICK l : l = h[i] /\ l \in Label
    BY <1>1, <1>2
  <2>2. <<>> \in U
    BY <1>4
  <2>3. l # <<>> => l \in N
    BY <1>4, <2>1 DEF Named
  <2>4. ASSUME l \in N PROVE <<l>> \in U
    BY <1>4, <2>4
  <2>5. s[i] = IF l = <<>> THEN <<>> ELSE <<l>>
    BY <1>3, <2>1
  <2>. QED
    BY <2>2, <2>3, <2>4, <2>5, Zenon
<1>6. s \in Seq(U)
  <2>1. s = [i \in 1..n |-> s[i]]
    BY <1>3
  <2>2. s \in [1..n -> U]
    BY <1>5, <2>1
  <2>. QED
    BY <2>2
<1>7. SX!FlattenSeq(s) \in Seq(N)
  BY <1>4, <1>6, FlatTypes
<1>8. split_string(h) = SX!FlattenSeq(s)
  BY <1>2, <1>3 DEF split_string
<1>. QED
  BY <1>4, <1>7, <1>8

\* The question: the name asked for, its end, and the type and the class of addresses.
Asked(m, nm) ==
    LET w == Len(Labels(nm))
    IN /\ m \in Seq(Bytes) /\ w \in Nat /\ Len(m) = 12 + w + 5 /\ Has(m, 12, Labels(nm))
       /\ At(m, 12 + w) = 0 /\ Word16(m, 12 + w + 1) = 1 /\ Word16(m, 12 + w + 3) = 1

\* dns_query writes that question,
LEMMA QueryIs == ASSUME NEW h \in Questions
                 PROVE  Asked(dns_query(h), split_string(h))
<1>0. 0 \in Bytes /\ 1 \in Bytes
  BY DEF Bytes
<1>1. PICK nm \in Seq(Named) : nm = split_string(h)
  BY SplitIs
<1>2. PICK W : W = Labels(nm) /\ W \in Seq(Bytes)
  <2>1. PICK N \in Nat : N = Len(nm)
    OBVIOUS
  <2>2. SubSeq(nm, 1, N) = nm
    BY <2>1, SubSeqFull
  <2>3. N \in 0..Len(nm)
    BY <2>1
  <2>4. Labels(nm) \in Seq(Plain)
    BY <2>2, <2>3, Spelling DEF Spelled
  <2>5. Plain \subseteq Bytes
    BY DEF Plain, Bytes
  <2>. QED
    BY <2>4, <2>5, SeqMonotonic
<1>3. PICK w \in Nat : w = Len(W)
  BY <1>2
<1>4. PICK ten, one, two : ten = <<1, 0, 0, 1, 0, 0, 0, 0, 0, 0>> /\ one = <<0>> /\ two = <<0, 1>>
  OBVIOUS
<1>5. dns_query(h) = TransId \o ten \o W \o one \o two \o two
  <2>1. ~ \E i \in 1..Len(nm) : Len(nm[i]) > 63
    <3>1. ASSUME NEW i \in 1..Len(nm) PROVE ~(Len(nm[i]) > 63)
      <4>1. nm[i] \in Named
        OBVIOUS
      <4>2. Len(nm[i]) \in 1..63
        BY <4>1, NamedIs
      <4>3. \A x \in 1..63 : ~(x > 63)
        OBVIOUS
      <4>. QED
        BY <4>2, <4>3, Zenon
    <3>. QED
      BY <3>1
  <2>. QED
    BY <1>1, <1>2, <1>4, <2>1, Zenon DEF dns_query
<1>6. TransId \in Seq(Bytes) /\ Len(TransId) = 2
  <2>1. PICK x \in Bytes, y \in Bytes : TransId = <<x, y>>
    BY IdAssumption
  <2>2. PICK t : t = <<x, y>>
    OBVIOUS
  <2>3. t \in Seq(Bytes)
    BY <2>2
  <2>4. Len(t) = 2
    BY <2>2
  <2>. QED
    BY <2>1, <2>2, <2>3, <2>4
<1>7. ten \in Seq(Bytes) /\ Len(ten) = 10
  <2>1. ten \in Seq(Bytes)
    BY <1>0, <1>4
  <2>. QED
    BY <1>4, <2>1
<1>8. one \in Seq(Bytes) /\ Len(one) = 1 /\ one[1] = 0
  <2>1. one \in Seq(Bytes)
    BY <1>0, <1>4
  <2>. QED
    BY <1>4, <2>1
<1>9. two \in Seq(Bytes) /\ Len(two) = 2 /\ two[1] = 0 /\ two[2] = 1
  <2>1. two \in Seq(Bytes)
    BY <1>0, <1>4
  <2>2. Len(two) = 2 /\ two[1] = 0 /\ two[2] = 1
    BY <1>4
  <2>. QED
    BY <2>1, <2>2
<1>10. PICK q1, q2, q3, q4, q5 : /\ q1 = TransId \o ten /\ q2 = q1 \o W /\ q3 = q2 \o one
                                 /\ q4 = q3 \o two /\ q5 = q4 \o two
  OBVIOUS
<1>11. q1 \in Seq(Bytes) /\ Len(q1) = 12
  <2>1. Joined(TransId, ten, q1)
    BY <1>6, <1>7, <1>10, Joins
  <2>2. q1 \in Seq(Bytes) /\ Len(q1) = Len(TransId) + Len(ten)
    BY <2>1 DEF Joined
  <2>. QED
    BY <1>6, <1>7, <2>2
<1>12. Joined(q1, W, q2) /\ q2 \in Seq(Bytes) /\ Len(q2) = 12 + w
  <2>1. Joined(q1, W, q2)
    BY <1>2, <1>10, <1>11, Joins
  <2>2. q2 \in Seq(Bytes) /\ Len(q2) = Len(q1) + Len(W)
    BY <2>1 DEF Joined
  <2>. QED
    BY <1>3, <1>11, <2>1, <2>2
<1>13. Joined(q2, one, q3) /\ q3 \in Seq(Bytes) /\ Len(q3) = 12 + w + 1
  <2>1. Joined(q2, one, q3)
    BY <1>8, <1>10, <1>12, Joins
  <2>2. q3 \in Seq(Bytes) /\ Len(q3) = Len(q2) + Len(one)
    BY <2>1 DEF Joined
  <2>. QED
    BY <1>8, <1>12, <2>1, <2>2
<1>14. Joined(q3, two, q4) /\ q4 \in Seq(Bytes) /\ Len(q4) = 12 + w + 3
  <2>1. Joined(q3, two, q4)
    BY <1>9, <1>10, <1>13, Joins
  <2>2. q4 \in Seq(Bytes) /\ Len(q4) = Len(q3) + Len(two)
    BY <2>1 DEF Joined
  <2>. QED
    BY <1>9, <1>13, <2>1, <2>2
<1>15. Joined(q4, two, q5) /\ q5 \in Seq(Bytes) /\ Len(q5) = 12 + w + 5
  <2>1. Joined(q4, two, q5)
    BY <1>9, <1>10, <1>14, Joins
  <2>2. q5 \in Seq(Bytes) /\ Len(q5) = Len(q4) + Len(two)
    BY <2>1 DEF Joined
  <2>. QED
    BY <1>9, <1>14, <2>1, <2>2
<1>16. \A at \in Nat, u \in Seq(Bytes) :
          /\ Has(q2, at, u) => Has(q3, at, u)
          /\ Has(q3, at, u) => Has(q4, at, u)
          /\ Has(q4, at, u) => Has(q5, at, u)
  <2> TAKE at \in Nat, u \in Seq(Bytes)
  <2>0. Len(u) \in Nat
    OBVIOUS
  <2>1. Has(q2, at, u) => Has(q3, at, u)
    BY <2>0, <1>8, <1>12, <1>13, HasKept
  <2>2. Has(q3, at, u) => Has(q4, at, u)
    BY <2>0, <1>9, <1>13, <1>14, HasKept
  <2>3. Has(q4, at, u) => Has(q5, at, u)
    BY <2>0, <1>9, <1>14, <1>15, HasKept
  <2>. QED
    BY <2>1, <2>2, <2>3
<1>17. Has(q2, 12, W) /\ Has(q3, 12 + w, one) /\ Has(q4, 12 + w + 1, two) /\ Has(q5, 12 + w + 3, two)
  BY <1>11, <1>12, <1>13, <1>14, <1>15 DEF Joined
<1>18. Has(q5, 12, W) /\ Has(q5, 12 + w, one) /\ Has(q5, 12 + w + 1, two) /\ Has(q5, 12 + w + 3, two)
  <2>0. 12 \in Nat /\ 12 + w \in Nat /\ 12 + w + 1 \in Nat
    OBVIOUS
  <2>1. Has(q5, 12, W)
    BY <1>2, <1>16, <1>17, <2>0
  <2>2. Has(q5, 12 + w, one)
    BY <1>8, <1>16, <1>17, <2>0
  <2>3. Has(q5, 12 + w + 1, two)
    BY <1>9, <1>16, <1>17, <2>0
  <2>. QED
    BY <1>17, <2>1, <2>2, <2>3
<1>19. At(q5, 12 + w) = 0
  <2>1. At(q5, (12 + w) + 0) = one[0 + 1]
    BY <1>8, <1>18 DEF Has
  <2>. QED
    BY <1>8, <2>1
<1>20. ASSUME NEW at \in Nat, Has(q5, at, two) PROVE Word16(q5, at) = 1
  <2>1. At(q5, at + 0) = two[0 + 1] /\ At(q5, at + 1) = two[1 + 1]
    BY <1>9, <1>20 DEF Has
  <2>2. At(q5, at) = 0 /\ At(q5, at + 1) = 1
    BY <1>9, <2>1
  <2>. QED
    BY <2>2 DEF Word16
<1>21. Word16(q5, 12 + w + 1) = 1 /\ Word16(q5, 12 + w + 3) = 1
  BY <1>18, <1>20
<1>22. Asked(q5, nm)
  BY <1>2, <1>3, <1>15, <1>18, <1>19, <1>21 DEF Asked
<1>23. dns_query(h) = q5
  BY <1>5, <1>10, Zenon
<1>. QED
  BY <1>1, <1>22, <1>23

\* Bytes behind the header stay where they were.
LEMMA HasSame == ASSUME NEW m, NEW m2, NEW at \in Nat, NEW u, Len(u) \in Nat, at >= 12, NEW b \in Nat,
                        Has(m, at, u), at + Len(u) <= b, b <= Len(m2), Len(m2) \in Nat, SameBytes(m, m2, b)
                 PROVE  Has(m2, at, u)
<1>1. PICK r, n \in Nat : r = Len(u) /\ n = Len(m2)
  OBVIOUS
<1>2. ASSUME NEW i \in 0..(r - 1) PROVE At(m2, at + i) = u[i + 1]
  <2>1. at + i \in 12..(b - 1)
    BY <1>1
  <2>2. At(m2, at + i) = At(m, at + i)
    BY <2>1 DEF SameBytes
  <2>3. At(m, at + i) = u[i + 1]
    BY <1>1 DEF Has
  <2>. QED
    BY <2>2, <2>3
<1>3. at + r <= n
  BY <1>1
<1>. QED
  BY <1>1, <1>2, <1>3 DEF Has

\* and a reply repeats it.
LEMMA AskedAgain == ASSUME NEW m \in Seq(Bytes), NEW nm, Labels(nm) \in Seq(Bytes), Asked(m, nm),
                           NEW n \in Bytes, NEW m2, m2 = Reheaded(m, n)
                    PROVE  Asked(m2, nm) /\ Has(m2, 0, Header(n))
<1>1. PICK w \in Nat : w = Len(Labels(nm))
  BY DEF Asked
<1>2. Len(m) = 12 + w + 5 /\ Len(m) >= 12 /\ Len(m) \in Nat
  BY <1>1 DEF Asked
<1>3. m2 \in Seq(Bytes) /\ Len(m2) = Len(m) /\ Has(m2, 0, Header(n)) /\ SameBytes(m, m2, Len(m))
  BY <1>2, ReheadedIs
<1>4. Has(m2, 12, Labels(nm))
  <2>1. 12 + w <= Len(m) /\ 12 \in Nat /\ 12 >= 12
    BY <1>2
  <2>2. Has(m, 12, Labels(nm))
    BY DEF Asked
  <2>. QED
    BY <1>1, <1>2, <1>3, <2>1, <2>2, HasSame
<1>5. ASSUME NEW i \in 0..4 PROVE At(m2, 12 + w + i) = At(m, 12 + w + i)
  <2>1. 12 + w + i \in 12..(Len(m) - 1)
    BY <1>2
  <2>. QED
    BY <1>3, <2>1 DEF SameBytes
<1>6. At(m2, 12 + w) = At(m, 12 + w)
  <2>1. 12 + w + 0 = 12 + w
    OBVIOUS
  <2>. QED
    BY <1>5, <2>1
<1>7. Word16(m2, 12 + w + 1) = Word16(m, 12 + w + 1) /\ Word16(m2, 12 + w + 3) = Word16(m, 12 + w + 3)
  <2>1. (12 + w + 1) + 1 = 12 + w + 2 /\ (12 + w + 3) + 1 = 12 + w + 4
    OBVIOUS
  <2>. QED
    BY <1>5, <2>1 DEF Word16
<1>. QED
  BY <1>1, <1>2, <1>3, <1>4, <1>6, <1>7 DEF Asked

-----------------------------------------------------------------------------
(* The invariant.                                                           *)

\* Wherever a name in pl begins, it is laid in m.
AllLaid(m, pl) == \E P, name, rank, fin :
    12 \in P /\ Laid(m, P, name, rank, fin, Len(m)) /\ Agrees(pl, P, name)

\* The answer of which the name ends at t has an IPv4 address.
IsAddress(m, t, d) == Word16(m, t) = 1 /\ Word16(m, t + 2) = 1 /\ d = 4

\* From s to e is an answer: after old, the addresses are new.
Record(m, s, e, old, new) == \E f, d \in Nat :
    /\ Goes(m, s, f, e) /\ e = After(m, f) + 10 + d /\ Word16(m, After(m, f) + 8) = d
    /\ \/ /\ IsAddress(m, After(m, f), d)
          /\ \E ip \in Addresses : Has(m, After(m, f) + 10, ip) /\ new = Append(old, ip)
       \/ ~IsAddress(m, After(m, f), d) /\ new = old

\* The question ends where the first answer begins, each begins where the one before
\* ends, and the addresses among them are ips.
AllRecords(m, n, q, st, acc) ==
    /\ st \in [0..n -> 12..Len(m)] /\ acc \in [0..n -> Seq(Addresses)]
    /\ Goes(m, 12, q, Len(m)) /\ Word16(m, After(m, q)) = 1 /\ Word16(m, After(m, q) + 2) = 1
    /\ st[0] = After(m, q) + 4 /\ acc[0] = <<>>
    /\ \A j \in 1..n : Record(m, st[j - 1], st[j], acc[j - 1], acc[j])

\* The answers of m end with it.
Records(m, n, ips) == \E q \in Nat : \E st, acc :
    AllRecords(m, n, q, st, acc) /\ st[n] = Len(m) /\ acc[n] = ips

\* The inductive invariant: the header counts the answers, every name is laid, and
\* each answer begins where the one before ends.
ReplyInv ==
    /\ answers \in 0..MaxAnswers /\ reply \in Seq(Bytes) /\ Len(reply) >= 12
    /\ Has(reply, 0, Header(answers)) /\ AllLaid(reply, placed) /\ Records(reply, answers, truth)

\* The question alone is such a reply.
LEMMA InitInv == ReplyInit => ReplyInv
<1> SUFFICES ASSUME ReplyInit PROVE ReplyInv
  OBVIOUS
<1>1. PICK nm \in Seq(Named) : nm = split_string(host)
  BY SplitIs DEF ReplyInit
<1>2. Asked(dns_query(host), nm)
  BY <1>1, QueryIs DEF ReplyInit
<1>3. reply = Reheaded(dns_query(host), 0)
  BY DEF ReplyInit, Reheaded
<1>4. PICK N, a : N \in Nat /\ N = Len(nm) /\ a = PlaceOf(nm) /\ N \in 0..Len(nm)
  OBVIOUS
<1>5. SubSeq(nm, 1, N) = nm
  BY <1>4, SubSeqFull
<1>6. Labels(nm) \in Seq(Bytes) /\ Len(Labels(nm)) = a[N]
  <2>1. Spelled(Labels(nm), nm, a, N)
    BY <1>4, <1>5, Spelling
  <2>2. Labels(nm) \in Seq(Plain) /\ Len(Labels(nm)) = a[N]
    BY <2>1 DEF Spelled
  <2>3. Plain \subseteq Bytes
    BY DEF Plain, Bytes
  <2>. QED
    BY <2>2, <2>3, SeqMonotonic
<1>7. Asked(reply, nm) /\ Has(reply, 0, Header(0))
  <2>1. 0 \in Bytes /\ dns_query(host) \in Seq(Bytes)
    BY <1>2 DEF Asked, Bytes
  <2>. QED
    BY <1>2, <1>3, <1>6, <2>1, AskedAgain
<1>8. PICK w, m : /\ w \in Nat /\ w = a[N] /\ w = Len(Labels(nm)) /\ m = reply /\ m \in Seq(Bytes) /\ Len(m) = 12 + w + 5
                  /\ Has(m, 12, Labels(nm)) /\ At(m, 12 + w) = 0
                  /\ Word16(m, 12 + w + 1) = 1 /\ Word16(m, 12 + w + 3) = 1
  BY <1>6, <1>7 DEF Asked
<1>9. Laid(m, {}, <<>>, <<>>, <<>>, 0)
  BY <1>8 DEF Laid
<1>10. Written(m, nm, N, 12)
  <2>1. Has(m, 12, Labels(SubSeq(nm, 1, N)))
    BY <1>5, <1>8
  <2>. QED
    BY <2>1 DEF Written
<1>11. PICK f, c \in Nat : f = 12 + w /\ c = Len(m) /\ f < c /\ c >= 12
  BY <1>8
<1>12. EndsOrPoints(m, {}, <<>>, nm, N, f, c)
  BY <1>4, <1>8, <1>11 DEF EndsOrPoints
<1>13. /\ Goes(m, 12, f, c)
       /\ \E P, name, rank, fin : Laid(m, P, name, rank, fin, c) /\ Extends({}, <<>>, P, name, nm, N, 12)
  <2>1. f = 12 + PlaceOf(nm)[N]
    BY <1>4, <1>8, <1>11
  <2>2. PICK base \in Nat : base = 12 /\ 0 <= base /\ f = base + PlaceOf(nm)[N]
    BY <2>1
  <2>3. m \in Seq(Bytes) /\ c <= Len(m) /\ N \in 0..Len(nm) /\ Written(m, nm, N, base)
    BY <1>4, <1>8, <1>10, <1>11, <2>2
  <2>4. base + PlaceOf(nm)[N] < c /\ EndsOrPoints(m, {}, <<>>, nm, N, base + PlaceOf(nm)[N], c)
    BY <1>11, <1>12, <2>2
  <2>5. /\ Goes(m, base, base + PlaceOf(nm)[N], c)
        /\ \E P, name, rank, fin : Laid(m, P, name, rank, fin, c) /\ Extends({}, <<>>, P, name, nm, N, base)
    BY <1>9, <2>2, <2>3, <2>4, Extended
  <2>. QED
    BY <2>2, <2>5
<1>14. PICK P, name, rank, fin : Laid(m, P, name, rank, fin, c) /\ Extends({}, <<>>, P, name, nm, N, 12)
  BY <1>13
<1>15. PICK starts : starts = Offsets(nm, Labels(nm), 12)
  OBVIOUS
<1>16. Covers(starts, P, name)
  <2>1. N = Len(nm) /\ Len(Labels(nm)) \in Nat /\ 12 \in Nat
    BY <1>4, <1>8
  <2>. QED
    BY <1>4, <1>14, <1>15, <2>1, OffsetsCovered
<1>17. 12 \in P
  <2>1. 0 \in 0..N /\ 12 + a[0] = 12
    BY <1>4, Placing DEF Places
  <2>. QED
    BY <1>4, <1>14, <2>1 DEF Extends
<1>18. Agrees(placed, P, name)
  <2>1. PICK D : D = {e.at : e \in starts}
    OBVIOUS
  <2>2. placed = [o \in D |-> (CHOOSE e \in starts : e.at = o).name]
    <3>1. placed = [o \in {e.at : e \in Offsets(split_string(host), Labels(split_string(host)), 12)} |->
             (CHOOSE e \in Offsets(split_string(host), Labels(split_string(host)), 12) : e.at = o).name]
      BY DEF ReplyInit
    <3>2. starts = Offsets(split_string(host), Labels(split_string(host)), 12)
      BY <1>1, <1>15
    <3>. QED
      BY <2>1, <3>1, <3>2
  <2>3. ASSUME NEW o \in D PROVE o \in P /\ placed[o] = name[o]
    <3>1. PICK d \in starts : d.at = o
      BY <2>1
    <3>2. PICK e : e = CHOOSE x \in starts : x.at = o
      OBVIOUS
    <3>3. e \in starts /\ e.at = o
      BY <3>1, <3>2
    <3>4. placed[o] = e.name
      BY <2>2, <3>2
    <3>. QED
      BY <1>16, <3>3, <3>4 DEF Covers
  <2>4. DOMAIN placed = D
    BY <2>2
  <2>. QED
    BY <2>3, <2>4 DEF Agrees
<1>19. AllLaid(reply, placed)
  BY <1>8, <1>11, <1>14, <1>17, <1>18 DEF AllLaid
<1>20. Records(reply, answers, truth)
  <2>1. answers = 0 /\ truth = <<>>
    BY DEF ReplyInit
  <2>2. After(m, f) = f + 1
    <3>1. ~IsPointer(At(m, f))
      BY <1>8, <1>11 DEF IsPointer
    <3>. QED
      BY <3>1 DEF After
  <2>3. PICK st, acc : st = [j \in 0..0 |-> c] /\ acc = [j \in 0..0 |-> <<>>]
    OBVIOUS
  <2>4. st \in [0..0 -> 12..Len(m)]
    BY <1>11, <2>3
  <2>5. acc \in [0..0 -> Seq(Addresses)]
    BY <2>3
  <2>6. st[0] = c /\ acc[0] = <<>>
    BY <2>3
  <2>7. c = After(m, f) + 4 /\ After(m, f) = 12 + w + 1 /\ After(m, f) + 2 = 12 + w + 3
    BY <1>8, <1>11, <2>2
  <2>8. Word16(m, After(m, f)) = 1 /\ Word16(m, After(m, f) + 2) = 1
    BY <1>8, <2>7
  <2>9. \A j \in 1..0 : FALSE
    OBVIOUS
  <2>10. AllRecords(m, 0, f, st, acc)
    BY <1>11, <1>13, <2>4, <2>5, <2>6, <2>7, <2>8, <2>9 DEF AllRecords
  <2>. QED
    BY <1>8, <1>11, <2>1, <2>6, <2>10 DEF Records
<1>21. answers \in 0..MaxAnswers /\ Has(reply, 0, Header(answers))
  <2>1. answers = 0 /\ MaxAnswers \in Nat
    BY AnswersAssumption DEF ReplyInit, Bytes
  <2>. QED
    BY <1>7, <2>1
<1>. QED
  BY <1>8, <1>11, <1>19, <1>20, <1>21 DEF ReplyInv

\* Every name in such a reply is read as it was written.
LEMMA ReadFromInv == ReplyInv => NamesRead
<1> SUFFICES ASSUME ReplyInv PROVE NamesRead
  OBVIOUS
<1>1. PICK P, name, rank, fin : Laid(reply, P, name, rank, fin, Len(reply)) /\ Agrees(placed, P, name)
  BY DEF ReplyInv, AllLaid
<1>2. PICK n \in Nat : n = Len(reply) /\ reply \in Seq(Bytes)
  BY DEF ReplyInv
<1>3. ASSUME NEW o \in DOMAIN placed
      PROVE  /\ get_message_name(reply, o).labels = placed[o]
             /\ get_message_name(reply, o).next - o = calc_message_name_size(reply, o)
  <2>1. o \in P /\ placed[o] = name[o]
    BY <1>1 DEF Agrees
  <2>2. o \in 12..(n - 1) /\ Goes(reply, o, fin[o], n)
    BY <1>1, <1>2, <2>1 DEF Laid
  <2>3. get_message_name(reply, o) = Result(reply, name, fin, o)
    BY <1>1, <1>2, <2>1, Reads
  <2>4. fin[o] \in Nat /\ o \in Nat
    <3>1. fin[o] \in o..(n - 1)
      BY <2>2 DEF Goes
    <3>. QED
      BY <2>2, <3>1
  <2>5. calc_message_name_size(reply, o) = After(reply, fin[o]) - o
    BY <1>2, <2>2, <2>4, SizeIs
  <2>. QED
    BY <2>1, <2>3, <2>5 DEF Result
<1>. QED
  BY <1>3 DEF NamesRead

\* An answer stays one.
LEMMA RecordKept == ASSUME NEW m, NEW m2 \in Seq(Bytes), NEW s \in Nat, s >= 12, NEW e \in Nat, NEW b \in Nat, e <= b,
                           b <= Len(m2), SameBytes(m, m2, b), NEW old, NEW new, Record(m, s, e, old, new)
                    PROVE  Record(m2, s, e, old, new)
<1>1. PICK f, d \in Nat :
         /\ Goes(m, s, f, e) /\ e = After(m, f) + 10 + d /\ Word16(m, After(m, f) + 8) = d
         /\ \/ /\ IsAddress(m, After(m, f), d)
               /\ \E ip \in Addresses : Has(m, After(m, f) + 10, ip) /\ new = Append(old, ip)
            \/ ~IsAddress(m, After(m, f), d) /\ new = old
  BY DEF Record
<1>2. PICK n \in Nat : n = Len(m2) /\ b <= n
  OBVIOUS
<1>3. SameBytes(m, m2, e)
  <2>1. \A i \in 12..(e - 1) : i \in 12..(b - 1)
    OBVIOUS
  <2>. QED
    BY <2>1 DEF SameBytes
<1>4. Goes(m2, s, f, e) /\ After(m2, f) = After(m, f)
  BY <1>1, <1>3, GoesKept
<1>5. PICK t \in Nat : t = After(m, f) /\ t >= 12 /\ e = t + 10 + d
  <2>1. f \in s..(e - 1)
    BY <1>1 DEF Goes
  <2>2. After(m, f) \in Nat /\ After(m, f) >= 12
    BY <2>1 DEF After
  <2>. QED
    BY <1>1, <2>2
<1>6. ASSUME NEW i \in 0..9 PROVE At(m2, t + i) = At(m, t + i)
  <2>1. t + i \in 12..(e - 1)
    <3>1. i \in Nat /\ i <= 9
      OBVIOUS
    <3>2. t + i >= 12 /\ t + i <= e - 1
      BY <1>5, <3>1
    <3>. QED
      BY <3>1, <3>2
  <2>. QED
    BY <1>3, <2>1 DEF SameBytes
<1>7. ASSUME NEW i \in 0..8 PROVE Word16(m2, t + i) = Word16(m, t + i)
  <2>1. i \in 0..9 /\ i + 1 \in 0..9 /\ (t + i) + 1 = t + (i + 1)
    OBVIOUS
  <2>2. At(m2, t + i) = At(m, t + i) /\ At(m2, (t + i) + 1) = At(m, (t + i) + 1)
    BY <1>6, <2>1
  <2>. QED
    BY <2>2 DEF Word16
<1>8. Word16(m2, t + 8) = d
  BY <1>1, <1>5, <1>7
<1>9. IsAddress(m2, t, d) <=> IsAddress(m, t, d)
  <2>1. Word16(m2, t + 0) = Word16(m, t + 0) /\ Word16(m2, t + 2) = Word16(m, t + 2)
    BY <1>7
  <2>2. t + 0 = t
    OBVIOUS
  <2>. QED
    BY <2>1, <2>2 DEF IsAddress
<1>10. ASSUME NEW ip \in Addresses, Has(m, t + 10, ip), IsAddress(m, t, d) PROVE Has(m2, t + 10, ip)
  <2>1. ip \in [1..4 -> Bytes]
    BY AddressAssumption
  <2>2. Len(ip) = 4
    BY <2>1
  <2>3. d = 4
    BY <1>10 DEF IsAddress
  <2>4. PICK at \in Nat : at = t + 10 /\ at >= 12 /\ at + 4 <= b
    <3>1. t + 10 \in Nat /\ t + 10 >= 12 /\ (t + 10) + 4 <= b
      BY <1>5, <2>3
    <3>. QED
      BY <3>1
  <2>5. Has(m, at, ip)
    BY <1>10, <2>4
  <2>6. Has(m2, at, ip)
    <3>1. Len(ip) \in Nat /\ at + Len(ip) <= b /\ Len(m2) \in Nat
      BY <1>2, <2>2, <2>4
    <3>. QED
      BY <2>4, <2>5, <3>1, HasSame
  <2>. QED
    BY <2>4, <2>6
<1>11. \/ /\ IsAddress(m2, t, d)
          /\ \E ip \in Addresses : Has(m2, t + 10, ip) /\ new = Append(old, ip)
       \/ ~IsAddress(m2, t, d) /\ new = old
  BY <1>1, <1>5, <1>9, <1>10
<1>. QED
  BY <1>4, <1>5, <1>8, <1>11, Zenon DEF Record

\* All of them stay when bytes are added.
LEMMA RecordsKept == ASSUME NEW m \in Seq(Bytes), Len(m) >= 12, NEW m2 \in Seq(Bytes), Len(m) <= Len(m2), SameBytes(m, m2, Len(m)),
                            NEW n \in Nat, NEW q \in Nat, NEW st, NEW acc, AllRecords(m, n, q, st, acc), st[n] = Len(m)
                     PROVE  AllRecords(m2, n, q, st, acc) /\ After(m2, q) = After(m, q)
<1>1. PICK L, M \in Nat : L = Len(m) /\ M = Len(m2) /\ L <= M /\ L >= 12
  OBVIOUS
<1>2. st \in [0..n -> 12..L] /\ acc \in [0..n -> Seq(Addresses)] /\ Goes(m, 12, q, L)
  BY <1>1 DEF AllRecords
<1>3. st \in [0..n -> 12..M]
  BY <1>1, <1>2
<1>4. Goes(m2, 12, q, M) /\ After(m2, q) = After(m, q)
  <2>1. PICK o \in Nat : o = 12 /\ o >= 12
    OBVIOUS
  <2>2. Goes(m, o, q, L) /\ SameBytes(m, m2, L)
    BY <1>1, <1>2, <2>1
  <2>3. Goes(m2, o, q, M) /\ After(m2, q) = After(m, q)
    BY <1>1, <2>1, <2>2, GoesKept
  <2>. QED
    BY <2>1, <2>3
<1>5. ASSUME NEW j \in 1..n PROVE Record(m2, st[j - 1], st[j], acc[j - 1], acc[j])
  <2>1. st[j - 1] \in 12..L /\ st[j] \in 12..L
    BY <1>2
  <2>2. PICK s, e \in Nat : s = st[j - 1] /\ e = st[j] /\ s >= 12 /\ e <= L
    BY <2>1
  <2>3. Record(m, s, e, acc[j - 1], acc[j])
    BY <2>2 DEF AllRecords
  <2>4. Record(m2, s, e, acc[j - 1], acc[j])
    BY <1>1, <2>2, <2>3, RecordKept
  <2>. QED
    BY <2>2, <2>4
<1>6. PICK t \in Nat : t = After(m, q) /\ t >= 12 /\ t + 4 <= L
  <2>1. q \in 12..(L - 1)
    BY <1>2 DEF Goes
  <2>2. After(m, q) \in Nat /\ After(m, q) >= 12
    BY <2>1 DEF After
  <2>3. After(m, q) + 4 = st[0] /\ st[0] \in 12..L
    BY <1>2 DEF AllRecords
  <2>. QED
    BY <2>2, <2>3
<1>7. ASSUME NEW i \in 0..2 PROVE Word16(m2, t + i) = Word16(m, t + i)
  <2>1. t + i \in 12..(L - 1) /\ (t + i) + 1 \in 12..(L - 1)
    <3>1. i \in Nat /\ i <= 2
      OBVIOUS
    <3>2. t + i >= 12 /\ (t + i) + 1 <= L - 1
      BY <1>6, <3>1
    <3>. QED
      BY <3>1, <3>2
  <2>. QED
    BY <1>1, <2>1 DEF SameBytes, Word16
<1>8. Word16(m2, t) = 1 /\ Word16(m2, t + 2) = 1
  <2>1. Word16(m2, t + 0) = Word16(m, t + 0) /\ Word16(m2, t + 2) = Word16(m, t + 2) /\ t + 0 = t
    BY <1>7
  <2>. QED
    BY <1>6, <2>1 DEF AllRecords
<1>. QED
  BY <1>1, <1>2, <1>3, <1>4, <1>5, <1>6, <1>8 DEF AllRecords

\* And one more may follow.
LEMMA RecordsGrow == ASSUME NEW m \in Seq(Bytes), Len(m) >= 12, NEW m2 \in Seq(Bytes), Len(m) <= Len(m2), SameBytes(m, m2, Len(m)),
                            NEW n \in Nat, NEW old, Records(m, n, old), NEW new \in Seq(Addresses),
                            Record(m2, Len(m), Len(m2), old, new)
                     PROVE  Records(m2, n + 1, new)
<1>1. PICK L, M \in Nat : L = Len(m) /\ M = Len(m2) /\ L <= M /\ L >= 12
  OBVIOUS
<1>2. PICK q \in Nat : \E st, acc : AllRecords(m, n, q, st, acc) /\ st[n] = L /\ acc[n] = old
  BY <1>1 DEF Records
<1>3. PICK st, acc : AllRecords(m, n, q, st, acc) /\ st[n] = L /\ acc[n] = old
  BY <1>2
<1>4. AllRecords(m2, n, q, st, acc)
  BY <1>1, <1>3, RecordsKept
<1>5. st \in [0..n -> 12..M] /\ acc \in [0..n -> Seq(Addresses)]
  BY <1>1, <1>4 DEF AllRecords
<1>6. PICK S, A : /\ S = [j \in 0..(n + 1) |-> IF j = n + 1 THEN M ELSE st[j]]
                  /\ A = [j \in 0..(n + 1) |-> IF j = n + 1 THEN new ELSE acc[j]]
  OBVIOUS
<1>7. S[n + 1] = M /\ A[n + 1] = new /\ \A j \in 0..n : S[j] = st[j] /\ A[j] = acc[j]
  BY <1>6
<1>8. S \in [0..(n + 1) -> 12..M]
  BY <1>1, <1>5, <1>6
<1>9. A \in [0..(n + 1) -> Seq(Addresses)]
  <2>1. PICK U : U = Seq(Addresses)
    OBVIOUS
  <2>2. A \in [0..(n + 1) -> U]
    BY <1>5, <1>6, <2>1
  <2>. QED
    BY <2>1, <2>2
<1>10. ASSUME NEW j \in 1..(n + 1) PROVE Record(m2, S[j - 1], S[j], A[j - 1], A[j])
  <2>1. CASE j = n + 1
    <3>1. j - 1 = n /\ n \in 0..n
      BY <2>1
    <3>2. S[j - 1] = L /\ S[j] = M /\ A[j - 1] = old /\ A[j] = new
      BY <1>3, <1>7, <2>1, <3>1
    <3>. QED
      BY <1>1, <3>2
  <2>2. CASE j # n + 1
    <3>1. j \in 1..n /\ j \in 0..n /\ j - 1 \in 0..n
      BY <2>2
    <3>2. S[j - 1] = st[j - 1] /\ S[j] = st[j] /\ A[j - 1] = acc[j - 1] /\ A[j] = acc[j]
      BY <1>7, <3>1
    <3>3. Record(m2, st[j - 1], st[j], acc[j - 1], acc[j])
      BY <1>4, <3>1 DEF AllRecords
    <3>. QED
      BY <3>2, <3>3
  <2>. QED
    BY <2>1, <2>2
<1>11. S[0] = st[0] /\ A[0] = acc[0]
  BY <1>7
<1>12. AllRecords(m2, n + 1, q, S, A)
  <2>1. /\ Goes(m2, 12, q, Len(m2)) /\ Word16(m2, After(m2, q)) = 1 /\ Word16(m2, After(m2, q) + 2) = 1
        /\ st[0] = After(m2, q) + 4 /\ acc[0] = <<>>
    BY <1>4 DEF AllRecords
  <2>. QED
    BY <1>1, <1>8, <1>9, <1>10, <1>11, <2>1 DEF AllRecords
<1>. QED
  BY <1>1, <1>7, <1>12 DEF Records

-----------------------------------------------------------------------------
(* A step of the server.                                                    *)

\* Append1 adds one answer to the reply.
LEMMA AppendIs == ASSUME ReplyInv, NEW owner, NEW code \in Seq(Bytes), NEW type \in Bytes, NEW class \in Bytes,
                         NEW data \in Seq(Bytes), Len(data) \in Bytes, Append1(owner, code, type, class, data)
                  PROVE  /\ Answered(reply, reply', answers + 1, code, type, class, data)
                         /\ answers' = answers + 1 /\ answers' \in 0..MaxAnswers
<1>1. answers \in 0..MaxAnswers /\ reply \in Seq(Bytes) /\ Len(reply) >= 12
  BY DEF ReplyInv
<1>2. MaxAnswers \in 0..255
  BY AnswersAssumption DEF Bytes
<1>3. answers < MaxAnswers /\ answers' = answers + 1
  BY DEF Append1
<1>4. answers + 1 \in 0..MaxAnswers /\ answers + 1 \in Bytes
  BY <1>1, <1>2, <1>3 DEF Bytes
<1>5. PICK n : n = answers + 1
  OBVIOUS
<1>6. reply' = Header(n) \o SubSeq(reply, 13, Len(reply)) \o code
                  \o <<0, type>> \o <<0, class>> \o <<0, 0, 1, 44>> \o <<0, Len(data)>> \o data
  BY <1>3, <1>5, Zenon DEF Append1
<1>7. PICK m2 : m2 = Header(n) \o SubSeq(reply, 13, Len(reply)) \o code
                  \o <<0, type>> \o <<0, class>> \o <<0, 0, 1, 44>> \o <<0, Len(data)>> \o data
  OBVIOUS
<1>8. Answered(reply, m2, n, code, type, class, data)
  BY <1>1, <1>4, <1>5, <1>7, AnswerIs
<1>. QED
  BY <1>3, <1>4, <1>5, <1>6, <1>7, <1>8, Zenon

\* What is known of the reply with one more answer: where the names were they still are.
LEMMA NamesStay == ASSUME ReplyInv, NEW m2, NEW n, NEW code \in Seq(Bytes), NEW type, NEW class, NEW data \in Seq(Bytes),
                          Answered(reply, m2, n, code, type, class, data)
                   PROVE  /\ m2 \in Seq(Bytes) /\ Len(m2) = Len(reply) + Len(code) + 10 + Len(data)
                          /\ \E P, name, rank, fin :
                                12 \in P /\ Laid(m2, P, name, rank, fin, Len(reply)) /\ Agrees(placed, P, name)
<1>1. reply \in Seq(Bytes) /\ Len(reply) >= 12
  BY DEF ReplyInv
<1>2. PICK P, name, rank, fin : 12 \in P /\ Laid(reply, P, name, rank, fin, Len(reply)) /\ Agrees(placed, P, name)
  BY DEF ReplyInv, AllLaid
<1>3. PICK L, c, d \in Nat : L = Len(reply) /\ c = Len(code) /\ d = Len(data)
  BY <1>1
<1>4. m2 \in Seq(Bytes) /\ Len(m2) = L + c + 10 + d /\ SameBytes(reply, m2, L)
  BY <1>3 DEF Answered
<1>5. L <= Len(m2) /\ L <= L
  BY <1>4
<1>6. Laid(m2, P, name, rank, fin, L)
  BY <1>2, <1>3, <1>4, <1>5, LaidKept
<1>. QED
  BY <1>2, <1>3, <1>4, <1>6

\* The owner of a new answer is a name that is read, and the answer one that is parsed.
LEMMA AnswerRecorded == ASSUME ReplyInv, NEW m2, NEW n, NEW code \in Seq(Bytes), NEW type, NEW class, NEW data \in Seq(Bytes),
                               Answered(reply, m2, n, code, type, class, data),
                               NEW f \in Nat, Goes(m2, Len(reply), f, Len(m2)), After(m2, f) = Len(reply) + Len(code),
                               NEW new \in Seq(Addresses),
                               \/ type = 1 /\ class = 1 /\ data \in Addresses /\ new = Append(truth, data)
                               \/ ~(type = 1 /\ class = 1) /\ new = truth
                        PROVE  Records(m2, answers + 1, new)
<1>1. reply \in Seq(Bytes) /\ Len(reply) >= 12 /\ answers \in Nat /\ Records(reply, answers, truth)
  BY AnswersAssumption DEF ReplyInv, Bytes
<1>2. PICK L, c, d \in Nat : L = Len(reply) /\ c = Len(code) /\ d = Len(data) /\ L >= 12
  BY <1>1
<1>3. /\ m2 \in Seq(Bytes) /\ Len(m2) = L + c + 10 + d /\ SameBytes(reply, m2, L)
      /\ Word16(m2, L + c) = type /\ Word16(m2, L + c + 2) = class /\ Word16(m2, L + c + 8) = d
      /\ Has(m2, L + c + 10, data)
  BY <1>2 DEF Answered
<1>4. PICK t \in Nat : t = After(m2, f) /\ t = L + c
  BY <1>2
<1>5. Len(m2) = t + 10 + d
  BY <1>3, <1>4
<1>6. IsAddress(m2, t, d) <=> type = 1 /\ class = 1 /\ d = 4
  BY <1>3, <1>4 DEF IsAddress
<1>7. data \in Addresses => d = 4
  <2>1. ASSUME data \in [1..4 -> Bytes] PROVE Len(data) = 4
    BY <2>1
  <2>. QED
    BY <1>2, <2>1, AddressAssumption
<1>8. Has(m2, t + 10, data)
  BY <1>3, <1>4
<1>9. \/ /\ IsAddress(m2, t, d)
         /\ \E ip \in Addresses : Has(m2, t + 10, ip) /\ new = Append(truth, ip)
      \/ ~IsAddress(m2, t, d) /\ new = truth
  BY <1>6, <1>7, <1>8
<1>10. Word16(m2, t + 8) = d
  BY <1>3, <1>4
<1>11. Record(m2, L, Len(m2), truth, new)
  BY <1>2, <1>4, <1>5, <1>9, <1>10, Zenon DEF Record
<1>12. L <= Len(m2)
  BY <1>3
<1>. QED
  BY <1>1, <1>2, <1>3, <1>11, <1>12, RecordsGrow

\* A name is written in at most 255 bytes.
LEMMA CodeIsBytes == ASSUME ReplyInv, NEW nm \in Names, NEW code \in Encodings(nm)
                     PROVE  code \in Seq(Bytes) /\ Len(code) \in Bytes
<1>1. DOMAIN placed \subseteq Nat
  <2>1. PICK P, name, rank, fin : Laid(reply, P, name, rank, fin, Len(reply)) /\ Agrees(placed, P, name)
    BY DEF ReplyInv, AllLaid
  <2>2. P \subseteq Nat
    <3>1. P \subseteq 12..(Len(reply) - 1) /\ Len(reply) \in Nat
      BY <2>1 DEF Laid
    <3>. QED
      BY <3>1
  <2>. QED
    BY <2>1, <2>2 DEF Agrees
<1>2. PICK k \in 0..Len(nm) : Coded(nm, k, code)
  BY <1>1, Codes
<1>3. code \in Seq(Bytes) /\ Len(code) <= 255
  BY <1>2 DEF Coded
<1>4. Len(code) \in Nat
  BY <1>3
<1>5. \A x \in Nat : x <= 255 => x \in Bytes
  BY DEF Bytes
<1>. QED
  BY <1>3, <1>4, <1>5, Zenon

\* What an answer leaves: with one name more, its owner, or with two.
LEMMA StepKept == ASSUME ReplyInv, NEW owner \in Names, NEW code \in Encodings(owner), NEW type \in Bytes, NEW class \in Bytes,
                         NEW data \in Seq(Bytes), Len(data) \in Bytes, Append1(owner, code, type, class, data),
                         \/ type = 1 /\ class = 1 /\ data \in Addresses /\ truth' = Append(truth, data)
                         \/ ~(type = 1 /\ class = 1) /\ truth' = truth,
                         \/ placed' = Place(Offsets(owner, code, Len(reply)))
                         \/ \E target \in Names : /\ data \in Encodings(target)
                                                  /\ placed' = Place(Offsets(owner, code, Len(reply))
                                                         \cup Offsets(target, data, Len(reply) + Len(code) + 10))
                  PROVE  ReplyInv'
<1>1. code \in Seq(Bytes) /\ Len(code) \in Nat
  BY CodeIsBytes
<1>2. reply \in Seq(Bytes) /\ Len(reply) >= 12
  BY DEF ReplyInv
<1>3. PICK L, c, d \in Nat : L = Len(reply) /\ c = Len(code) /\ d = Len(data) /\ L >= 12
  BY <1>1, <1>2
<1>4. PICK n, m2 : n = answers + 1 /\ m2 = reply'
  OBVIOUS
<1>5. Answered(reply, m2, n, code, type, class, data) /\ answers' = n /\ n \in 0..MaxAnswers
  BY <1>1, <1>4, AppendIs
<1>6. /\ m2 \in Seq(Bytes) /\ Len(m2) = L + c + 10 + d
      /\ Has(m2, 0, Header(n)) /\ Has(m2, L, code) /\ Has(m2, L + c + 10, data)
  BY <1>3, <1>5 DEF Answered
<1>7. PICK P, name, rank, fin : 12 \in P /\ Laid(m2, P, name, rank, fin, L) /\ Agrees(placed, P, name)
  BY <1>1, <1>3, <1>5, NamesStay
<1>8. PICK b, M \in Nat : b = L + c /\ M = Len(m2) /\ M = b + 10 + d /\ L <= b /\ b <= M
  <2>1. L + c \in Nat /\ L + c + 10 + d \in Nat /\ L <= L + c /\ L + c <= L + c + 10 + d
    OBVIOUS
  <2>. QED
    BY <1>6, <2>1
<1>9. More(m2, L, code, b, P, name, Offsets(owner, code, L))
  <2>1. L <= L /\ L + Len(code) <= b /\ b <= Len(m2)
    BY <1>3, <1>8
  <2>. QED
    BY <1>3, <1>6, <1>7, <1>8, <2>1, OneMore
<1>10. PICK f \in Nat : Goes(m2, L, f, b) /\ After(m2, f) = L + c
  BY <1>3, <1>9 DEF More
<1>11. Goes(m2, L, f, M)
  <2>1. SameBytes(m2, m2, b)
    BY DEF SameBytes
  <2>. QED
    BY <1>3, <1>8, <1>10, <2>1, GoesKept
<1>12. Records(m2, n, truth')
  <2>1. \E q \in Nat : \E st, acc : AllRecords(reply, answers, q, st, acc) /\ acc[answers] = truth
    BY DEF ReplyInv, Records
  <2>2. truth \in Seq(Addresses)
    <3>1. PICK q \in Nat : \E st, acc : AllRecords(reply, answers, q, st, acc) /\ acc[answers] = truth
      BY <2>1
    <3>2. PICK st, acc : AllRecords(reply, answers, q, st, acc) /\ acc[answers] = truth
      BY <3>1
    <3>3. answers \in 0..answers
      BY AnswersAssumption DEF ReplyInv, Bytes
    <3>4. acc \in [0..answers -> Seq(Addresses)]
      BY <3>2 DEF AllRecords
    <3>. QED
      BY <3>2, <3>3, <3>4
  <2>3. PICK new \in Seq(Addresses) : new = truth'
    <3>1. PICK A : A = Addresses
      OBVIOUS
    <3>2. ASSUME NEW x \in A PROVE Append(truth, x) \in Seq(A)
      BY <2>2, <3>1, AppendProperties
    <3>3. truth' = truth \/ (data \in A /\ truth' = Append(truth, data))
      BY <3>1
    <3>. QED
      BY <2>2, <3>1, <3>2, <3>3
  <2>4. \/ type = 1 /\ class = 1 /\ data \in Addresses /\ new = Append(truth, data)
        \/ ~(type = 1 /\ class = 1) /\ new = truth
    BY <2>3
  <2>5. Goes(m2, Len(reply), f, Len(m2)) /\ After(m2, f) = Len(reply) + Len(code)
    BY <1>3, <1>8, <1>10, <1>11
  <2>6. Records(m2, answers + 1, new)
    BY <1>1, <1>5, <2>4, <2>5, AnswerRecorded
  <2>. QED
    BY <1>4, <2>3, <2>6
<1>13. PICK P2, name2, rank2, fin2 :
          /\ Laid(m2, P2, name2, rank2, fin2, b) /\ P \subseteq P2 /\ \A o \in P : name2[o] = name[o]
          /\ Covers(Offsets(owner, code, L), P2, name2)
  BY <1>9 DEF More
<1>14. 12 \in P2 /\ Agrees(placed, P2, name2)
  BY <1>7, <1>13 DEF Agrees
<1>15. AllLaid(m2, placed')
  <2>1. CASE placed' = Place(Offsets(owner, code, L))
    <3>1. Agrees(placed', P2, name2)
      BY <1>13, <1>14, <2>1, PlaceAgrees
    <3>2. SameBytes(m2, m2, b)
      BY DEF SameBytes
    <3>3. M <= Len(m2)
      BY <1>8
    <3>4. Laid(m2, P2, name2, rank2, fin2, M)
      BY <1>8, <1>13, <3>2, <3>3, LaidKept
    <3>. QED
      BY <1>8, <1>14, <3>1, <3>4 DEF AllLaid
  <2>2. ASSUME NEW target \in Names, data \in Encodings(target),
               placed' = Place(Offsets(owner, code, L) \cup Offsets(target, data, L + c + 10))
        PROVE  AllLaid(m2, placed')
    <3>1. PICK base \in Nat : base = L + c + 10 /\ base >= 12 /\ b <= base /\ base + d = M
      <4>1. L + c + 10 \in Nat /\ L + c + 10 >= 12 /\ b <= L + c + 10 /\ (L + c + 10) + d = M
        BY <1>3, <1>8
      <4>. QED
        BY <4>1
    <3>2. More(m2, base, data, M, P2, name2, Offsets(target, data, base))
      <4>1. base + Len(data) <= M /\ M <= Len(m2)
        BY <1>3, <1>8, <3>1
      <4>2. Has(m2, base, data)
        BY <1>6, <3>1
      <4>. QED
        BY <1>6, <1>8, <1>13, <1>14, <2>2, <3>1, <4>1, <4>2, OneMore
    <3>3. PICK P3, name3, rank3, fin3 :
             /\ Laid(m2, P3, name3, rank3, fin3, M) /\ P2 \subseteq P3 /\ \A o \in P2 : name3[o] = name2[o]
             /\ Covers(Offsets(target, data, base), P3, name3)
      BY <3>2 DEF More
    <3>4. Covers(Offsets(owner, code, L) \cup Offsets(target, data, base), P3, name3)
      BY <1>13, <3>3 DEF Covers
    <3>5. 12 \in P3 /\ Agrees(placed, P3, name3)
      BY <1>14, <3>3 DEF Agrees
    <3>6. Agrees(placed', P3, name3)
      BY <2>2, <3>1, <3>4, <3>5, PlaceAgrees
    <3>. QED
      BY <1>8, <3>3, <3>5, <3>6 DEF AllLaid
  <2>. QED
    BY <1>3, <2>1, <2>2
<1>16. Len(m2) >= 12
  BY <1>3, <1>6
<1>17. /\ answers' \in 0..MaxAnswers /\ reply' \in Seq(Bytes) /\ Len(reply') >= 12
       /\ Has(reply', 0, Header(answers')) /\ AllLaid(reply', placed') /\ Records(reply', answers', truth')
  BY <1>4, <1>5, <1>6, <1>12, <1>15, <1>16
<1>18. ReplyInv' <=>
       /\ answers' \in 0..MaxAnswers /\ reply' \in Seq(Bytes) /\ Len(reply') >= 12
       /\ Has(reply', 0, Header(answers')) /\ AllLaid(reply', placed') /\ Records(reply', answers', truth')
  BY DEF ReplyInv
<1>. QED
  BY <1>17, <1>18

\* A step of the server keeps what is known of the reply.
LEMMA NextInv == ReplyInv /\ [ReplyNext]_replyVars => ReplyInv'
<1> SUFFICES ASSUME ReplyInv, [ReplyNext]_replyVars PROVE ReplyInv'
  OBVIOUS
<1>1. ASSUME NEW owner \in Names, NEW code \in Encodings(owner), NEW class \in {1, 3}, NEW a \in Addresses,
             AnswerA(owner, code, class, a)
      PROVE  ReplyInv'
  <2>1. a \in Seq(Bytes) /\ Len(a) = 4
    <3>1. ASSUME a \in [1..4 -> Bytes] PROVE a \in Seq(Bytes) /\ Len(a) = 4
      <4>1. Len(a) = 4
        BY <3>1
      <4>2. a = [i \in 1..4 |-> a[i]] /\ \A i \in 1..4 : a[i] \in Bytes
        BY <3>1
      <4>3. [i \in 1..4 |-> a[i]] \in Seq(Bytes)
        BY <4>2
      <4>. QED
        BY <4>1, <4>2, <4>3
    <3>. QED
      BY <3>1, AddressAssumption
  <2>2. Append1(owner, code, 1, class, a) /\ truth' = IF class = 1 THEN Append(truth, a) ELSE truth
    BY <1>1 DEF AnswerA
  <2>3. placed' = Place(Offsets(owner, code, Len(reply)))
    BY <1>1 DEF AnswerA
  <2>4. Len(a) \in Bytes /\ 1 \in Bytes /\ class \in Bytes
    BY <2>1 DEF Bytes
  <2>5. \/ 1 = 1 /\ class = 1 /\ a \in Addresses /\ truth' = Append(truth, a)
        \/ ~(1 = 1 /\ class = 1) /\ truth' = truth
    BY <2>2
  <2>. QED
    BY <2>1, <2>2, <2>3, <2>4, <2>5, StepKept
<1>2. ASSUME NEW owner \in Names, NEW code \in Encodings(owner), NEW type \in {2, 5}, NEW target \in Names,
             NEW data \in Encodings(target), AnswerName(owner, code, type, target, data)
      PROVE  ReplyInv'
  <2>1. data \in Seq(Bytes) /\ Len(data) \in Bytes
    BY CodeIsBytes
  <2>2. Append1(owner, code, type, 1, data) /\ truth' = truth
    BY <1>2 DEF AnswerName
  <2>3. placed' = Place(Offsets(owner, code, Len(reply))
                         \cup Offsets(target, data, Len(reply) + Len(code) + 10))
    BY <1>2 DEF AnswerName
  <2>4. type \in Bytes /\ 1 \in Bytes /\ type # 1
    BY DEF Bytes
  <2>. QED
    BY <2>1, <2>2, <2>3, <2>4, StepKept
<1>3. ASSUME NEW owner \in Names, NEW code \in Encodings(owner), NEW type \in {6, 28, 16},
             AnswerOther(owner, code, type, [i \in 1..(type \div 2) |-> 192])
      PROVE  ReplyInv'
  <2>1. PICK k \in Bytes : k = type \div 2
    <3>1. 6 \div 2 = 3 /\ 28 \div 2 = 14 /\ 16 \div 2 = 8
      BY SMT
    <3>. QED
      BY <3>1 DEF Bytes
  <2>2. PICK data : data = [i \in 1..k |-> 192]
    OBVIOUS
  <2>3. data \in Seq(Bytes) /\ Len(data) = k
    BY <2>1, <2>2 DEF Bytes
  <2>4. Append1(owner, code, type, 1, data) /\ truth' = truth
    BY <1>3, <2>1, <2>2 DEF AnswerOther
  <2>5. placed' = Place(Offsets(owner, code, Len(reply)))
    BY <1>3 DEF AnswerOther
  <2>6. type \in Bytes /\ 1 \in Bytes /\ type # 1
    BY DEF Bytes
  <2>. QED
    BY <2>1, <2>3, <2>4, <2>5, <2>6, StepKept
<1>4. CASE UNCHANGED replyVars
  <2>1. reply' = reply /\ answers' = answers /\ truth' = truth /\ placed' = placed
    BY <1>4 DEF replyVars
  <2>2. ReplyInv' <=>
       /\ answers' \in 0..MaxAnswers /\ reply' \in Seq(Bytes) /\ Len(reply') >= 12
       /\ Has(reply', 0, Header(answers')) /\ AllLaid(reply', placed') /\ Records(reply', answers', truth')
    BY DEF ReplyInv
  <2>. QED
    BY <2>1, <2>2 DEF ReplyInv
<1>. QED
  BY <1>1, <1>2, <1>3, <1>4, Zenon DEF ReplyNext

\* Every reply that can be written is well formed in this way.
THEOREM ReplyInvariant == ReplySpec => []ReplyInv
<1>1. ReplyInit => ReplyInv
  BY InitInv
<1>2. ReplyInv /\ [ReplyNext]_replyVars => ReplyInv'
  BY NextInv
<1>. QED
  BY <1>1, <1>2, PTL DEF ReplySpec

\* Wherever a name begins, and however it is compressed, get_message_name reads the
\* name that was written and ends where calc_message_name_size jumps to.
THEOREM NamesAreRead == ReplySpec => []NamesRead
<1>1. ReplyInv => NamesRead
  BY ReadFromInv
<1>. QED
  BY <1>1, ReplyInvariant, PTL

-----------------------------------------------------------------------------
(* analyze_rrs.                                                             *)

\* An answer at i, where h is what the answers after it give from each offset.
OneRead(m, i, h) ==
    LET type == i + calc_message_name_size(m, i)
        len  == Word16(m, type + 8)
        data == type + 10
        unread == {j \in {type, type + 2, type + 8} : ~check_index(m, j)}
        isA  == Word16(m, type) = 1 /\ Word16(m, type + 2) = 1 /\ len = 4
    IN IF unread # {} THEN h[SX!Min(unread)]
       ELSE (IF isA /\ check_index(m, data) THEN <<LoadInt(m, data)>> ELSE <<>>) \o h[data + len]

\* The addresses of the k answers from i on.
Walked(m, H, k, i) == IF k = 0 THEN <<>> ELSE OneRead(m, i, H[k - 1])

\* H gives them from every offset, up to n answers.
IsWalk(H, m, n) == H = [k \in 0..n |-> [i \in Nat |-> Walked(m, H, k, i)]]

\* There is such a function for any number of answers.
LEMMA WalkExists == ASSUME NEW m PROVE \A n \in Nat : \E g : IsWalk(g, m, n)
<1> DEFINE S == {n \in Nat : \E g : IsWalk(g, m, n)}
<1>1. 0 \in S
  <2>1. PICK g : g = [k \in 0..0 |-> [i \in Nat |-> Walked(m, m, 0, i)]]
    OBVIOUS
  <2>2. ASSUME NEW k \in 0..0 PROVE g[k] = [i \in Nat |-> Walked(m, g, k, i)]
    <3>1. k = 0
      OBVIOUS
    <3>2. \A i \in Nat : Walked(m, m, 0, i) = Walked(m, g, 0, i)
      BY DEF Walked
    <3>3. g[0] = [i \in Nat |-> Walked(m, m, 0, i)]
      BY <2>1
    <3>4. [i \in Nat |-> Walked(m, m, 0, i)] = [i \in Nat |-> Walked(m, g, 0, i)]
      BY <3>2, Zenon
    <3>. QED
      BY <3>1, <3>3, <3>4
  <2>3. g = [k \in 0..0 |-> [i \in Nat |-> Walked(m, g, k, i)]]
    BY <2>1, <2>2, Zenon
  <2>4. IsWalk(g, m, 0)
    BY <2>3 DEF IsWalk
  <2>. QED
    BY <2>4
<1>2. ASSUME NEW n \in Nat, n \in S PROVE n + 1 \in S
  <2>1. PICK g : IsWalk(g, m, n)
    BY <1>2
  <2>2. PICK last : last = [i \in Nat |-> Walked(m, g, n + 1, i)]
    OBVIOUS
  <2>3. PICK q : q = [k \in 0..(n + 1) |-> IF k = n + 1 THEN last ELSE g[k]]
    OBVIOUS
  <2>4. ASSUME NEW k \in 0..(n + 1) PROVE q[k] = [i \in Nat |-> Walked(m, q, k, i)]
    <3>1. k # 0 => q[k - 1] = g[k - 1]
      BY <2>3
    <3>2. \A i \in Nat : Walked(m, q, k, i) = Walked(m, g, k, i)
      BY <3>1, Zenon DEF Walked
    <3>3. q[k] = [i \in Nat |-> Walked(m, g, k, i)]
      <4>1. CASE k = n + 1
        BY <2>2, <2>3, <4>1
      <4>2. CASE k # n + 1
        <5>1. k \in 0..n /\ q[k] = g[k]
          BY <2>3, <4>2
        <5>2. g[k] = [i \in Nat |-> Walked(m, g, k, i)]
          BY <2>1, <5>1 DEF IsWalk
        <5>. QED
          BY <5>1, <5>2
      <4>. QED
        BY <4>1, <4>2
    <3>. QED
      BY <3>2, <3>3, Zenon
  <2>5. q = [k \in 0..(n + 1) |-> [i \in Nat |-> Walked(m, q, k, i)]]
    BY <2>3, <2>4, Zenon
  <2>6. IsWalk(q, m, n + 1)
    BY <2>5 DEF IsWalk
  <2>. QED
    BY <2>6
<1>3. Nat \subseteq S
  BY <1>1, <1>2, Induct
<1>. QED
  BY <1>3

\* analyze_rrs is such a function, when it does not refuse.
LEMMA RrsIs == ASSUME NEW m, NEW start, NEW n \in Nat, check_index(m, start), ~(start + n * 16 > Len(m))
               PROVE  \E H : /\ \A k \in 0..n, i \in Nat : H[k][i] = Walked(m, H, k, i)
                             /\ analyze_rrs(m, start, n) = [ok |-> TRUE, ips |-> H[n][start]]
<1> DEFINE BodyAt(f, k, i) ==
            LET type == i + calc_message_name_size(m, i)
                len  == Word16(m, type + 8)
                data == type + 10
                unread == {j \in {type, type + 2, type + 8} : ~check_index(m, j)}
                isA  == Word16(m, type) = 1 /\ Word16(m, type + 2) = 1 /\ len = 4
            IN IF k = 0 THEN <<>>
               ELSE IF unread # {} THEN f[k - 1][SX!Min(unread)]
               ELSE (IF isA /\ check_index(m, data) THEN <<LoadInt(m, data)>> ELSE <<>>)
                    \o f[k - 1][data + len]
           Body(f) == [k \in 0..n |-> [i \in Nat |-> BodyAt(f, k, i)]]
           H       == CHOOSE f : f = Body(f)
<1>1. analyze_rrs(m, start, n) = [ok |-> TRUE, ips |-> H[n][start]]
  BY Zenon DEF analyze_rrs
<1>2. PICK g : IsWalk(g, m, n)
  BY WalkExists
<1>3. ASSUME NEW f, NEW k, NEW i PROVE BodyAt(f, k, i) = Walked(m, f, k, i)
  BY Zenon DEF Walked, OneRead
<1> HIDE DEF BodyAt
<1>4. g = Body(g)
  <2>1. g = [k \in 0..n |-> [i \in Nat |-> Walked(m, g, k, i)]]
    BY <1>2 DEF IsWalk
  <2>2. \A k : [i \in Nat |-> Walked(m, g, k, i)] = [i \in Nat |-> BodyAt(g, k, i)]
    BY <1>3
  <2>. QED
    BY <2>1, <2>2
<1>5. H = Body(H)
  BY <1>4, Zenon
<1>6. \A k \in 0..n, i \in Nat : H[k][i] = Walked(m, H, k, i)
  <2> HIDE DEF H
  <2> TAKE k \in 0..n, i \in Nat
  <2>1. H[k] = [j \in Nat |-> BodyAt(H, k, j)]
    BY <1>5
  <2>2. H[k][i] = BodyAt(H, k, i)
    BY <2>1
  <2>. QED
    BY <1>3, <2>2
<1> HIDE DEF H
<1>. QED
  BY <1>1, <1>6

\* Four bytes, as an int is loaded.
Four == [1..4 -> Bytes]

\* The int that is loaded, turned for Java, is the address.
LEMMA TurnedIs == ASSUME NEW m \in Seq(Bytes), NEW at \in Nat, NEW ip \in Addresses, Has(m, at, ip)
                  PROVE  LoadInt(m, at) \in Four /\ SX!Reverse(LoadInt(m, at)) = ip
<1>1. ip \in [1..4 -> Bytes]
  BY AddressAssumption
<1>2. Len(ip) = 4
  BY <1>1
<1>3. \A i \in 0..3 : At(m, at + i) = ip[i + 1]
  BY <1>2 DEF Has
<1>4. /\ At(m, at + 0) = ip[0 + 1] /\ At(m, at + 1) = ip[1 + 1]
      /\ At(m, at + 2) = ip[2 + 1] /\ At(m, at + 3) = ip[3 + 1]
  BY <1>3
<1>5. At(m, at) = ip[1] /\ At(m, at + 1) = ip[2] /\ At(m, at + 2) = ip[3] /\ At(m, at + 3) = ip[4]
  BY <1>4
<1>6. PICK v : v = <<ip[4], ip[3], ip[2], ip[1]>>
  OBVIOUS
<1>7. LoadInt(m, at) = v
  BY <1>5, <1>6 DEF LoadInt
<1>8. Len(v) = 4 /\ v[1] = ip[4] /\ v[2] = ip[3] /\ v[3] = ip[2] /\ v[4] = ip[1]
  BY <1>6
<1>9. v \in Four
  BY <1>1, <1>6 DEF Four
<1>10. PICK w : w = [i \in 1..4 |-> v[(4 - i) + 1]]
  OBVIOUS
<1>11. SX!Reverse(v) = w
  BY <1>8, <1>10 DEF SX!Reverse
<1>12. w[1] = ip[1] /\ w[2] = ip[2] /\ w[3] = ip[3] /\ w[4] = ip[4]
  <2>1. w[1] = v[(4 - 1) + 1] /\ w[2] = v[(4 - 2) + 1] /\ w[3] = v[(4 - 3) + 1] /\ w[4] = v[(4 - 4) + 1]
    BY <1>10
  <2>2. (4 - 1) + 1 = 4 /\ (4 - 2) + 1 = 3 /\ (4 - 3) + 1 = 2 /\ (4 - 4) + 1 = 1
    OBVIOUS
  <2>. QED
    BY <1>8, <2>1, <2>2
<1>13. w = ip
  <2>1. ASSUME NEW i \in 1..4 PROVE w[i] = ip[i]
    <3>1. i = 1 \/ i = 2 \/ i = 3 \/ i = 4
      OBVIOUS
    <3>. QED
      BY <1>12, <3>1
  <2>2. ip = [i \in 1..4 |-> ip[i]]
    BY <1>1
  <2>3. w = [i \in 1..4 |-> w[i]]
    BY <1>10
  <2>. QED
    BY <2>1, <2>2, <2>3
<1>. QED
  BY <1>7, <1>9, <1>11, <1>13

\* An answer gives its address, if it has one, before those of the answers after it.
Yields(m, s, e, old, new, h) ==
    \/ \E v \in Four : OneRead(m, s, h) = <<v>> \o h[e] /\ SX!Reverse(v) \in Addresses
                       /\ new = Append(old, SX!Reverse(v))
    \/ OneRead(m, s, h) = <<>> \o h[e] /\ new = old

\* So it is of an answer that was written.
LEMMA OneReadIs == ASSUME NEW m \in Seq(Bytes), NEW s \in Nat, NEW e \in Nat, e <= Len(m), NEW old, NEW new,
                          Record(m, s, e, old, new), NEW h
                   PROVE  Yields(m, s, e, old, new, h)
<1>1. PICK f, d \in Nat :
         /\ Goes(m, s, f, e) /\ e = After(m, f) + 10 + d /\ Word16(m, After(m, f) + 8) = d
         /\ \/ /\ IsAddress(m, After(m, f), d)
               /\ \E ip \in Addresses : Has(m, After(m, f) + 10, ip) /\ new = Append(old, ip)
            \/ ~IsAddress(m, After(m, f), d) /\ new = old
  BY DEF Record
<1>2. PICK n \in Nat : n = Len(m) /\ e <= n
  OBVIOUS
<1>3. PICK t \in Nat : t = After(m, f)
  <2>1. f \in s..(e - 1)
    BY <1>1 DEF Goes
  <2>2. After(m, f) \in Nat
    BY <2>1 DEF After
  <2>. QED
    BY <2>2
<1>4. s + calc_message_name_size(m, s) = t
  <2>1. calc_message_name_size(m, s) = t - s
    BY <1>1, <1>3, SizeIs
  <2>. QED
    BY <2>1
<1>5. PICK data \in Nat : data = t + 10 /\ data + d = e /\ Word16(m, t + 8) = d
  BY <1>1, <1>3
<1>6. check_index(m, t) /\ check_index(m, t + 2) /\ check_index(m, t + 8) /\ (d = 4 => check_index(m, data))
  BY <1>2, <1>5 DEF check_index
<1>7. {j \in {t, t + 2, t + 8} : ~check_index(m, j)} = {}
  BY <1>6
<1>8. OneRead(m, s, h) = IF {j \in {t, t + 2, t + 8} : ~check_index(m, j)} # {}
                         THEN h[SX!Min({j \in {t, t + 2, t + 8} : ~check_index(m, j)})]
                         ELSE (IF (Word16(m, t) = 1 /\ Word16(m, t + 2) = 1 /\ d = 4) /\ check_index(m, data)
                               THEN <<LoadInt(m, data)>> ELSE <<>>) \o h[data + d]
  BY <1>4, <1>5, Zenon DEF OneRead
<1>9. OneRead(m, s, h) = (IF IsAddress(m, t, d) /\ check_index(m, data)
                          THEN <<LoadInt(m, data)>> ELSE <<>>) \o h[e]
  BY <1>5, <1>7, <1>8, Zenon DEF IsAddress
<1>10. CASE IsAddress(m, t, d)
  <2>1. PICK ip \in Addresses : Has(m, data, ip) /\ new = Append(old, ip)
    BY <1>1, <1>3, <1>5, <1>10
  <2>2. PICK v : v = LoadInt(m, data)
    OBVIOUS
  <2>3. v \in Four /\ SX!Reverse(v) = ip
    BY <2>1, <2>2, TurnedIs
  <2>4. d = 4
    BY <1>10 DEF IsAddress
  <2>5. OneRead(m, s, h) = <<v>> \o h[e]
    BY <1>6, <1>9, <1>10, <2>2, <2>4, Zenon
  <2>. QED
    BY <2>1, <2>3, <2>5, Zenon DEF Yields
<1>11. CASE ~IsAddress(m, t, d)
  <2>1. OneRead(m, s, h) = <<>> \o h[e]
    BY <1>9, <1>11, Zenon
  <2>2. new = old
    BY <1>1, <1>3, <1>11
  <2>. QED
    BY <2>1, <2>2, Zenon DEF Yields
<1>. QED
  BY <1>10, <1>11

-----------------------------------------------------------------------------
(* The addresses in their order.                                            *)

\* m is s and then t, as sequences of T.
Chained(T, s, t, u, p, q) ==
    u \in Seq(T) /\ Len(u) = p + q /\ \A i \in 1..(p + q) : u[i] = IF i <= p THEN s[i] ELSE t[i - p]

\* s \o t is.
LEMMA Chain == ASSUME NEW T, NEW s \in Seq(T), NEW t \in Seq(T)
               PROVE  Chained(T, s, t, s \o t, Len(s), Len(t))
<1>1. /\ s \o t \in Seq(T) /\ Len(s \o t) = Len(s) + Len(t)
      /\ \A i \in 1..(Len(s) + Len(t)) : (s \o t)[i] = IF i <= Len(s) THEN s[i] ELSE t[i - Len(s)]
  BY ConcatProperties
<1>. QED
  BY <1>1, Zenon DEF Chained

\* y is a and then x, as sequences of T.
Behind(T, a, x, y) == /\ a \in T /\ x \in Seq(T) /\ y \in Seq(T)
                      /\ Len(y) = Len(x) + 1 /\ y[1] = a /\ \A i \in 1..Len(x) : y[i + 1] = x[i]

\* After s and then a comes x, in two ways.
LEMMA AppendThen == ASSUME NEW T, NEW s \in Seq(T), NEW a, NEW x, NEW y, Behind(T, a, x, y)
                    PROVE  s \o y = Append(s, a) \o x
<1>0. /\ a \in T /\ x \in Seq(T) /\ y \in Seq(T)
      /\ Len(y) = Len(x) + 1 /\ y[1] = a /\ \A i \in 1..Len(x) : y[i + 1] = x[i]
  BY DEF Behind
<1>1. PICK p, q \in Nat : p = Len(s) /\ q = Len(x) /\ Len(y) = q + 1 /\ a \in T /\ x \in Seq(T) /\ y \in Seq(T)
  BY <1>0
<1>2. PICK z \in Seq(T) : /\ z = Append(s, a) /\ Len(z) = p + 1 /\ z[p + 1] = a
                          /\ \A i \in 1..p : z[i] = s[i]
  <2>1. /\ Append(s, a) \in Seq(T) /\ Len(Append(s, a)) = Len(s) + 1 /\ Append(s, a)[Len(s) + 1] = a
        /\ \A i \in 1..Len(s) : Append(s, a)[i] = s[i]
    BY <1>0, AppendProperties
  <2>. QED
    BY <1>1, <2>1
<1>3. PICK u, w \in Seq(T) : u = s \o y /\ w = z \o x
  <2>1. s \o y \in Seq(T) /\ z \o x \in Seq(T)
    BY <1>0, <1>2, ConcatProperties
  <2>. QED
    BY <2>1
<1>4. PICK n \in Nat : n = p + (q + 1) /\ n = (p + 1) + q
  OBVIOUS
<1>5. Len(u) = n /\ \A i \in 1..n : u[i] = IF i <= p THEN s[i] ELSE y[i - p]
  <2>1. Chained(T, s, y, u, p, q + 1)
    BY <1>1, <1>3, Chain
  <2>. QED
    BY <1>4, <2>1 DEF Chained
<1>6. Len(w) = n /\ \A i \in 1..n : w[i] = IF i <= p + 1 THEN z[i] ELSE x[i - (p + 1)]
  <2>1. Chained(T, z, x, w, p + 1, q)
    BY <1>1, <1>2, <1>3, Chain
  <2>. QED
    BY <1>4, <2>1 DEF Chained
<1>7. ASSUME NEW i \in 1..n PROVE u[i] = w[i]
  <2>1. CASE i <= p
    <3>1. i \in 1..p /\ i <= p + 1
      BY <2>1
    <3>. QED
      BY <1>2, <1>5, <1>6, <2>1, <3>1
  <2>2. CASE i = p + 1
    <3>1. ~(i <= p) /\ i <= p + 1 /\ i - p = 1
      BY <2>2
    <3>2. u[i] = y[1] /\ w[i] = z[i]
      BY <1>5, <1>6, <3>1
    <3>. QED
      BY <1>0, <1>2, <2>2, <3>2
  <2>3. CASE i > p + 1
    <3>1. PICK j \in 1..q : j = i - (p + 1) /\ i - p = j + 1 /\ ~(i <= p) /\ ~(i <= p + 1)
      <4>1. i - (p + 1) \in 1..q /\ i - p = (i - (p + 1)) + 1 /\ ~(i <= p) /\ ~(i <= p + 1)
        BY <1>4, <2>3
      <4>. QED
        BY <4>1
    <3>2. u[i] = y[j + 1] /\ w[i] = x[j]
      BY <1>5, <1>6, <3>1
    <3>. QED
      BY <1>0, <1>1, <3>2
  <2>. QED
    BY <2>1, <2>2, <2>3
<1>8. u = w
  BY <1>5, <1>6, <1>7, SeqEqual
<1>. QED
  BY <1>2, <1>3, <1>8

\* int_for_java turns the bytes of each.
LEMMA ForJavaIs == ASSUME NEW R \in Seq(Four)
                   PROVE  /\ int_for_java(R) \in Seq(Four) /\ Len(int_for_java(R)) = Len(R)
                          /\ \A i \in 1..Len(R) : int_for_java(R)[i] = SX!Reverse(R[i])
<1>1. PICK n \in Nat : n = Len(R)
  OBVIOUS
<1>2. ASSUME NEW v \in Four PROVE SX!Reverse(v) \in Four
  <2>1. Len(v) = 4 /\ \A i \in 1..4 : v[i] \in Bytes
    BY DEF Four
  <2>2. \A i \in 1..4 : (4 - i) + 1 \in 1..4
    OBVIOUS
  <2>3. SX!Reverse(v) = [i \in 1..4 |-> v[(4 - i) + 1]]
    BY <2>1 DEF SX!Reverse
  <2>. QED
    BY <2>1, <2>2, <2>3 DEF Four
<1>3. PICK w : w = [k \in 1..n |-> SX!Reverse(R[k])]
  OBVIOUS
<1>4. PICK F : F = Four
  OBVIOUS
<1>5. ASSUME NEW k \in 1..n PROVE SX!Reverse(R[k]) \in F
  BY <1>1, <1>2, <1>4
<1>6. w \in Seq(F) /\ Len(w) = n /\ \A k \in 1..n : w[k] = SX!Reverse(R[k])
  BY <1>3, <1>5
<1>7. int_for_java(R) = w
  BY <1>1, <1>3 DEF int_for_java
<1>. QED
  BY <1>1, <1>4, <1>6, <1>7

\* An int before those of R is an address before theirs.
LEMMA TurnedFirst == ASSUME NEW v \in Four, NEW R \in Seq(Four), NEW old \in Seq(Four)
                     PROVE  /\ <<v>> \o R \in Seq(Four)
                            /\ old \o int_for_java(<<v>> \o R) = Append(old, SX!Reverse(v)) \o int_for_java(R)
<1>1. PICK F : F = Four
  OBVIOUS
<1>2. PICK n \in Nat : n = Len(R)
  OBVIOUS
<1>3. PICK V \in Seq(F) : V = <<v>> /\ Len(V) = 1 /\ V[1] = v
  <2>1. PICK t : t = <<v>>
    OBVIOUS
  <2>2. t \in Seq(F)
    BY <1>1, <2>1
  <2>3. Len(t) = 1 /\ t[1] = v
    BY <2>1
  <2>. QED
    BY <2>1, <2>2, <2>3
<1>4. PICK W \in Seq(F) : W = V \o R /\ Len(W) = 1 + n /\ \A i \in 1..(1 + n) : W[i] = IF i <= 1 THEN V[i] ELSE R[i - 1]
  <2>1. R \in Seq(F)
    BY <1>1
  <2>2. Chained(F, V, R, V \o R, 1, n)
    BY <1>2, <1>3, <2>1, Chain
  <2>. QED
    BY <2>2 DEF Chained
<1>5. W[1] = v /\ \A i \in 1..n : W[i + 1] = R[i]
  <2>1. 1 \in 1..(1 + n) /\ 1 <= 1
    OBVIOUS
  <2>2. W[1] = v
    BY <1>3, <1>4, <2>1
  <2>3. ASSUME NEW i \in 1..n PROVE W[i + 1] = R[i]
    <3>1. i + 1 \in 1..(1 + n) /\ ~(i + 1 <= 1) /\ (i + 1) - 1 = i
      OBVIOUS
    <3>. QED
      BY <1>4, <3>1
  <2>. QED
    BY <2>2, <2>3
<1>6. PICK x \in Seq(F) : x = int_for_java(R) /\ Len(x) = n /\ \A i \in 1..n : x[i] = SX!Reverse(R[i])
  BY <1>1, <1>2, ForJavaIs
<1>7. PICK y \in Seq(F) : y = int_for_java(W) /\ Len(y) = n + 1 /\ \A i \in 1..(n + 1) : y[i] = SX!Reverse(W[i])
  <2>1. Len(W) = n + 1
    BY <1>4
  <2>2. W \in Seq(Four)
    BY <1>1
  <2>. QED
    BY <1>1, <2>1, <2>2, ForJavaIs
<1>8. y[1] = SX!Reverse(v) /\ \A i \in 1..n : y[i + 1] = x[i]
  <2>1. 1 \in 1..(n + 1)
    OBVIOUS
  <2>2. y[1] = SX!Reverse(v)
    BY <1>5, <1>7, <2>1
  <2>3. ASSUME NEW i \in 1..n PROVE y[i + 1] = x[i]
    <3>1. i + 1 \in 1..(n + 1)
      OBVIOUS
    <3>. QED
      BY <1>5, <1>6, <1>7, <3>1
  <2>. QED
    BY <2>2, <2>3
<1>9. PICK a \in F : a = SX!Reverse(v) /\ y[1] = a
  <2>1. 1 \in 1..Len(y)
    BY <1>7
  <2>2. y[1] \in F
    BY <2>1
  <2>. QED
    BY <1>8, <2>2
<1>10. old \o y = Append(old, a) \o x
  <2>1. old \in Seq(F) /\ x \in Seq(F) /\ y \in Seq(F) /\ a \in F
    BY <1>1
  <2>2. Len(y) = Len(x) + 1 /\ y[1] = a /\ \A i \in 1..Len(x) : y[i + 1] = x[i]
    BY <1>6, <1>7, <1>8, <1>9
  <2>3. Behind(F, a, x, y)
    BY <2>1, <2>2 DEF Behind
  <2>. QED
    BY <2>1, <2>3, AppendThen
<1>. QED
  BY <1>1, <1>3, <1>4, <1>6, <1>7, <1>9, <1>10

\* What analyze_rrs gives are the addresses of the answers, in their order.
LEMMA RrsRead == ASSUME NEW m \in Seq(Bytes), NEW n \in Nat, NEW q, NEW st, NEW acc, AllRecords(m, n, q, st, acc),
                        check_index(m, st[0]), ~(st[0] + n * 16 > Len(m))
                 PROVE  /\ analyze_rrs(m, st[0], n).ok
                        /\ int_for_java(analyze_rrs(m, st[0], n).ips) = acc[n]
<1>1. PICK M \in Nat : M = Len(m)
  OBVIOUS
<1>2. /\ st \in [0..n -> 12..M] /\ acc \in [0..n -> Seq(Addresses)] /\ acc[0] = <<>>
      /\ \A j \in 1..n : Record(m, st[j - 1], st[j], acc[j - 1], acc[j])
  BY <1>1 DEF AllRecords
<1>3. PICK H : /\ \A k \in 0..n, i \in Nat : H[k][i] = Walked(m, H, k, i)
               /\ analyze_rrs(m, st[0], n) = [ok |-> TRUE, ips |-> H[n][st[0]]]
  <2>1. PICK start : start = st[0]
    OBVIOUS
  <2>2. check_index(m, start) /\ ~(start + n * 16 > Len(m))
    BY <2>1
  <2>3. \E H : /\ \A k \in 0..n, i \in Nat : H[k][i] = Walked(m, H, k, i)
               /\ analyze_rrs(m, start, n) = [ok |-> TRUE, ips |-> H[n][start]]
    BY <2>2, RrsIs
  <2>. QED
    BY <2>1, <2>3
<1>4. \A j \in 0..n : st[j] \in Nat /\ st[j] <= M
  <2>1. st \in [0..n -> 12..M]
    BY <1>2
  <2>2. \A x \in 12..M : x \in Nat /\ x <= M
    BY <1>1
  <2>. QED
    BY <2>1, <2>2
<1>5. ASSUME NEW j \in 0..n PROVE acc[j] \in Seq(Four)
  <2>1. Addresses \subseteq Four
    BY AddressAssumption DEF Four
  <2>2. acc[j] \in Seq(Addresses)
    BY <1>2
  <2>. QED
    BY <2>1, <2>2, SeqMonotonic
<1> DEFINE Left(k) == /\ H[k][st[n - k]] \in Seq(Four)
                      /\ acc[n - k] \o int_for_java(H[k][st[n - k]]) = acc[n]
           S == {k \in Nat : k <= n => Left(k)}
<1>6. Left(0)
  <2>1. n - 0 = n /\ n \in 0..n /\ 0 \in 0..n
    OBVIOUS
  <2>2. H[0][st[n]] = <<>>
    BY <1>3, <1>4, <2>1 DEF Walked
  <2>3. PICK e \in Seq(Four) : e = <<>>
    <3>1. <<>> \in Seq(Four)
      BY EmptySeq
    <3>. QED
      BY <3>1
  <2>4. PICK x \in Seq(Four) : x = int_for_java(e) /\ Len(x) = 0
    <3>1. Len(e) = 0
      BY <2>3
    <3>. QED
      BY <3>1, ForJavaIs
  <2>5. x = <<>>
    BY <2>4, EmptySeq
  <2>6. acc[n] \o <<>> = acc[n]
    <3>1. acc[n] \in Seq(Four)
      BY <1>5, <2>1
    <3>. QED
      BY <3>1, ConcatEmptySeq
  <2>. QED
    BY <2>1, <2>2, <2>3, <2>4, <2>5, <2>6
<1>7. ASSUME NEW k \in Nat, k + 1 <= n, Left(k) PROVE Left(k + 1)
  <2>1. k + 1 <= n
    BY <1>7
  <2>2. PICK j \in 1..n : j = n - k /\ j - 1 = n - (k + 1) /\ j \in 0..n /\ j - 1 \in 0..n
    <3>1. n - k \in 1..n /\ (n - k) - 1 = n - (k + 1) /\ n - k \in 0..n /\ (n - k) - 1 \in 0..n
      BY <2>1
    <3>. QED
      BY <3>1
  <2>3. PICK s, e \in Nat : s = st[j - 1] /\ e = st[j] /\ e <= M
    BY <1>4, <2>2
  <2>4. PICK old, new \in Seq(Four) : old = acc[j - 1] /\ new = acc[j]
    BY <1>5, <2>2
  <2>5. Yields(m, s, e, old, new, H[k])
    <3>1. Record(m, s, e, old, new)
      BY <1>2, <2>3, <2>4
    <3>. QED
      BY <1>1, <2>3, <3>1, OneReadIs
  <2>6. H[k + 1][s] = OneRead(m, s, H[k])
    <3>1. k + 1 \in 0..n /\ k + 1 # 0 /\ (k + 1) - 1 = k
      BY <2>1
    <3>2. H[k + 1][s] = Walked(m, H, k + 1, s)
      BY <1>3, <2>3, <3>1
    <3>. QED
      BY <3>1, <3>2 DEF Walked
  <2>7. PICK R \in Seq(Four) : R = H[k][e] /\ new \o int_for_java(R) = acc[n]
    <3>1. H[k][st[n - k]] \in Seq(Four) /\ acc[n - k] \o int_for_java(H[k][st[n - k]]) = acc[n]
      BY <1>7
    <3>. QED
      BY <2>2, <2>3, <2>4, <3>1
  <2>8. PICK X : X = OneRead(m, s, H[k])
    OBVIOUS
  <2>9. X \in Seq(Four) /\ old \o int_for_java(X) = acc[n]
    <3>1. CASE \E v \in Four : X = <<v>> \o R /\ SX!Reverse(v) \in Addresses /\ new = Append(old, SX!Reverse(v))
      <4>1. PICK v \in Four : X = <<v>> \o R /\ new = Append(old, SX!Reverse(v))
        BY <3>1
      <4>2. /\ <<v>> \o R \in Seq(Four)
            /\ old \o int_for_java(<<v>> \o R) = Append(old, SX!Reverse(v)) \o int_for_java(R)
        BY TurnedFirst
      <4>. QED
        BY <2>7, <4>1, <4>2
    <3>2. CASE X = <<>> \o R /\ new = old
      <4>1. <<>> \o R = R
        BY ConcatEmptySeq
      <4>. QED
        BY <2>7, <3>2, <4>1
    <3>. QED
      BY <2>5, <2>7, <2>8, <3>1, <3>2, Zenon DEF Yields
  <2>. QED
    BY <2>2, <2>3, <2>4, <2>6, <2>8, <2>9
<1>8. Left(n)
  <2> HIDE DEF Left
  <2>1. 0 \in S
    BY <1>6
  <2>2. ASSUME NEW k \in Nat, k \in S PROVE k + 1 \in S
    <3>1. k + 1 <= n => k <= n
      OBVIOUS
    <3>2. k + 1 <= n => Left(k + 1)
      BY <1>7, <2>2, <3>1
    <3>. QED
      BY <3>2
  <2> HIDE DEF S
  <2>3. Nat \subseteq S
    BY <2>1, <2>2, Induct
  <2>4. n \in S /\ n <= n
    BY <2>3
  <2>. QED
    BY <2>4 DEF S
<1>9. H[n][st[0]] \in Seq(Four) /\ acc[0] \o int_for_java(H[n][st[0]]) = acc[n]
  <2>1. n - n = 0
    OBVIOUS
  <2>2. H[n][st[n - n]] \in Seq(Four) /\ acc[n - n] \o int_for_java(H[n][st[n - n]]) = acc[n]
    BY <1>8
  <2>. QED
    BY <2>1, <2>2
<1>10. PICK r \in Seq(Four) : r = H[n][st[0]] /\ acc[0] \o int_for_java(r) = acc[n]
  BY <1>9
<1>11. int_for_java(r) \in Seq(Four)
  BY ForJavaIs
<1>12. <<>> \o int_for_java(r) = int_for_java(r)
  BY <1>11, ConcatEmptySeq
<1>. QED
  BY <1>2, <1>3, <1>10, <1>12

-----------------------------------------------------------------------------
(* analyze.                                                                 *)

\* What may follow a reply.
LEMMA TailIs == ASSUME NEW tail \in Tails PROVE tail \in Seq(Bytes) /\ (Len(tail) = 0 => tail = <<>>)
<1>1. CASE tail = <<>>
  BY <1>1
<1>2. CASE tail = <<0, 0, 41, 2, 0, 0, 0, 0, 0, 0, 0>>
  <2>1. Len(tail) = 11
    BY <1>2
  <2>2. tail \in Seq(Bytes)
    <3>1. 0 \in Bytes /\ 41 \in Bytes /\ 2 \in Bytes
      BY DEF Bytes
    <3>2. PICK B : B = Bytes
      OBVIOUS
    <3>. QED
      BY <1>2, <3>1, <3>2
  <2>. QED
    BY <2>1, <2>2
<1>. QED
  BY <1>1, <1>2 DEF Tails

\* The header of a reply passes.
LEMMA HeaderPasses == ASSUME NEW m \in Seq(Bytes), Len(m) >= 12, NEW n \in Bytes, Has(m, 0, Header(n))
                      PROVE  analyze_header(m) /\ Word16(m, 6) = n
<1>1. PICK h : h = Header(n)
  OBVIOUS
<1>2. /\ Len(h) = 12 /\ <<h[1], h[2]>> = TransId /\ h[3] = 129 /\ h[4] = 128
      /\ h[5] = 0 /\ h[6] = 1 /\ h[7] = 0 /\ h[8] = n
  BY <1>1, HeaderIs
<1>3. \A i \in 0..11 : At(m, 0 + i) = h[i + 1]
  BY <1>1, <1>2 DEF Has
<1>4. ASSUME NEW i \in 0..11 PROVE At(m, i) = h[i + 1]
  <2>1. 0 + i = i
    OBVIOUS
  <2>. QED
    BY <1>3, <2>1
<1>5. /\ At(m, 0) = h[0 + 1] /\ At(m, 1) = h[1 + 1] /\ At(m, 2) = h[2 + 1] /\ At(m, 3) = h[3 + 1]
      /\ At(m, 4) = h[4 + 1] /\ At(m, 5) = h[5 + 1] /\ At(m, 6) = h[6 + 1] /\ At(m, 7) = h[7 + 1]
  BY <1>4
<1>6. /\ At(m, 0) = h[1] /\ At(m, 1) = h[2] /\ At(m, 2) = 129 /\ At(m, 3) = 128
      /\ At(m, 4) = 0 /\ At(m, 4 + 1) = 1 /\ At(m, 6) = 0 /\ At(m, 6 + 1) = n
  BY <1>2, <1>5
<1>7. <<At(m, 0), At(m, 1)>> = TransId
  BY <1>2, <1>6, Zenon
<1>8. analyze_flags(m)
  <2>1. 129 >= 128 /\ 129 % 2 = 1 /\ 128 >= 128 /\ 128 % 16 = 0
    BY SMT
  <2>. QED
    BY <1>6, <2>1 DEF analyze_flags
<1>9. Word16(m, 4) = 1 /\ Word16(m, 6) = n
  <2>1. n \in Int
    BY DEF Bytes
  <2>. QED
    BY <1>6, <2>1 DEF Word16
<1>. QED
  BY <1>7, <1>8, <1>9 DEF analyze_header

\* A reply and what follows it: the names and the answers are where they were.
Followed(m, q, st, acc) ==
    /\ m \in Seq(Bytes) /\ Len(m) >= 12 /\ Len(reply) <= Len(m) /\ Has(m, 0, Header(answers))
    /\ AllRecords(m, answers, q, st, acc) /\ st[answers] = Len(reply) /\ acc[answers] = truth
    /\ get_message_name(m, 12).next = After(m, q)

\* So they are, whatever of Tails follows.
LEMMA StillRead == ASSUME ReplyInv, NEW tail \in Tails
                   PROVE  \E q \in Nat : \E st, acc : Followed(reply \o tail, q, st, acc)
<1>1. /\ answers \in 0..MaxAnswers /\ reply \in Seq(Bytes) /\ Len(reply) >= 12
      /\ Has(reply, 0, Header(answers)) /\ AllLaid(reply, placed) /\ Records(reply, answers, truth)
  BY DEF ReplyInv
<1>2. tail \in Seq(Bytes)
  BY TailIs
<1>3. PICK L, t \in Nat : L = Len(reply) /\ t = Len(tail) /\ L >= 12
  BY <1>1, <1>2
<1>4. PICK m : m = reply \o tail
  OBVIOUS
<1>5. Joined(reply, tail, m)
  BY <1>1, <1>2, <1>4, Joins
<1>6. m \in Seq(Bytes) /\ Len(m) = L + t /\ \A i \in 0..(L - 1) : At(m, i) = At(reply, i)
  BY <1>3, <1>5 DEF Joined
<1>7. PICK M \in Nat : M = Len(m) /\ L <= M /\ M >= 12
  <2>1. L + t \in Nat /\ L <= L + t /\ L + t >= 12
    BY <1>3
  <2>. QED
    BY <1>6, <2>1
<1>8. SameBytes(reply, m, L)
  <2>1. \A i \in 12..(L - 1) : i \in 0..(L - 1)
    OBVIOUS
  <2>. QED
    BY <1>6, <2>1 DEF SameBytes
<1>9. answers \in Nat /\ answers \in Bytes
  BY <1>1, AnswersAssumption DEF Bytes
<1>10. Has(m, 0, Header(answers))
  <2>1. Len(Header(answers)) = 12
    BY <1>9, HeaderIs
  <2>. QED
    BY <1>1, <1>2, <1>5, <2>1, HasKept
<1>11. PICK q \in Nat : \E st, acc : AllRecords(reply, answers, q, st, acc) /\ st[answers] = L /\ acc[answers] = truth
  BY <1>1, <1>3 DEF Records
<1>12. PICK st, acc : AllRecords(reply, answers, q, st, acc) /\ st[answers] = L /\ acc[answers] = truth
  BY <1>11
<1>13. AllRecords(m, answers, q, st, acc)
  BY <1>1, <1>3, <1>6, <1>7, <1>8, <1>9, <1>12, RecordsKept
<1>14. Goes(m, 12, q, M)
  BY <1>7, <1>13 DEF AllRecords
<1>15. PICK P, name, rank, fin : 12 \in P /\ Laid(reply, P, name, rank, fin, L)
  BY <1>1, <1>3 DEF AllLaid
<1>16. Laid(m, P, name, rank, fin, M)
  BY <1>7, <1>8, <1>15, LaidKept
<1>17. get_message_name(m, 12).next = After(m, fin[12])
  <2>1. get_message_name(m, 12) = Result(m, name, fin, 12)
    BY <1>6, <1>15, <1>16, Reads
  <2>. QED
    BY <2>1 DEF Result
<1>18. PICK f \in Nat : f = fin[12] /\ Goes(m, 12, f, M)
  <2>1. Goes(m, 12, fin[12], M)
    BY <1>15, <1>16 DEF Laid
  <2>2. fin[12] \in 12..(M - 1)
    BY <2>1 DEF Goes
  <2>. QED
    BY <2>1, <2>2
<1>19. After(m, f) = After(m, q)
  <2>1. PICK o \in Nat : o = 12
    OBVIOUS
  <2>2. calc_message_name_size(m, o) = After(m, f) - o /\ calc_message_name_size(m, o) = After(m, q) - o
    BY <1>6, <1>7, <1>14, <1>18, <2>1, SizeIs
  <2>3. After(m, f) \in Int /\ After(m, q) \in Int
    BY DEF After
  <2>. QED
    BY <2>2, <2>3
<1>20. Followed(m, q, st, acc)
  BY <1>3, <1>6, <1>7, <1>10, <1>12, <1>13, <1>17, <1>18, <1>19 DEF Followed
<1>. QED
  BY <1>4, <1>20

\* Such a reply is understood.
LEMMA UnderstoodFromInv == ReplyInv => Understood
<1> SUFFICES ASSUME ReplyInv, NEW tail \in Tails
             PROVE  LET m     == reply \o tail
                        r     == analyze(m)
                        start == analyze_queries(m).next
                    IN IF r.ok THEN int_for_java(r.ips) = truth
                       ELSE \/ answers = 0 /\ tail = <<>>
                            \/ Len(m) - start < 16 * answers
  BY DEF Understood
<1>1. PICK m : m = reply \o tail
  OBVIOUS
<1>2. PICK q \in Nat : \E st, acc : Followed(m, q, st, acc)
  BY <1>1, StillRead
<1>3. PICK st, acc : Followed(m, q, st, acc)
  BY <1>2
<1>4. PICK n \in Bytes : n = answers /\ n \in Nat
  BY AnswersAssumption DEF ReplyInv, Bytes
<1>5. /\ m \in Seq(Bytes) /\ Len(m) >= 12 /\ Len(reply) <= Len(m) /\ Has(m, 0, Header(n))
      /\ AllRecords(m, n, q, st, acc) /\ st[n] = Len(reply) /\ acc[n] = truth
      /\ get_message_name(m, 12).next = After(m, q)
  BY <1>3, <1>4 DEF Followed
<1>6. PICK M, L \in Nat : M = Len(m) /\ L = Len(reply) /\ L <= M
  BY <1>5 DEF ReplyInv
<1>7. PICK t \in Nat : t = After(m, q)
  BY DEF After
<1>8. PICK start \in Nat : start = t + 4 /\ start = st[0] /\ st[0] <= M /\ acc[0] = <<>>
  <2>1. st \in [0..n -> 12..M] /\ st[0] = t + 4 /\ acc[0] = <<>>
    BY <1>5, <1>6, <1>7 DEF AllRecords
  <2>2. st[0] \in 12..M
    BY <1>4, <2>1
  <2>. QED
    BY <2>1, <2>2
<1>9. Word16(m, t) = 1 /\ Word16(m, t + 2) = 1
  BY <1>5, <1>7 DEF AllRecords
<1>10. analyze_header(m) /\ Word16(m, 6) = n
  BY <1>5, HeaderPasses
<1>11. analyze_queries(m).next = start /\ (analyze_queries(m).ok <=> start < M)
  <2>1. get_message_name(m, 12).next = t
    BY <1>5, <1>7
  <2>2. analyze_queries(m) = [ok |-> /\ check_index(m, 12) /\ check_index(m, t + 4)
                                     /\ Word16(m, t) = 1 /\ Word16(m, t + 2) = 1,
                              next |-> t + 4]
    BY <2>1, Zenon DEF analyze_queries
  <2>3. check_index(m, t + 4) <=> start < M
    BY <1>6, <1>8 DEF check_index
  <2>4. start < M => check_index(m, 12)
    <3>1. t >= 12
      <4>1. q \in 12..(Len(m) - 1)
        BY <1>5 DEF AllRecords, Goes
      <4>. QED
        BY <1>6, <1>7, <4>1 DEF After
    <3>. QED
      BY <1>6, <1>8, <3>1 DEF check_index
  <2>5. analyze_queries(m).ok <=> (check_index(m, 12) /\ check_index(m, t + 4))
    BY <1>9, <2>2
  <2>. QED
    BY <1>8, <2>2, <2>3, <2>4, <2>5
<1>12. Len(m) - start < 16 * answers <=> start + n * 16 > M
  BY <1>4, <1>6
<1> DEFINE Goal == IF analyze(m).ok THEN int_for_java(analyze(m).ips) = truth
                   ELSE \/ answers = 0 /\ tail = <<>>
                        \/ Len(m) - start < 16 * answers
<1>13. ASSUME ~(start < M) PROVE Goal
  <2>1. analyze(m) = Refused
    BY <1>10, <1>11, <1>13, Zenon DEF analyze
  <2>2. ~analyze(m).ok
    BY <2>1 DEF Refused
  <2>3. answers = 0 \/ Len(m) - start < 16 * answers
    BY <1>4, <1>6, <1>8, <1>13
  <2>4. answers = 0 => tail = <<>>
    <3>1. SUFFICES ASSUME n = 0 PROVE tail = <<>>
      BY <1>4
    <3>2. L = M
      BY <1>5, <1>6, <1>8, <1>13, <3>1
    <3>3. tail \in Seq(Bytes) /\ reply \in Seq(Bytes) /\ (Len(tail) = 0 => tail = <<>>)
      BY TailIs DEF ReplyInv
    <3>4. Len(m) = Len(reply) + Len(tail)
      BY <1>1, <3>3, Joins DEF Joined
    <3>5. Len(tail) = 0
      BY <1>6, <3>2, <3>3, <3>4
    <3>. QED
      BY <3>3, <3>5
  <2>. QED
    BY <2>2, <2>3, <2>4, Zenon
<1>14. ASSUME start < M, n = 0 PROVE Goal
  <2>1. analyze(m) = [ok |-> TRUE, ips |-> <<>>]
    BY <1>10, <1>11, <1>14, Zenon DEF analyze
  <2>2. PICK r : r = analyze(m)
    OBVIOUS
  <2>3. r.ok /\ r.ips = <<>>
    BY <2>1, <2>2
  <2>4. truth = <<>>
    BY <1>5, <1>8, <1>14
  <2>5. int_for_java(<<>>) = <<>>
    <3>1. PICK e \in Seq(Four) : e = <<>> /\ Len(e) = 0
      <4>1. <<>> \in Seq(Four) /\ Len(<<>>) = 0
        BY EmptySeq
      <4>. QED
        BY <4>1
    <3>2. int_for_java(e) \in Seq(Four) /\ Len(int_for_java(e)) = 0
      BY <3>1, ForJavaIs
    <3>. QED
      BY <3>1, <3>2, EmptySeq
  <2>6. analyze(m).ok /\ int_for_java(analyze(m).ips) = truth
    BY <2>2, <2>3, <2>4, <2>5
  <2>. QED
    BY <2>6, Zenon
<1>15. ASSUME start < M, n # 0 PROVE Goal
  <2>1. analyze(m) = analyze_rrs(m, start, n)
    <3>1. analyze_queries(m).ok
      BY <1>11, <1>15
    <3>. QED
      BY <1>10, <1>11, <1>15, <3>1, Zenon DEF analyze
  <2>2. check_index(m, start)
    BY <1>6, <1>15 DEF check_index
  <2>3. CASE start + n * 16 > M
    <3>1. analyze(m) = Refused
      BY <1>6, <2>1, <2>3, Zenon DEF analyze_rrs
    <3>2. ~analyze(m).ok
      BY <3>1 DEF Refused
    <3>3. Len(m) - start < 16 * answers
      BY <1>12, <2>3
    <3>. QED
      BY <3>2, <3>3, Zenon
  <2>4. CASE ~(start + n * 16 > M)
    <3>1. analyze_rrs(m, start, n).ok /\ int_for_java(analyze_rrs(m, start, n).ips) = acc[n]
      BY <1>4, <1>5, <1>6, <1>8, <2>2, <2>4, RrsRead
    <3>2. analyze(m).ok /\ int_for_java(analyze(m).ips) = truth
      BY <1>5, <2>1, <3>1, Zenon
    <3>. QED
      BY <3>2, Zenon
  <2>. QED
    BY <2>3, <2>4
<1>16. Goal
  BY <1>13, <1>14, <1>15, Zenon
<1>17. analyze_queries(reply \o tail).next = start
  BY <1>1, <1>11
<1>. QED
  BY <1>1, <1>16, <1>17, Zenon

\* Of any reply that is accepted exactly its IPv4 addresses are taken, in order; one is
\* refused only if it has no answer and nothing follows, or is under 16 bytes an answer.
THEOREM ReplyUnderstood == ReplySpec => []Understood
<1>1. ReplyInv => Understood
  BY UnderstoodFromInv
<1>. QED
  BY <1>1, ReplyInvariant, PTL

=============================================================================
