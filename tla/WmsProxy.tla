------------------------------- MODULE WmsProxy -------------------------------
(***************************************************************************)
(* The WMS proxy (wmsProxyHandler.ts) asks the servers of the map library  *)
(* for what browsers must read: capabilities, which are cached for a day   *)
(* and downloaded once for all who wait, and feature info. Servers that    *)
(* are not there, and capabilities that failed, are left alone for a while.*)
(* The tiles of the library (WmsTiles) ask for the names of layers here.   *)
(***************************************************************************)
EXTENDS Integers, Sequences, FiniteSets

CONSTANTS
  Clients,      \* of the proxy, with a request at a time
  TileClients,  \* those that are capabilityNames() of a tile's request
  Documents,    \* upstream URLs of capabilities
  Host(_),      \* of a document
  Size(_),      \* of a document
  MaxCache,     \* CACHE_MAX_BYTES
  MAX_PER_KIND, \* upstream requests of a kind at once
  Day,          \* CAPABILITIES_TTL
  HostRest,     \* unreachable's ttl
  DocumentRest, \* capabilitiesFailed's ttl
  MaxTime,      \* bound on the time
  NoAge         \* of an answer without capabilities

\* What fetchLimited() lets through fits in the cache (MAX_BYTES).
ASSUME ProxyAssumption ==
  /\ \A d \in Documents : Size(d) \in 0..MaxCache
  /\ {MaxCache, MAX_PER_KIND, Day} \subseteq Nat
  /\ IsFiniteSet(Clients)

VARIABLES
  now,
  cache,        \* entries in the order of their last use
  cacheBytes,
  inFlight,     \* documents being downloaded
  upstream,     \* running: upstream requests of each kind
  hostUntil,    \* unreachable: until when a host is left alone
  failedUntil,  \* capabilitiesFailed, of documents
  client        \* each client: how far its request is, what it asks, what it got

proxyVars == <<now, cache, cacheBytes, inFlight, upstream, hostUntil, failedUntil, client>>
backoffs == <<hostUntil, failedUntil>>

Hosts == {Host(d) : d \in Documents}
Kinds == {"getcapabilities", "getfeatureinfo"}

ProxyInit ==
  /\ now = 0 /\ cache = <<>> /\ cacheBytes = 0
  /\ inFlight = {} /\ upstream = [k \in Kinds |-> 0]
  /\ hostUntil = [h \in Hosts |-> 0] /\ failedUntil = [d \in Documents |-> 0]
  /\ client = [c \in Clients |-> [at |-> "idle"]]

Tick ==
  /\ now < MaxTime /\ now' = now + 1
  /\ UNCHANGED <<cache, cacheBytes, inFlight, upstream, backoffs, client>>
-------------------------------------------------------------------------------
(* The cache *)

DocumentsOf(entries) == {entries[i].document : i \in DOMAIN entries}

\* What a part of the cache has, counted byte by byte.
BytesOf(documents) == UNION {{d} \X (1..Size(d)) : d \in documents}
Bytes(entries) == Cardinality(BytesOf(DocumentsOf(entries)))

Has(d) == d \in DocumentsOf(cache)
Place(d) == CHOOSE i \in DOMAIN cache : cache[i].document = d
Entry(d) == cache[Place(d)]
Valid(d) == Has(d) /\ Entry(d).expires >= now
Without(d) ==
  IF Has(d)
  THEN SubSeq(cache, 1, Place(d) - 1) \o SubSeq(cache, Place(d) + 1, Len(cache))
  ELSE cache

\* (mutation) a hit that gives the entry another day
Renewed(d) == Append(Without(d), [Entry(d) EXCEPT !.expires = now + Day])
\* cached(): back to the end, so that the least recently used goes first.
Used(d) == Append(Without(d), Entry(d))

\* forget(), and what the counter is then.
BytesWithout(d) == cacheBytes - (IF Has(d) THEN Size(d) ELSE 0)
Forget(d) == cache' = Without(d) /\ cacheBytes' = BytesWithout(d)

\* remember(): the first entries go until the new one fits.
BytesAfter(d, gone) == BytesWithout(d) - Bytes(SubSeq(Without(d), 1, gone)) + Size(d)
Fits(d, gone) == gone = Len(Without(d)) \/ BytesAfter(d, gone) <= MaxCache
Remember(d) ==
  \E gone \in 0..Len(Without(d)) :
    /\ Fits(d, gone) /\ \A fewer \in 0..(gone - 1) : ~Fits(d, fewer)
    /\ cache' = Append(SubSeq(Without(d), gone + 1, Len(Without(d))),
                       [document |-> d, expires |-> now + Day, since |-> now])
    /\ cacheBytes' = BytesAfter(d, gone)
-------------------------------------------------------------------------------
(* Capabilities *)

\* With capabilities of an age, or without: 502, 503 and feature info.
Over(age) == [at |-> "over", age |-> age]
Answered(c, age) == client' = [client EXCEPT ![c] = Over(age)]
Waits(c, d) == client' = [client EXCEPT ![c] = [at |-> "waiting", document |-> d]]
WaitingFor(d) == {c \in Clients : client[c].at = "waiting" /\ client[c].document = d}

LeftAlone(d) == hostUntil[Host(d)] > now \/ failedUntil[d] > now
Free(kind) == upstream[kind] < MAX_PER_KIND
Runs(kind, n) == upstream' = [upstream EXCEPT ![kind] = @ + n]

Ready(c) == client[c].at \in {"idle", "over"}

Hit(c, d) ==
  /\ Ready(c) /\ Valid(d)
  /\ cache' = Used(d) /\ Answered(c, now - Entry(d).since)
  /\ UNCHANGED <<now, cacheBytes, inFlight, upstream, backoffs>>

\* An entry that expired is forgotten first.
Miss(c, d) ==
  /\ Ready(c) /\ ~Valid(d)
  /\ Forget(d)
  /\ \/ /\ LeftAlone(d) \/ (d \notin inFlight /\ ~Free("getcapabilities"))
        /\ Answered(c, NoAge) /\ UNCHANGED <<inFlight, upstream>>
     \/ /\ ~LeftAlone(d) /\ d \in inFlight
        /\ Waits(c, d) /\ UNCHANGED <<inFlight, upstream>>
     \/ /\ ~LeftAlone(d) /\ d \notin inFlight /\ Free("getcapabilities")
        /\ Waits(c, d) /\ inFlight' = inFlight \cup {d} /\ Runs("getcapabilities", 1)
  /\ UNCHANGED <<now, backoffs>>

\* The download ends, whether or not its clients are still there, and those who
\* waited go on.
Downloaded(d, age) ==
  /\ d \in inFlight /\ inFlight' = inFlight \ {d} /\ Runs("getcapabilities", -1)
  /\ client' = [c \in Clients |-> IF c \in WaitingFor(d) THEN Over(age) ELSE client[c]]
  /\ UNCHANGED now

IsDocument(d) == Downloaded(d, 0) /\ Remember(d) /\ UNCHANGED backoffs

\* No capabilities, an error or a timeout; a host that is not there is marked by
\* those who waited, but for capabilityNames().
IsFailure(d) ==
  /\ Downloaded(d, NoAge)
  /\ failedUntil' = [failedUntil EXCEPT ![d] = now + DocumentRest]
  /\ \/ UNCHANGED hostUntil
     \/ /\ WaitingFor(d) \ TileClients # {}
        /\ hostUntil' = [hostUntil EXCEPT ![Host(d)] = now + HostRest]
  /\ UNCHANGED <<cache, cacheBytes>>
-------------------------------------------------------------------------------
(* Feature info *)

AskInfo(c, h) ==
  /\ Ready(c) /\ c \notin TileClients
  /\ IF hostUntil[h] <= now /\ Free("getfeatureinfo")
     THEN client' = [client EXCEPT ![c] = [at |-> "asking", host |-> h]] /\ Runs("getfeatureinfo", 1)
     ELSE /\ Answered(c, NoAge)
          /\ UNCHANGED upstream
  /\ UNCHANGED <<now, cache, cacheBytes, inFlight, backoffs>>

\* It is answered, or its client is gone and the request aborted; or the host is
\* not there.
InfoEnds(c) ==
  /\ client[c].at = "asking"
  /\ Runs("getfeatureinfo", -1)
  /\ Answered(c, NoAge)
  /\ hostUntil' \in {hostUntil, [hostUntil EXCEPT ![client[c].host] = now + HostRest]}
  /\ UNCHANGED <<now, cache, cacheBytes, inFlight, failedUntil>>

ProxyNext ==
  \/ Tick
  \/ \E c \in Clients, d \in Documents : Hit(c, d) \/ Miss(c, d)
  \/ \E d \in Documents : IsDocument(d) \/ IsFailure(d)
  \/ \E c \in Clients : InfoEnds(c) \/ \E h \in Hosts : AskInfo(c, h)

ProxySpec == ProxyInit /\ [][ProxyNext]_proxyVars
-------------------------------------------------------------------------------
\* "Capabilities are cached for a day" (wmsProxyHandler.ts:733): nobody is given
\* older ones, however often they are asked for; the counters that bound the cache
\* and the upstream requests stay true to them, also when entries expire, are
\* evicted or come twice.
CacheIsSound ==
  /\ \A c \in Clients : client[c].at = "over" /\ client[c].age # NoAge => client[c].age <= Day
  /\ cacheBytes = Bytes(cache) /\ cacheBytes <= MaxCache
  /\ upstream["getcapabilities"] = Cardinality(inFlight)
  /\ upstream["getfeatureinfo"] = Cardinality({c \in Clients : client[c].at = "asking"})
===============================================================================
