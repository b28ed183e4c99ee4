----------------------------- MODULE PublicAddress -----------------------------
(* The household's public address: found out over HTTPS or told by the relay's *)
(* Worker (PublicIPResolver.h), its reverse name asked of the network's DNS    *)
(* over UDP (ReverseDNS.h), and Cloudflare's record kept on it                 *)
(* (CloudflareDNS.h), all of them after the clock is set (Clock.h).            *)
EXTENDS WiFiSupervisor

VARIABLES addr,        \* the address the household has
          servers,     \* the SNTP servers in reach
          alt,         \* Clock::_alt: the second one is asked
          clock,       \* synced()
          relay,       \* its connection: "off", "fresh", "up", "cut" unnoticed
          told, news,  \* _public, what the Worker told of this connection, and _ipNew
          ip,          \* Config::publicIP (0: not known yet)
          checkDue,    \* the interval of the check has passed
          query, id,   \* the open UDP query's (0: none), and the last one's number
          asked,       \* the queries that may still be answered
          name,        \* Config::publicHost: the address it is the name of
          record,      \* Cloudflare's A record (0: another address)
          synced,      \* _syncedIP
          dnsWait,     \* RETRY_INTERVAL has not passed
          lost         \* ghost: the answer to the last PATCH that was applied got lost

clockVars == <<servers, alt, clock>>
relayVars == <<relay, told, news>>
checkVars == <<ip, checkDue>>
nameVars == <<query, id, asked, name>>
dnsVars == <<record, synced, dnsWait, lost>>
addressVars == <<addr, clockVars, relayVars, checkVars, nameVars, dnsVars>>

Addresses == {1, 2}

\* This household reaches the internet.
HasWan == "address" \in uses

AddressInit ==
    /\ addr = 1 /\ servers \in (IF HasWan THEN {{FALSE}, {TRUE}} ELSE {{}}) /\ alt = FALSE /\ clock = FALSE
    /\ relay = "off" /\ told = 0 /\ news = FALSE /\ ip = 0 /\ checkDue = TRUE
    /\ query = 0 /\ id = 0 /\ asked = {} /\ name = 0
    /\ record = 0 /\ synced = 0 /\ dnsWait = FALSE /\ lost = FALSE

AddressBoot ==
    /\ alt' = FALSE /\ clock' = FALSE /\ relay' = "off" /\ told' = 0 /\ news' = FALSE
    /\ ip' = 0 /\ checkDue' = TRUE /\ query' = 0 /\ id' = 0 /\ asked' = {} /\ name' = 0
    /\ synced' = 0 /\ dnsWait' = FALSE
    /\ UNCHANGED <<addr, servers, record, lost>>

\* A new address from the provider: the relay's connection came from the old one.
AddressChanges ==
    /\ Happens("address") /\ addr' \in Addresses \ {addr}
    /\ relay' = IF relay = "off" THEN relay ELSE "cut"
    /\ UNCHANGED <<clockVars, told, news, checkVars, nameVars, dnsVars>>

----------------------------------------------------------------------------
\* Clock.

Asks == Assoc /\ alt \in servers
Synced == ~clock /\ Asks /\ clock' = TRUE /\ Quietly /\ UNCHANGED <<addr, servers, alt, relayVars, checkVars, nameVars, dnsVars>>

\* Mutant: the same server again.
SameServer == alt
OtherServer == ~alt

\* RETRY_MS with no time: the other server. One that is in reach answers before.
ClockRetries ==
    /\ HasWan /\ ~clock /\ ~Asks /\ alt' = OtherServer /\ Quietly
    /\ UNCHANGED <<addr, servers, clock, relayVars, checkVars, nameVars, dnsVars>>

----------------------------------------------------------------------------
\* The relay, as far as it tells the address.

RelayConnects ==
    /\ "relay" \in uses /\ relay = "off" /\ Assoc /\ clock
    /\ relay' = "fresh" /\ told' = 0 /\ Quietly
    /\ UNCHANGED <<addr, clockVars, news, checkVars, nameVars, dnsVars>>

\* The Worker tells each connection the address it comes from.
RelayTells ==
    /\ relay = "fresh" /\ relay' = "up" /\ told' = addr /\ news' = TRUE /\ Quietly
    /\ UNCHANGED <<addr, clockVars, checkVars, nameVars, dnsVars>>

\* Its pings stop being answered, or something else ends it.
RelayDrops ==
    /\ \/ relay = "cut" /\ Quietly
       \/ relay \in {"fresh", "up"} /\ Happens("faults")
    /\ relay' = "off"
    /\ UNCHANGED <<addr, clockVars, told, news, checkVars, nameVars, dnsVars>>

Open == relay # "off"
KnowsIP == Open /\ told # 0

----------------------------------------------------------------------------
\* The reverse name. A query that got no room, or no server, is not sent. An
\* answer comes at most one query late, so three numbers do for the 65536.

Lookup(a) ==
    /\ name' = 0 /\ id' = 1 + (id % 3)
    /\ \E goes \in BOOLEAN :
          /\ query' = IF goes THEN id' ELSE 0
          /\ asked' = {q \in asked : q.id = id} \cup (IF goes THEN {[id |-> id', ip |-> a]} ELSE {})

\* Mutant: an answer is taken for the query that is open.
AnyAnswer(answer) == TRUE
IsOurs(answer) == answer.id = query

\* Any answer ends the query, also one to an earlier query that comes late.
NameAnswer ==
    /\ query # 0 /\ query' = 0 /\ Quietly
    /\ \E answer \in asked : name' = IF IsOurs(answer) THEN answer.ip ELSE name
    /\ UNCHANGED <<addr, clockVars, relayVars, checkVars, id, asked, dnsVars>>

----------------------------------------------------------------------------
\* The address.

\* _apply, with the name's query when the address is a new one; another one's
\* is left as it is.
Apply(a, open) ==
    /\ ip' = a
    /\ IF a = ip THEN query' = open /\ UNCHANGED <<id, asked, name>> ELSE Lookup(a)

CheckInterval == ~checkDue /\ checkDue' = TRUE /\ Quietly /\ UNCHANGED <<addr, clockVars, relayVars, ip, nameVars, dnsVars>>

\* resolver.tick in its turn. The query that waits too long is closed first,
\* and no sooner (ReverseDNS::tick).
Check ==
    /\ checkDue /\ Assoc /\ clock /\ ~KnowsIP /\ checkDue' = FALSE
    /\ \/ Quietly /\ \E open \in {query, 0} : Apply(addr, open)
       \/ Happens("faults") /\ query' \in {query, 0} /\ UNCHANGED <<ip, id, asked, name>>
    /\ UNCHANGED <<addr, clockVars, relayVars, dnsVars>>

\* takeIP and offer: it counts as the check. A new connection forgets what the
\* one before was told.
Offer ==
    /\ news /\ news' = FALSE /\ Quietly
    /\ \/ told # 0 /\ checkDue' = FALSE /\ Apply(told, query)
       \/ told = 0 /\ UNCHANGED <<checkVars, nameVars>>
    /\ UNCHANGED <<addr, clockVars, relay, told, dnsVars>>

----------------------------------------------------------------------------
\* Cloudflare's record.

DnsDue == ip # 0 /\ ip # synced /\ ~dnsWait /\ Assoc /\ clock

\* The PATCH: applied and answered, refused, or applied with its answer lost.
DnsSync ==
    /\ DnsDue /\ dnsWait' = TRUE
    /\ \/ Quietly /\ record' = ip /\ synced' = ip /\ lost' = FALSE /\ fails' = 0
       \/ Happens("faults") /\ UNCHANGED <<record, synced, lost, fails>>
       \/ Happens("faults") /\ record' = ip /\ lost' = TRUE /\ UNCHANGED <<synced, fails>>
    /\ UNCHANGED <<addr, clockVars, relayVars, checkVars, nameVars>>

DnsRetry == dnsWait /\ dnsWait' = FALSE /\ Quietly /\ UNCHANGED <<addr, clockVars, relayVars, checkVars, nameVars, record, synced, lost>>

\* Another record was set up on the panel.
Resync ==
    /\ Happens("owner") /\ clock /\ record' = 0 /\ synced' = 0 /\ dnsWait' = FALSE /\ lost' = FALSE
    /\ UNCHANGED <<addr, clockVars, relayVars, checkVars, nameVars>>

=============================================================================
