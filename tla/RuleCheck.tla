------------------------------ MODULE RuleCheck ------------------------------
(***************************************************************************)
(* The firewall's decision about a packet: the rules and caches of         *)
(* MyVpnService and the order in which handle_ip (ip.c) consults them.     *)
(*                                                                         *)
(* The database belongs to the Flutter app, which edits it at any time.    *)
(* The rules of the apps are read when the tunnel starts (startNative);    *)
(* the global blacklist is asked for each unknown name or address, and the *)
(* answers are kept in maps.  All callbacks run on the tunnel thread, the  *)
(* maps are refilled while that thread is stopped: a decision is one step. *)
(*                                                                         *)
(* An IPKey compares version, protocol, address and port of the            *)
(* destination and the uid, not the source: it is abstracted to uid,       *)
(* address and service.  Names are the ones cleanDomain returns.           *)
(***************************************************************************)
EXTENDS Naturals, Sequences

CONSTANTS
  Uids,         \* uids of the filtered packages
  Unknown,      \* uid -1: the owner of the packet was not found
  Self,         \* uid of the firewall itself
  Senders,      \* the uids packets and DNS answers come from
  Ips, Hosts,   \* targets of rules
  Services,     \* protocol and destination port: "quic" (UDP 443) or one of TCP
  NoName,       \* no server name, no known domain
  RuleConfigs,  \* the app rules the database may hold
  Settings,     \* the application settings it may hold
  Globals,      \* the global blacklists it may hold
  ObserveOnly,  \* BOOLEAN: traffic is only observed
  MaxEdits      \* bound: edits of the database

Targets == Ips \cup Hosts

DNS == "dns"  \* in seen: a name learnt from a DNS answer

\* The active rules of one package, merged as getPackageRule merges its rows.
RuleConfig == [white : SUBSET Targets, black : SUBSET Targets, exclusive : BOOLEAN]

GlobalList == [ips : SUBSET Ips, hosts : SUBSET Hosts]

ASSUME RuleAssumption ==
  /\ Ips \cap Hosts = {}
  /\ NoName \notin Targets
  /\ DNS \notin Services
  /\ Unknown \notin Uids /\ Senders \subseteq Uids \cup {Unknown, Self}
  /\ RuleConfigs \subseteq RuleConfig
  /\ Settings \subseteq [all : SUBSET Uids, quic : SUBSET Uids]
  /\ Globals \subseteq GlobalList
  /\ ObserveOnly \in BOOLEAN /\ MaxEdits \in Nat

VARIABLES
  db,     \* the database, and how often it was edited
  svc,    \* the maps of MyVpnService
  seen,   \* what the service could have learnt since it was started
  last    \* the packet in handle_ip and the decision about it, or NoName

vars == <<db, svc, seen, last>>

Owners == Uids \cup {Unknown, Self}
Names == Hosts \cup {NoName}

(***************************************************************************)
(* Reading the rules.                                                      *)
(***************************************************************************)

\* Mutant: the blacklist comes first.
getPackageRule_blacklist_first(c) ==
  (IF c.black # {} /\ (c.white = {} \/ ~c.exclusive)
   THEN <<[type |-> "BLACKLIST", targets |-> c.black, exclusive |-> FALSE]>>
   ELSE <<>>) \o
  (IF c.white # {}
   THEN <<[type |-> "WHITELIST", targets |-> c.white, exclusive |-> c.exclusive]>>
   ELSE <<>>)

\* The whitelist if it has targets, then the blacklist unless the whitelist is
\* exclusive.
getPackageRule(c) ==
  (IF c.white # {}
   THEN <<[type |-> "WHITELIST", targets |-> c.white, exclusive |-> c.exclusive]>>
   ELSE <<>>) \o
  (IF c.black # {} /\ (c.white = {} \/ ~c.exclusive)
   THEN <<[type |-> "BLACKLIST", targets |-> c.black, exclusive |-> FALSE]>>
   ELSE <<>>)

\* Mutant: a whitelist is never exclusive.
RuleSays_not_exclusive(rule, v, values) ==
  IF rule.targets \cap values = {} THEN "next"
  ELSE IF rule.type = "BLACKLIST" THEN IF v \in rule.targets THEN "block" ELSE "pass"
  ELSE IF v \in rule.targets THEN "finish"
  ELSE "next"

\* What one rule says of a value; values are the targets of the value's kind.
\* "finish" is a whitelisted target, "block" ends the check too.
RuleSays(rule, v, values) ==
  IF rule.targets \cap values = {} THEN "next"
  ELSE IF rule.type = "BLACKLIST" THEN IF v \in rule.targets THEN "block" ELSE "pass"
  ELSE IF v \in rule.targets THEN "finish"
  ELSE IF rule.exclusive THEN "block"
  ELSE "next"

\* The first rule that decides; "pass" leaves the decision to other checks.
blockedByRule(rules, v, values) ==
  LET says == [i \in DOMAIN rules |-> RuleSays(rules[i], v, values)]
      deciding == {i \in DOMAIN rules : says[i] # "next"}
  IN  IF deciding = {} THEN "pass"
      ELSE says[CHOOSE i \in deciding : \A j \in deciding : i <= j]

RulesOf(uid) == IF uid \in Uids THEN svc.rules[uid] ELSE <<>>

(***************************************************************************)
(* Names.                                                                  *)
(***************************************************************************)

\* Mutant: the name of whichever app resolved the address last.
getDomainName_any_app(s, uid, ip, service) ==
  IF s.sni[<<uid, ip, service>>] # NoName THEN s.sni[<<uid, ip, service>>]
  ELSE s.domain[<<Unknown, ip>>]

\* The server name of the app's last connection to the service, its own DNS answer, anyone's.
getDomainName(s, uid, ip, service) ==
  IF s.sni[<<uid, ip, service>>] # NoName THEN s.sni[<<uid, ip, service>>]
  ELSE IF s.domain[<<uid, ip>>] # NoName THEN s.domain[<<uid, ip>>]
  ELSE s.domain[<<Unknown, ip>>]

\* The names shown, the last one by each owner, address and source.
Shown(uid, ip, source, name) ==
  {n \in seen.names : <<n[1], n[2], n[3]>> # <<uid, ip, source>>}
    \cup {<<uid, ip, source, name>>}

\* A DNS answer for one of the owners is also the fallback for all of them.
dnsResolved(uid, ip, name) ==
  /\ last = NoName
  /\ svc' = [svc EXCEPT !.domain[<<uid, ip>>] = name, !.domain[<<Unknown, ip>>] = name]
  /\ seen' = [seen EXCEPT !.names = Shown(uid, ip, DNS, name)]
  /\ UNCHANGED <<db, last>>

sniResolved(s, uid, ip, service, name) ==
  IF name = NoName THEN s ELSE [s EXCEPT !.sni[<<uid, ip, service>>] = name]

(***************************************************************************)
(* The global blacklist.  ok: the query succeeded; one that fails answers  *)
(* "not listed".                                                           *)
(***************************************************************************)
\* The table consulted is the one of the addresses.
HostAsked(s, h) == h \notin DOMAIN s.ips

hostBlockedGlobally(s, h, ok) ==
  IF HostAsked(s, h) THEN ok /\ h \in db.global.hosts
  ELSE h \in DOMAIN s.hosts /\ s.hosts[h]

ipBlockedGlobally(s, ip, ok) ==
  IF ip \in DOMAIN s.ips THEN s.ips[ip] ELSE ok /\ ip \in db.global.ips

Remember(map, key, value) ==
  [k \in DOMAIN map \cup {key} |-> IF k = key THEN value ELSE map[k]]

(***************************************************************************)
(* isDomainBlocked and isAddressAllowed.                                   *)
(***************************************************************************)
DomainReachesGlobal(s, uid, h) ==
  uid \notin s.all /\ blockedByRule(RulesOf(uid), h, Hosts) = "pass"

isDomainBlocked(s, uid, h, ok) ==
  \/ uid \in s.all
  \/ blockedByRule(RulesOf(uid), h, Hosts) = "block"
  \/ DomainReachesGlobal(s, uid, h) /\ hostBlockedGlobally(s, h, ok)

\* The maps after isDomainBlocked.
DomainCached(s, uid, h, ok) ==
  IF DomainReachesGlobal(s, uid, h) /\ HostAsked(s, h)
  THEN [s EXCEPT !.hosts = Remember(@, h, hostBlockedGlobally(s, h, ok))]
  ELSE s

AddressReachesNames(s, uid, ip) ==
  /\ uid \notin s.all /\ uid # Self
  /\ blockedByRule(RulesOf(uid), ip, Ips) = "pass"

NameBlocked(s, uid, ip, service, ok) ==
  LET name == getDomainName(s, uid, ip, service)
  IN  name # NoName /\ isDomainBlocked(s, uid, name, ok)

\* A rule that ends the check returns its "blocked" as "allowed".
isAddressAllowed(s, uid, ip, service, ok) ==
  CASE uid \in s.all -> FALSE
    [] uid \notin s.all /\ uid = Self -> TRUE
    [] AddressReachesNames(s, uid, ip) ->
         ~NameBlocked(s, uid, ip, service, "host" \in ok) /\ ~ipBlockedGlobally(s, ip, "ip" \in ok)
    [] OTHER -> blockedByRule(RulesOf(uid), ip, Ips) = "block"

\* Mutant: a missing name is looked up too.
AddressCached_blank_name(s, uid, ip, service, ok) ==
  LET named == DomainCached(s, uid, getDomainName(s, uid, ip, service), "host" \in ok)
  IN  IF ~AddressReachesNames(s, uid, ip) THEN s
      ELSE IF NameBlocked(s, uid, ip, service, "host" \in ok) THEN named
      ELSE [named EXCEPT !.ips = Remember(@, ip, ipBlockedGlobally(s, ip, "ip" \in ok))]

\* The maps after isAddressAllowed.
AddressCached(s, uid, ip, service, ok) ==
  LET name == getDomainName(s, uid, ip, service)
      named == IF name = NoName THEN s ELSE DomainCached(s, uid, name, "host" \in ok)
  IN  IF ~AddressReachesNames(s, uid, ip) THEN s
      ELSE IF NameBlocked(s, uid, ip, service, "host" \in ok) THEN named
      ELSE [named EXCEPT !.ips = Remember(@, ip, ipBlockedGlobally(s, ip, "ip" \in ok))]

(***************************************************************************)
(* handle_ip: the decision about an outgoing packet.                       *)
(***************************************************************************)
Queries == {"ip", "host", "sni"}

isQuicBlocked(uid) == uid \in svc.quic

DropQuic(uid, ip) ==
  /\ last = NoName /\ "quic" \in Services /\ isQuicBlocked(uid)
  /\ last' = [uid |-> uid, ip |-> ip, service |-> "quic", sni |-> NoName, name |-> NoName,
              rule |-> "pass", failed |-> {},
              allowed |-> FALSE, passed |-> FALSE]
  /\ UNCHANGED <<db, svc, seen>>

\* The queries a packet may lead to: what no rule decides and no table answers.
QueriesMade(s, uid, ip, service, sni) ==
  LET name == getDomainName(s, uid, ip, service)
      Asked(h) == h # NoName /\ DomainReachesGlobal(s, uid, h) /\ HostAsked(s, h)
  IN  {q \in Queries :
         \/ q = "ip" /\ AddressReachesNames(s, uid, ip) /\ ip \notin DOMAIN s.ips
         \/ q = "host" /\ AddressReachesNames(s, uid, ip) /\ Asked(name)
         \/ q = "sni" /\ Asked(sni)}

\* sni is the server name of a TLS hello; any of the queries may fail.
CheckPacket(uid, ip, sni, service) ==
  /\ last = NoName /\ ~(service = "quic" /\ isQuicBlocked(uid))
  /\ service = "quic" => sni = NoName
  /\ LET s    == sniResolved(svc, uid, ip, service, sni)
         name == getDomainName(s, uid, ip, service)
         rule == blockedByRule(RulesOf(uid), ip, Ips)
     IN  \E failed \in SUBSET QueriesMade(s, uid, ip, service, sni) :
           LET ok      == Queries \ failed
               address == isAddressAllowed(s, uid, ip, service, ok)
               a       == AddressCached(s, uid, ip, service, ok)
               again   == address /\ sni # NoName
               allowed == address /\ ~(again /\ isDomainBlocked(a, uid, sni, "sni" \in ok))
           IN  /\ svc' = IF again THEN DomainCached(a, uid, sni, "sni" \in ok) ELSE a
               /\ seen' = [seen EXCEPT
                    !.names = IF sni = NoName THEN @ ELSE Shown(uid, ip, service, sni),
                    !.answers = IF "ip" \in ok THEN @ ELSE @ \cup {<<ip, FALSE>>}]
               /\ last' = [uid |-> uid, ip |-> ip, service |-> service, sni |-> sni,
                           name |-> name, rule |-> rule, failed |-> failed,
                           allowed |-> allowed, passed |-> allowed \/ ObserveOnly]
  /\ UNCHANGED db

\* The packet is dispatched or dropped, and the next one read.
Dispatch ==
  /\ last # NoName
  /\ last' = NoName
  /\ UNCHANGED <<db, svc, seen>>

(***************************************************************************)
(* The tunnel's start.                                                     *)
(***************************************************************************)
NoAnswers == [k \in {} |-> FALSE]

NoDomains == [k \in Owners \X Ips |-> NoName]

NoServerNames == [k \in Owners \X Ips \X Services |-> NoName]

\* Mutant: the answers about addresses stay.
prepareGlobalRules_keeps(s) == [s EXCEPT !.hosts = NoAnswers]

prepareGlobalRules(s) == [s EXCEPT !.hosts = NoAnswers, !.ips = NoAnswers]

prepareCacheMaps(s) == [s EXCEPT !.sni = NoServerNames, !.domain = NoDomains]

preparePackageRules(s) ==
  [s EXCEPT !.rules = [u \in Uids |-> getPackageRule(db.rules[u])]]

prepareApplicationSettings(s) == [s EXCEPT !.all = db.all, !.quic = db.quic]

\* The answers the global blacklist can give from now on.
AnswersOf(global) == {<<i, i \in global.ips>> : i \in Ips}

startNative ==
  /\ last = NoName
  /\ svc' = prepareApplicationSettings(preparePackageRules(
              prepareGlobalRules(prepareCacheMaps(svc))))
  /\ seen' = [loaded |-> db, names |-> {}, answers |-> AnswersOf(db.global)]
  /\ UNCHANGED <<db, last>>

\* The Flutter app writes the database (external): the rules of one app, or the
\* global blacklist.
EditDatabase ==
  /\ last = NoName /\ db.edits < MaxEdits
  /\ \/ /\ \E u \in Uids : \E c \in RuleConfigs \ {db.rules[u]} :
             db' = [db EXCEPT !.rules[u] = c, !.edits = @ + 1]
        /\ UNCHANGED seen
     \/ \E g \in Globals \ {db.global} :
          /\ db' = [db EXCEPT !.global = g, !.edits = @ + 1]
          /\ seen' = [seen EXCEPT !.answers = @ \cup AnswersOf(g)]
  /\ UNCHANGED <<svc, last>>

Databases ==
  {[rules |-> r, all |-> set.all, quic |-> set.quic, global |-> g, edits |-> 0] :
     r \in [Uids -> RuleConfigs], set \in Settings, g \in Globals}

Init ==
  /\ db \in Databases
  /\ svc = [rules |-> [u \in Uids |-> getPackageRule(db.rules[u])],
            all |-> db.all, quic |-> db.quic, hosts |-> NoAnswers, ips |-> NoAnswers,
            domain |-> NoDomains, sni |-> NoServerNames]
  /\ seen = [loaded |-> db, names |-> {}, answers |-> AnswersOf(db.global)]
  /\ last = NoName

Next ==
  \/ \E uid \in Senders, ip \in Ips, name \in Hosts : dnsResolved(uid, ip, name)
  \/ \E uid \in Senders, ip \in Ips : DropQuic(uid, ip)
  \/ \E uid \in Senders, ip \in Ips, sni \in Names, service \in Services :
       CheckPacket(uid, ip, sni, service)
  \/ Dispatch
  \/ startNative
  \/ EditDatabase

Spec == Init /\ [][Next]_vars

-----------------------------------------------------------------------------
(***************************************************************************)
(* Properties.                                                             *)
(***************************************************************************)
Rule == [type : {"WHITELIST", "BLACKLIST"}, targets : SUBSET Targets,
         exclusive : BOOLEAN]

AnswerMap(map, keys) ==
  DOMAIN map \subseteq keys /\ \A k \in DOMAIN map : map[k] \in BOOLEAN

Decision ==
  [uid : Owners, ip : Ips, service : Services, sni : Names, name : Names,
   rule : {"pass", "finish", "block"}, failed : SUBSET Queries,
   allowed : BOOLEAN, passed : BOOLEAN]

\* Types of the maps and of the decision.
TypeOK ==
  /\ svc.rules \in [Uids -> Seq(Rule)]
  /\ svc.all \subseteq Uids /\ svc.quic \subseteq Uids
  /\ AnswerMap(svc.hosts, Hosts) /\ AnswerMap(svc.ips, Ips)
  /\ svc.domain \in [Owners \X Ips -> Names]
  /\ svc.sni \in [Owners \X Ips \X Services -> Names]
  /\ last \in Decision \cup {NoName}

Decided == last # NoName

\* What the lists of the database, as they were when the tunnel started, mean
\* for a name: the whitelist has precedence, an exclusive one replaces the
\* blacklist and forbids every other name, and the global list comes last.
HostForbidden(uid, h) ==
  LET c == IF uid \in Uids THEN seen.loaded.rules[uid]
           ELSE [white |-> {}, black |-> {}, exclusive |-> FALSE]
      replaced == c.white # {} /\ c.exclusive
  IN  \/ uid \in seen.loaded.all
      \/ /\ h \notin c.white
         /\ \/ c.exclusive /\ c.white \cap Hosts # {}
            \/ ~replaced /\ h \in c.black
            \/ h \in db.global.hosts

\* A packet that names its server passes only if the lists do not forbid the
\* name: the second check in handle_ip holds whatever the address check said.
ForbiddenNameBlocked ==
  Decided /\ ~ObserveOnly =>
    (last.passed /\ last.sni # NoName /\ "sni" \notin last.failed
       => ~HostForbidden(last.uid, last.sni))

\* The app's lists name no address, and no list answers for this one.
NamesDecide ==
  /\ last.rule = "pass" /\ last.uid # Self
  /\ ~(last.ip \in DOMAIN svc.ips /\ svc.ips[last.ip])

\* Then the name alone decides, both ways: neither the order of the rules in
\* the list, nor an earlier answer in a cache, changes the verdict.
NameDecides ==
  Decided => (NamesDecide /\ last.sni # NoName /\ last.failed = {}
                => (last.allowed <=> ~HostForbidden(last.uid, last.sni)))

\* A cached answer about an address is one the database (or a failed query)
\* could give since the tunnel was last started: a restart drops older ones.
CachedAnswerCurrent ==
  \A i \in DOMAIN svc.ips : <<i, svc.ips[i]>> \in seen.answers

\* A verdict uses the name the app itself showed last, to this service or in a
\* DNS answer, if it showed one since the start; otherwise one another app
\* resolved last, never an older one.
NameOfTheApp ==
  Decided /\ last.uid # Unknown /\ last.name # NoName =>
    LET own == {n \in seen.names : n[1] = last.uid /\ n[3] \in {DNS, last.service}
                                    /\ n[2] = last.ip}
        other == {n \in seen.names : n[3] = DNS}
    IN  \E n \in IF own # {} THEN own ELSE other :
          n[2] = last.ip /\ n[4] = last.name

\* A rule that ends the check decides it: blocked is not allowed, and a
\* whitelisted address is allowed.
RuleObeyed ==
  Decided /\ last.sni = NoName /\ last.uid \notin seen.loaded.all \cup {Self} =>
    /\ last.rule = "block" => ~last.allowed
    /\ last.rule = "finish" => last.allowed

=============================================================================
