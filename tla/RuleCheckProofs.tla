--------------------------- MODULE RuleCheckProofs ---------------------------
(***************************************************************************)
(* The firewall's decision: what the lists of an app mean, which names and *)
(* answers the service may use, and that a forbidden name does not pass,   *)
(* for every set of apps, addresses, names, rules and blacklists.          *)
(***************************************************************************)
EXTENDS RuleCheck, TLAPS

(***************************************************************************)
(* The meaning of the rules of one package.                                *)
(***************************************************************************)
Replaced(c) == c.white # {} /\ c.exclusive

Meaning(c, v, values) ==
  IF v \in c.white THEN "finish"
  ELSE IF (c.exclusive /\ c.white \cap values # {}) \/ (~Replaced(c) /\ v \in c.black)
       THEN "block" ELSE "pass"

NoRules == [white |-> {}, black |-> {}, exclusive |-> FALSE]

\* A list without rules decides nothing.
LEMMA NoRule ==
  ASSUME NEW v, NEW V
  PROVE  blockedByRule(<<>>, v, V) = "pass"
<1>1. DOMAIN <<>> = {}
  OBVIOUS
<1>2. {i \in DOMAIN <<>> : [j \in DOMAIN <<>> |-> RuleSays(<<>>[j], v, V)][i] # "next"} = {}
  BY <1>1
<1>3. QED
  BY <1>2 DEF blockedByRule

\* One rule decides alone.
LEMMA OneRule ==
  ASSUME NEW x, NEW v, NEW V
  PROVE  blockedByRule(<<x>>, v, V)
           = IF RuleSays(x, v, V) = "next" THEN "pass" ELSE RuleSays(x, v, V)
<1> DEFINE rules == <<x>>
           a == RuleSays(x, v, V)
           says == [i \in DOMAIN rules |-> RuleSays(rules[i], v, V)]
           deciding == {i \in DOMAIN rules : says[i] # "next"}
           first == CHOOSE i \in deciding : \A j \in deciding : i <= j
<1>1. DOMAIN rules = {1} /\ says[1] = a
  OBVIOUS
<1>2. blockedByRule(rules, v, V) = IF deciding = {} THEN "pass" ELSE says[first]
  BY DEF blockedByRule
<1>3. deciding = IF a = "next" THEN {} ELSE {1}
  BY <1>1
<1> HIDE DEF rules, says, deciding, a
<1>4. CASE a = "next"
  BY <1>2, <1>3, <1>4 DEF rules, a
<1>5. CASE a # "next"
  <2>1. deciding = {1}
    BY <1>3, <1>5
  <2>2. first = 1
    BY <2>1
  <2>3. QED
    BY <1>1, <1>2, <1>5, <2>1, <2>2 DEF rules, a
<1>6. QED
  BY <1>4, <1>5

\* Of two rules the first decides unless it says nothing.
LEMMA TwoRules ==
  ASSUME NEW rules, NEW x, NEW y, NEW v, NEW V,
         DOMAIN rules = {1, 2}, rules[1] = x, rules[2] = y
  PROVE  blockedByRule(rules, v, V)
           = IF RuleSays(x, v, V) # "next" THEN RuleSays(x, v, V)
             ELSE IF RuleSays(y, v, V) = "next" THEN "pass" ELSE RuleSays(y, v, V)
<1> DEFINE a == RuleSays(x, v, V)
           b == RuleSays(y, v, V)
           says == [i \in DOMAIN rules |-> RuleSays(rules[i], v, V)]
           deciding == {i \in DOMAIN rules : says[i] # "next"}
           first == CHOOSE i \in deciding : \A j \in deciding : i <= j
<1>1. DOMAIN rules = {1, 2} /\ says[1] = a /\ says[2] = b
  OBVIOUS
<1>2. blockedByRule(rules, v, V) = IF deciding = {} THEN "pass" ELSE says[first]
  BY DEF blockedByRule
<1>3. deciding = {i \in {1, 2} : (i = 1 /\ a # "next") \/ (i = 2 /\ b # "next")}
  BY <1>1
<1> HIDE DEF says, deciding, a, b
<1>4. CASE a # "next"
  <2>1. 1 \in deciding /\ \A j \in deciding : j \in {1, 2}
    BY <1>3, <1>4
  <2>2. first \in deciding /\ \A j \in deciding : first <= j
    BY <2>1
  <2>3. first = 1
    BY <2>1, <2>2
  <2>4. QED
    BY <1>1, <1>2, <1>4, <2>1, <2>3 DEF a, b
<1>5. CASE a = "next" /\ b # "next"
  <2>1. deciding = {2}
    BY <1>3, <1>5
  <2>2. first = 2
    BY <2>1
  <2>3. QED
    BY <1>1, <1>2, <1>5, <2>1, <2>2 DEF a, b
<1>6. CASE a = "next" /\ b = "next"
  <2>1. deciding = {}
    BY <1>3, <1>6
  <2>2. QED
    BY <1>2, <1>6, <2>1 DEF a, b
<1>7. QED
  BY <1>4, <1>5, <1>6

\* getPackageRule and blockedByRule give the lists their meaning: the whitelist
\* has precedence, and an exclusive one replaces the blacklist.
LEMMA RuleMeaning ==
  ASSUME NEW c \in RuleConfig, NEW V, NEW v \in V
  PROVE  blockedByRule(getPackageRule(c), v, V) = Meaning(c, v, V)
<1> DEFINE w == [type |-> "WHITELIST", targets |-> c.white, exclusive |-> c.exclusive]
           b == [type |-> "BLACKLIST", targets |-> c.black, exclusive |-> FALSE]
           W == RuleSays(w, v, V)
           B == RuleSays(b, v, V)
<1>1. c.exclusive \in BOOLEAN
  BY DEF RuleConfig
<1>2. W = IF v \in c.white THEN "finish"
          ELSE IF c.exclusive /\ c.white \cap V # {} THEN "block" ELSE "next"
  <2>1. w.type # "BLACKLIST" /\ w.targets = c.white /\ w.exclusive = c.exclusive
    OBVIOUS
  <2> HIDE DEF w
  <2>2. QED
    BY <1>1, <2>1 DEF RuleSays
<1>3. B = IF c.black \cap V = {} THEN "next" ELSE IF v \in c.black THEN "block" ELSE "pass"
  <2>1. b.type = "BLACKLIST" /\ b.targets = c.black
    OBVIOUS
  <2> HIDE DEF b
  <2>2. QED
    BY <2>1 DEF RuleSays
<1>4. getPackageRule(c) = (IF c.white # {} THEN <<w>> ELSE <<>>) \o
        (IF c.black # {} /\ (c.white = {} \/ ~c.exclusive) THEN <<b>> ELSE <<>>)
  BY DEF getPackageRule
<1> HIDE DEF w, b
<1>5. <<>> \o <<>> = <<>> /\ <<w>> \o <<>> = <<w>> /\ <<>> \o <<b>> = <<b>>
  <2>1. <<>> \o <<>> = <<>>
    OBVIOUS
  <2>2. <<w>> \o <<>> = <<w>>
    OBVIOUS
  <2>3. <<>> \o <<b>> = <<b>>
    OBVIOUS
  <2>4. QED
    BY <2>1, <2>2, <2>3
<1>6. CASE c.white = {} /\ c.black = {}
  <2>1. getPackageRule(c) = <<>>
    BY <1>4, <1>5, <1>6
  <2>2. QED
    BY <1>6, <2>1, NoRule DEF Meaning, Replaced
<1>7. CASE c.white = {} /\ c.black # {}
  <2>1. getPackageRule(c) = <<b>>
    BY <1>4, <1>5, <1>7
  <2>2. blockedByRule(<<b>>, v, V) = IF B = "next" THEN "pass" ELSE B
    BY OneRule
  <2> HIDE DEF B
  <2>3. QED
    BY <1>3, <1>7, <2>1, <2>2 DEF Meaning, Replaced
<1>8. CASE c.white # {} /\ (c.black = {} \/ c.exclusive)
  <2>1. getPackageRule(c) = <<w>>
    BY <1>4, <1>5, <1>8
  <2>2. blockedByRule(<<w>>, v, V) = IF W = "next" THEN "pass" ELSE W
    BY OneRule
  <2> HIDE DEF W
  <2>3. QED
    BY <1>2, <1>8, <2>1, <2>2 DEF Meaning, Replaced
<1>9. CASE c.white # {} /\ c.black # {} /\ ~c.exclusive
  <2> DEFINE both == <<w>> \o <<b>>
  <2>1. getPackageRule(c) = both
    BY <1>4, <1>9
  <2>4. both \in Seq({w, b}) /\ Len(both) = 2 /\ both[1] = w /\ both[2] = b
    OBVIOUS
  <2> HIDE DEF both
  <2>5. DOMAIN both = {1, 2}
    <3>1. DOMAIN both = 1..2
      BY <2>4
    <3>2. QED
      BY <3>1
  <2>2. blockedByRule(both, v, V) = IF W # "next" THEN W ELSE IF B = "next" THEN "pass" ELSE B
    BY <2>4, <2>5, TwoRules
  <2> HIDE DEF W, B
  <2>3. QED
    BY <1>2, <1>3, <1>9, <2>1, <2>2 DEF Meaning, Replaced
<1>10. QED
  BY <1>1, <1>6, <1>7, <1>8, <1>9

\* The rules of a package are rules.
LEMMA RulesTyped ==
  ASSUME NEW c \in RuleConfig
  PROVE  getPackageRule(c) \in Seq(Rule)
<1> DEFINE w == [type |-> "WHITELIST", targets |-> c.white, exclusive |-> c.exclusive]
           b == [type |-> "BLACKLIST", targets |-> c.black, exclusive |-> FALSE]
<1>1. w \in Rule /\ b \in Rule
  BY DEF RuleConfig, Rule
<1>2. getPackageRule(c) = (IF c.white # {} THEN <<w>> ELSE <<>>) \o
        (IF c.black # {} /\ (c.white = {} \/ ~c.exclusive) THEN <<b>> ELSE <<>>)
  BY DEF getPackageRule
<1> HIDE DEF w, b
<1> DEFINE x == IF c.white # {} THEN <<w>> ELSE <<>>
           y == IF c.black # {} /\ (c.white = {} \/ ~c.exclusive) THEN <<b>> ELSE <<>>
<1>3. x \in Seq(Rule) /\ y \in Seq(Rule)
  BY <1>1
<1> HIDE DEF x, y
<1>4. QED
  BY <1>2, <1>3 DEF x, y

(***************************************************************************)
(* The inductive invariant.                                                *)
(***************************************************************************)
Maps(K) == UNION {[D -> BOOLEAN] : D \in SUBSET K}

SvcType ==
  [rules : [Uids -> Seq(Rule)], all : SUBSET Uids, quic : SUBSET Uids,
   hosts : Maps(Hosts), ips : Maps(Ips),
   domain : [Owners \X Ips -> Names], sni : [Owners \X Ips \X Services -> Names]]

DbType ==
  [rules : [Uids -> RuleConfig], all : SUBSET Uids, quic : SUBSET Uids,
   global : GlobalList, edits : Nat]

Sources == Services \cup {DNS}
SeenType ==
  [loaded : DbType, names : SUBSET (Owners \X Ips \X Sources \X Hosts),
   answers : SUBSET (Ips \X BOOLEAN)]

Typed ==
  /\ db \in DbType /\ svc \in SvcType /\ seen \in SeenType
  /\ last \in Decision \cup {NoName}

\* The rules are the ones of the database the tunnel was started with.
Loaded ==
  /\ svc.all = seen.loaded.all
  /\ \A u \in Uids : svc.rules[u] = getPackageRule(seen.loaded.rules[u])

\* The names in the maps are the last ones shown, and none shown is missing.
NamesShown ==
  /\ \A u \in Owners, i \in Ips, v \in Services :
       svc.sni[<<u, i, v>>] # NoName => <<u, i, v, svc.sni[<<u, i, v>>]>> \in seen.names
  /\ \A u \in Owners, i \in Ips :
       u # Unknown /\ svc.domain[<<u, i>>] # NoName => <<u, i, DNS, svc.domain[<<u, i>>]>> \in seen.names
  /\ \A i \in Ips :
       svc.domain[<<Unknown, i>>] # NoName =>
         \E u \in Owners : <<u, i, DNS, svc.domain[<<Unknown, i>>]>> \in seen.names
  /\ \A u \in Owners, i \in Ips, v \in Services, h \in Hosts :
       <<u, i, v, h>> \in seen.names => svc.sni[<<u, i, v>>] # NoName
  /\ \A u \in Owners, i \in Ips, h \in Hosts :
       <<u, i, DNS, h>> \in seen.names => svc.domain[<<u, i>>] # NoName

AnswersSeen ==
  /\ AnswersOf(db.global) \subseteq seen.answers
  /\ CachedAnswerCurrent

RuleInv == Typed /\ Loaded /\ NamesShown /\ AnswersSeen

\* Names, addresses and owners.
LEMMA NameFacts ==
  /\ NoName \notin Hosts /\ NoName \notin Ips /\ \A h \in Hosts : h \notin Ips /\ h \in Names
  /\ NoName \in Names /\ \A n \in Names : n # NoName => n \in Hosts
  /\ Senders \subseteq Owners /\ Unknown \in Owners /\ DNS \notin Services
  BY RuleAssumption DEF Names, Owners, Targets

\* A map of answers with one more.
LEMMA RememberFacts ==
  ASSUME NEW K, NEW m \in Maps(K), NEW k \in K, NEW b \in BOOLEAN
  PROVE  LET r == Remember(m, k, b)
         IN  /\ r \in Maps(K) /\ DOMAIN r = DOMAIN m \cup {k} /\ r[k] = b
             /\ \A x \in DOMAIN m : x # k => r[x] = m[x]
<1> DEFINE r == Remember(m, k, b)
           D == DOMAIN m \cup {k}
<1>1. DOMAIN m \subseteq K /\ \A x \in DOMAIN m : m[x] \in BOOLEAN
  BY DEF Maps
<1>2. r = [x \in D |-> IF x = k THEN b ELSE m[x]]
  BY DEF Remember
<1>3. r \in [D -> BOOLEAN] /\ D \in SUBSET K
  BY <1>1, <1>2
<1>4. QED
  BY <1>2, <1>3 DEF Maps

\* What a name server or a TLS hello does not touch.
Same(s, r) ==
  r.rules = s.rules /\ r.all = s.all /\ r.quic = s.quic /\ r.domain = s.domain

\* The maps after a server name was seen.
LEMMA SniFacts ==
  ASSUME NEW s \in SvcType, NEW u \in Owners, NEW i \in Ips, NEW v \in Services,
         NEW n \in Names
  PROVE  LET r == sniResolved(s, u, i, v, n)
         IN  /\ r \in SvcType /\ Same(s, r) /\ r.hosts = s.hosts /\ r.ips = s.ips
             /\ n # NoName => r.sni[<<u, i, v>>] = n
             /\ n = NoName => r.sni = s.sni
             /\ \A a \in Owners, b \in Ips, c \in Services :
                  <<a, b, c>> # <<u, i, v>> => r.sni[<<a, b, c>>] = s.sni[<<a, b, c>>]
<1>1. CASE n = NoName
  <2>1. sniResolved(s, u, i, v, n) = s
    BY <1>1 DEF sniResolved
  <2>2. QED
    BY <1>1, <2>1 DEF Same
<1>2. CASE n # NoName
  <2> DEFINE g == [s.sni EXCEPT ![<<u, i, v>>] = n]
             r == [s EXCEPT !.sni = g]
  <2>1. sniResolved(s, u, i, v, n) = r
    BY <1>2 DEF sniResolved
  <2>2. s.sni \in [Owners \X Ips \X Services -> Names]
    BY DEF SvcType
  <2>3. g \in [Owners \X Ips \X Services -> Names] /\ g[<<u, i, v>>] = n
    BY <2>2
  <2>4. \A a \in Owners, b \in Ips, c \in Services :
          <<a, b, c>> # <<u, i, v>> => g[<<a, b, c>>] = s.sni[<<a, b, c>>]
    BY <2>2
  <2> HIDE DEF g
  <2>5. /\ r \in SvcType /\ r.rules = s.rules /\ r.all = s.all /\ r.quic = s.quic
        /\ r.domain = s.domain /\ r.hosts = s.hosts /\ r.ips = s.ips /\ r.sni = g
    BY <2>3 DEF SvcType
  <2> HIDE DEF r
  <2>6. QED
    BY <1>2, <2>1, <2>3, <2>4, <2>5 DEF Same
<1>3. QED
  BY <1>1, <1>2

\* The maps after the global blacklist was asked for a name.
LEMMA DomainFacts ==
  ASSUME NEW s \in SvcType, NEW u \in Owners, NEW h \in Hosts, NEW ok \in BOOLEAN
  PROVE  LET r == DomainCached(s, u, h, ok)
         IN  r \in SvcType /\ Same(s, r) /\ r.ips = s.ips /\ r.sni = s.sni
<1> DEFINE b == hostBlockedGlobally(s, h, ok)
           m == Remember(s.hosts, h, b)
           r == [s EXCEPT !.hosts = m]
<1>1. DomainCached(s, u, h, ok) = s \/ DomainCached(s, u, h, ok) = r
  BY DEF DomainCached
<1>2. s.hosts \in Maps(Hosts)
  BY DEF SvcType
<1>3. b \in BOOLEAN
  <2>1. \A x \in DOMAIN s.hosts : s.hosts[x] \in BOOLEAN
    BY <1>2 DEF Maps
  <2>2. QED
    BY <2>1 DEF hostBlockedGlobally
<1> HIDE DEF b
<1>4. m \in Maps(Hosts)
  BY <1>2, <1>3, RememberFacts
<1> HIDE DEF m
<1>5. /\ r \in SvcType /\ r.rules = s.rules /\ r.all = s.all /\ r.quic = s.quic
      /\ r.domain = s.domain /\ r.ips = s.ips /\ r.sni = s.sni
  BY <1>4 DEF SvcType
<1> HIDE DEF r
<1>6. QED
  BY <1>1, <1>5 DEF Same

\* The maps after the address was checked.
LEMMA AddressFacts ==
  ASSUME NEW s \in SvcType, NEW u \in Owners, NEW i \in Ips, NEW v \in Services,
         NEW ok \in SUBSET Queries
  PROVE  LET r == AddressCached(s, u, i, v, ok)
             b == ipBlockedGlobally(s, i, "ip" \in ok)
         IN  /\ r \in SvcType /\ Same(s, r) /\ r.sni = s.sni /\ b \in BOOLEAN
             /\ r.ips = s.ips \/ r.ips = Remember(s.ips, i, b)
             /\ AddressReachesNames(s, u, i) /\ ~NameBlocked(s, u, i, v, "host" \in ok)
                  => r.ips = Remember(s.ips, i, b)
<1> DEFINE name == getDomainName(s, u, i, v)
           named == IF name = NoName THEN s ELSE DomainCached(s, u, name, "host" \in ok)
           b == ipBlockedGlobally(s, i, "ip" \in ok)
           m == Remember(named.ips, i, b)
           r == [named EXCEPT !.ips = m]
           result == AddressCached(s, u, i, v, ok)
<1>1. result = IF ~AddressReachesNames(s, u, i) THEN s
               ELSE IF NameBlocked(s, u, i, v, "host" \in ok) THEN named ELSE r
  BY DEF AddressCached
<1>2. name \in Names
  <2>1. s.sni[<<u, i, v>>] \in Names /\ s.domain[<<u, i>>] \in Names /\ s.domain[<<Unknown, i>>] \in Names
    BY NameFacts DEF SvcType
  <2>2. QED
    BY <2>1 DEF getDomainName
<1> HIDE DEF name
<1>3. named \in SvcType /\ Same(s, named) /\ named.ips = s.ips /\ named.sni = s.sni
  <2>1. CASE name = NoName
    BY <2>1 DEF Same
  <2>2. CASE name # NoName
    <3>1. name \in Hosts
      BY <1>2, <2>2, NameFacts
    <3> DEFINE k == "host" \in ok
               d == DomainCached(s, u, name, k)
    <3>2. k \in BOOLEAN /\ named = d
      BY <2>2
    <3> HIDE DEF k, named
    <3>3. d \in SvcType /\ Same(s, d) /\ d.ips = s.ips /\ d.sni = s.sni
      BY <3>1, <3>2, DomainFacts
    <3>4. QED
      BY <3>2, <3>3
  <2>3. QED
    BY <2>1, <2>2
<1> HIDE DEF named
<1>4. s.ips \in Maps(Ips)
  BY DEF SvcType
<1>5. b \in BOOLEAN
  <2>1. \A x \in DOMAIN s.ips : s.ips[x] \in BOOLEAN
    BY <1>4 DEF Maps
  <2>2. QED
    BY <2>1 DEF ipBlockedGlobally
<1> HIDE DEF b
<1>6. m \in Maps(Ips) /\ m = Remember(s.ips, i, b)
  BY <1>3, <1>4, <1>5, RememberFacts
<1> HIDE DEF m
<1>7. /\ r \in SvcType /\ r.rules = named.rules /\ r.all = named.all /\ r.quic = named.quic
      /\ r.domain = named.domain /\ r.ips = m /\ r.sni = named.sni
  BY <1>3, <1>6 DEF SvcType
<1> HIDE DEF r
<1>8. /\ result \in SvcType /\ Same(s, result) /\ result.sni = s.sni
      /\ result.ips = s.ips \/ result.ips = Remember(s.ips, i, b)
      /\ AddressReachesNames(s, u, i) /\ ~NameBlocked(s, u, i, v, "host" \in ok)
           => result.ips = Remember(s.ips, i, b)
  <2>1. CASE ~AddressReachesNames(s, u, i)
    BY <1>1, <2>1 DEF Same
  <2>2. CASE AddressReachesNames(s, u, i) /\ NameBlocked(s, u, i, v, "host" \in ok)
    BY <1>1, <1>3, <2>2 DEF Same
  <2>3. CASE AddressReachesNames(s, u, i) /\ ~NameBlocked(s, u, i, v, "host" \in ok)
    BY <1>1, <1>3, <1>6, <1>7, <2>3 DEF Same
  <2>4. QED
    BY <2>1, <2>2, <2>3
<1>9. QED
  BY <1>5, <1>8 DEF b

(***************************************************************************)
(* The decision about a name.                                              *)
(***************************************************************************)
Config(uid) == IF uid \in Uids THEN seen.loaded.rules[uid] ELSE NoRules

\* The rules the service holds mean what the lists say.
LEMMA ServiceMeaning ==
  ASSUME RuleInv, NEW u \in Owners, NEW V, NEW v \in V
  PROVE  /\ blockedByRule(RulesOf(u), v, V) = Meaning(Config(u), v, V)
         /\ blockedByRule(RulesOf(u), v, V) \in {"pass", "finish", "block"}
<1>1. Meaning(Config(u), v, V) \in {"pass", "finish", "block"}
  BY DEF Meaning
<1>2. CASE u \in Uids
  <2>1. seen.loaded.rules[u] \in RuleConfig
    BY <1>2 DEF RuleInv, Typed, SeenType, DbType
  <2>2. RulesOf(u) = getPackageRule(seen.loaded.rules[u]) /\ Config(u) = seen.loaded.rules[u]
    BY <1>2 DEF RulesOf, Config, RuleInv, Loaded
  <2>3. QED
    BY <1>1, <2>1, <2>2, RuleMeaning
<1>3. CASE u \notin Uids
  <2>1. RulesOf(u) = <<>> /\ Config(u) = NoRules
    BY <1>3 DEF RulesOf, Config
  <2>2. Meaning(NoRules, v, V) = "pass"
    <3>1. NoRules.white = {} /\ NoRules.black = {} /\ NoRules.exclusive = FALSE
      BY DEF NoRules
    <3>2. QED
      BY <3>1 DEF Meaning
  <2>3. QED
    BY <1>1, <2>1, <2>2, NoRule
<1>4. QED
  BY <1>2, <1>3

\* isDomainBlocked, if its query succeeds, blocks exactly the forbidden names.
LEMMA DomainDecision ==
  ASSUME RuleInv, NEW u \in Owners, NEW h \in Hosts,
         NEW s \in SvcType, s.all = svc.all
  PROVE  isDomainBlocked(s, u, h, TRUE) <=> HostForbidden(u, h)
<1> DEFINE m == Meaning(Config(u), h, Hosts)
           c == Config(u)
<1>1. blockedByRule(RulesOf(u), h, Hosts) = m
  BY ServiceMeaning
<1>2. HostAsked(s, h)
  <2>1. DOMAIN s.ips \subseteq Ips
    BY DEF SvcType, Maps
  <2>2. QED
    BY <2>1, NameFacts DEF HostAsked
<1>3. hostBlockedGlobally(s, h, TRUE) <=> h \in db.global.hosts
  BY <1>2 DEF hostBlockedGlobally
<1>4. s.all = seen.loaded.all
  BY DEF RuleInv, Loaded
<1>5. isDomainBlocked(s, u, h, TRUE)
        <=> (u \in seen.loaded.all \/ m = "block" \/ (m = "pass" /\ h \in db.global.hosts))
  <2> HIDE DEF m
  <2> QED BY <1>1, <1>3, <1>4 DEF isDomainBlocked, DomainReachesGlobal
<1>6. HostForbidden(u, h) <=>
        \/ u \in seen.loaded.all
        \/ /\ h \notin c.white
           /\ \/ c.exclusive /\ c.white \cap Hosts # {}
              \/ ~(c.white # {} /\ c.exclusive) /\ h \in c.black
              \/ h \in db.global.hosts
  BY DEF HostForbidden, Config, NoRules
<1> HIDE DEF c
<1>7. m = IF h \in c.white THEN "finish"
          ELSE IF (c.exclusive /\ c.white \cap Hosts # {})
                    \/ (~(c.white # {} /\ c.exclusive) /\ h \in c.black)
               THEN "block" ELSE "pass"
  BY DEF Meaning, Replaced, c
<1> HIDE DEF m
<1>8. QED
  BY <1>5, <1>6, <1>7

\* Of an address no rule decides, the name decides first.
LEMMA AddressDecision ==
  ASSUME NEW s, NEW u, NEW i, NEW v, NEW ok, u # Self,
         blockedByRule(RulesOf(u), i, Ips) = "pass"
  PROVE  /\ AddressReachesNames(s, u, i) <=> u \notin s.all
         /\ isAddressAllowed(s, u, i, v, ok) =
              (/\ u \notin s.all
               /\ ~NameBlocked(s, u, i, v, "host" \in ok)
               /\ ~ipBlockedGlobally(s, i, "ip" \in ok))
<1>1. AddressReachesNames(s, u, i) <=> u \notin s.all
  BY DEF AddressReachesNames
<1>2. CASE u \in s.all
  BY <1>1, <1>2 DEF isAddressAllowed
<1>3. CASE u \notin s.all
  BY <1>1, <1>3 DEF isAddressAllowed
<1>4. QED
  BY <1>1, <1>2, <1>3

(***************************************************************************)
(* Steps.                                                                  *)
(***************************************************************************)
\* The last name of an owner, address and source replaces the one before.
LEMMA ShownFacts ==
  ASSUME RuleInv, NEW u \in Owners, NEW i \in Ips, NEW o \in Sources, NEW n \in Hosts
  PROVE  /\ Shown(u, i, o, n) \in SUBSET (Owners \X Ips \X Sources \X Hosts)
         /\ \A a \in Owners, b \in Ips, c \in Sources, h \in Hosts :
              <<a, b, c, h>> \in Shown(u, i, o, n) <=>
                \/ <<a, b, c>> = <<u, i, o>> /\ h = n
                \/ <<a, b, c>> # <<u, i, o>> /\ <<a, b, c, h>> \in seen.names
<1>1. seen.names \in SUBSET (Owners \X Ips \X Sources \X Hosts)
  BY DEF RuleInv, Typed, SeenType
<1>2. QED
  BY <1>1 DEF Shown

\* What a packet leaves, when the queries in failed fail.
Decides(u, i, n, v, failed) ==
  LET s == sniResolved(svc, u, i, v, n)
      ok == Queries \ failed
      a == AddressCached(s, u, i, v, ok)
      address == isAddressAllowed(s, u, i, v, ok)
  IN  /\ s \in SvcType /\ a \in SvcType /\ a.all = svc.all /\ s.all = svc.all
      /\ svc' \in SvcType /\ Same(svc, svc') /\ svc'.sni = s.sni /\ svc'.ips = a.ips
      /\ s.domain = svc.domain /\ s.ips = svc.ips
      /\ seen' \in SeenType /\ seen'.loaded = seen.loaded
      /\ seen'.names = IF n = NoName THEN seen.names ELSE Shown(u, i, v, n)
      /\ seen'.answers = IF "ip" \in ok THEN seen.answers ELSE seen.answers \cup {<<i, FALSE>>}
      /\ last' \in Decision /\ last'.uid = u /\ last'.ip = i /\ last'.service = v
      /\ last'.sni = n /\ last'.name = getDomainName(s, u, i, v) /\ last'.failed = failed
      /\ last'.rule = blockedByRule(RulesOf(u), i, Ips)
      /\ last'.allowed <=>
           (address /\ (n # NoName => ~isDomainBlocked(a, u, n, "sni" \in ok)))
      /\ last'.passed <=> (last'.allowed \/ ObserveOnly)
      /\ db' = db /\ last = NoName

\* A name that a map gives is a name.
LEMMA NameTyped ==
  ASSUME NEW s \in SvcType, NEW u \in Owners, NEW i \in Ips, NEW v \in Services
  PROVE  getDomainName(s, u, i, v) \in Names
<1>1. s.sni[<<u, i, v>>] \in Names /\ s.domain[<<u, i>>] \in Names /\ s.domain[<<Unknown, i>>] \in Names
  BY NameFacts DEF SvcType
<1>2. QED
  BY <1>1 DEF getDomainName

\* Each packet that is checked leaves what Decides says.
LEMMA PacketDecides ==
  ASSUME RuleInv, NEW u \in Senders, NEW i \in Ips, NEW n \in Names, NEW v \in Services,
         CheckPacket(u, i, n, v)
  PROVE  \E failed \in SUBSET Queries : Decides(u, i, n, v, failed)
<1> DEFINE s == sniResolved(svc, u, i, v, n)
           name == getDomainName(s, u, i, v)
           rule == blockedByRule(RulesOf(u), i, Ips)
           ok(failed) == Queries \ failed
           address(failed) == isAddressAllowed(s, u, i, v, ok(failed))
           a(failed) == AddressCached(s, u, i, v, ok(failed))
           again(failed) == address(failed) /\ n # NoName
           allowed(failed) ==
             address(failed) /\ ~(again(failed) /\ isDomainBlocked(a(failed), u, n, "sni" \in ok(failed)))
<1>1. PICK failed \in SUBSET QueriesMade(s, u, i, v, n) :
        /\ svc' = IF again(failed) THEN DomainCached(a(failed), u, n, "sni" \in ok(failed)) ELSE a(failed)
        /\ seen' = [seen EXCEPT
             !.names = IF n = NoName THEN @ ELSE Shown(u, i, v, n),
             !.answers = IF "ip" \in ok(failed) THEN @ ELSE @ \cup {<<i, FALSE>>}]
        /\ last' = [uid |-> u, ip |-> i, service |-> v, sni |-> n,
                    name |-> name, rule |-> rule, failed |-> failed,
                    allowed |-> allowed(failed), passed |-> allowed(failed) \/ ObserveOnly]
  BY Zenon DEF CheckPacket
<1>2. failed \in SUBSET Queries
  BY DEF QueriesMade
<1> DEFINE k == ok(failed)
           d == a(failed)
           w == address(failed)
           l == allowed(failed)
<1>3. u \in Owners /\ svc \in SvcType /\ db' = db /\ last = NoName /\ seen \in SeenType
  BY NameFacts DEF CheckPacket, RuleInv, Typed
<1>4. /\ s \in SvcType /\ Same(svc, s) /\ s.ips = svc.ips
  BY <1>3, SniFacts
<1> HIDE DEF s
<1>5. k \in SUBSET Queries
  OBVIOUS
<1>6. /\ d \in SvcType /\ Same(s, d) /\ d.sni = s.sni
  <2> HIDE DEF ok
  <2> QED BY <1>3, <1>4, <1>5, AddressFacts
<1>7. name \in Names /\ rule \in {"pass", "finish", "block"}
  BY <1>3, <1>4, NameTyped, ServiceMeaning
<1> HIDE DEF ok, a, address, name, rule
<1>8. svc' \in SvcType /\ Same(d, svc') /\ svc'.ips = d.ips /\ svc'.sni = d.sni
  <2>1. CASE again(failed)
    <3>1. n \in Hosts
      BY <2>1, NameFacts
    <3> DEFINE b == "sni" \in k
               r == DomainCached(d, u, n, b)
    <3>2. b \in BOOLEAN /\ svc' = r
      BY <1>1, <2>1
    <3> HIDE DEF b
    <3>3. r \in SvcType /\ Same(d, r) /\ r.ips = d.ips /\ r.sni = d.sni
      BY <1>3, <1>6, <3>1, <3>2, DomainFacts
    <3>4. QED
      BY <3>2, <3>3
  <2>2. CASE ~again(failed)
    BY <1>1, <1>6, <2>2 DEF Same
  <2>3. QED
    BY <2>1, <2>2
<1>9. /\ seen' \in SeenType /\ seen'.loaded = seen.loaded
      /\ seen'.names = IF n = NoName THEN seen.names ELSE Shown(u, i, v, n)
      /\ seen'.answers = IF "ip" \in k THEN seen.answers ELSE seen.answers \cup {<<i, FALSE>>}
  <2> DEFINE N == IF n = NoName THEN seen.names ELSE Shown(u, i, v, n)
             A == IF "ip" \in k THEN seen.answers ELSE seen.answers \cup {<<i, FALSE>>}
  <2>1. seen' = [seen EXCEPT !.names = N, !.answers = A]
    BY <1>1
  <2>2. N \in SUBSET (Owners \X Ips \X Sources \X Hosts)
    <3>1. n # NoName => n \in Hosts
      BY NameFacts
    <3>2. n # NoName => Shown(u, i, v, n) \in SUBSET (Owners \X Ips \X Sources \X Hosts)
      BY <1>3, <3>1, ShownFacts DEF Sources
    <3>3. QED
      BY <1>3, <3>2 DEF SeenType
  <2>3. A \in SUBSET (Ips \X BOOLEAN)
    <3> DEFINE no == FALSE
    <3>1. no \in BOOLEAN
      OBVIOUS
    <3>2. A = IF "ip" \in k THEN seen.answers ELSE seen.answers \cup {<<i, no>>}
      OBVIOUS
    <3> HIDE DEF no, A
    <3>3. <<i, no>> \in Ips \X BOOLEAN
      BY <3>1
    <3>4. seen.answers \in SUBSET (Ips \X BOOLEAN)
      BY <1>3 DEF SeenType
    <3>5. QED
      BY <3>2, <3>3, <3>4
  <2> HIDE DEF N, A
  <2>4. seen' \in SeenType /\ seen'.loaded = seen.loaded /\ seen'.names = N /\ seen'.answers = A
    BY <1>3, <2>1, <2>2, <2>3 DEF SeenType
  <2>5. QED
    BY <2>4 DEF N, A
<1>10. l \in BOOLEAN /\ (l <=> (w /\ (n # NoName => ~isDomainBlocked(d, u, n, "sni" \in k))))
  BY DEF address, isAddressAllowed
<1> HIDE DEF k, d, w, l
<1>11. /\ last' \in Decision /\ last'.uid = u /\ last'.ip = i /\ last'.service = v
       /\ last'.sni = n /\ last'.name = name /\ last'.failed = failed
       /\ last'.rule = rule /\ last'.allowed = l /\ last'.passed = (l \/ ObserveOnly)
  <2> DEFINE p == l \/ ObserveOnly
  <2>1. last' = [uid |-> u, ip |-> i, service |-> v, sni |-> n,
                 name |-> name, rule |-> rule, failed |-> failed, allowed |-> l, passed |-> p]
    BY <1>1 DEF l
  <2>2. p \in BOOLEAN
    OBVIOUS
  <2> HIDE DEF p
  <2>3. QED
    BY <1>2, <1>3, <1>7, <1>10, <2>1, <2>2 DEF Decision, p
<1>12. Decides(u, i, n, v, failed)
  <2>1. Same(svc, svc') /\ svc'.sni = s.sni /\ d.all = svc.all /\ s.all = svc.all
        /\ s.domain = svc.domain
    BY <1>4, <1>6, <1>8 DEF Same
  <2>2. QED
    BY <1>3, <1>4, <1>6, <1>8, <1>9, <1>10, <1>11, <2>1
       DEF Decides, k, d, w, ok, a, address, name, rule, s
<1>13. QED
  BY <1>2, <1>12

\* A packet keeps the names: the one it shows is the last of its service.
LEMMA PacketNames ==
  ASSUME RuleInv, NEW u \in Owners, NEW i \in Ips, NEW n \in Names, NEW v \in Services,
         NEW failed \in SUBSET Queries, Decides(u, i, n, v, failed)
  PROVE  NamesShown'
<1> DEFINE s == sniResolved(svc, u, i, v, n)
           N == seen'.names
           S == svc'.sni
           D == svc'.domain
<1>1. D = svc.domain /\ S = s.sni /\ N = IF n = NoName THEN seen.names ELSE Shown(u, i, v, n)
  BY DEF Decides, Same
<1>2. /\ n # NoName => s.sni[<<u, i, v>>] = n
      /\ n = NoName => s.sni = svc.sni
      /\ \A a \in Owners, b \in Ips, c \in Services :
           <<a, b, c>> # <<u, i, v>> => s.sni[<<a, b, c>>] = svc.sni[<<a, b, c>>]
  BY SniFacts DEF RuleInv, Typed
<1>3. /\ \A a \in Owners, b \in Ips, c \in Services :
           svc.sni[<<a, b, c>>] # NoName => <<a, b, c, svc.sni[<<a, b, c>>]>> \in seen.names
      /\ \A a \in Owners, b \in Ips :
           a # Unknown /\ svc.domain[<<a, b>>] # NoName
             => <<a, b, DNS, svc.domain[<<a, b>>]>> \in seen.names
      /\ \A b \in Ips :
           svc.domain[<<Unknown, b>>] # NoName =>
             \E a \in Owners : <<a, b, DNS, svc.domain[<<Unknown, b>>]>> \in seen.names
      /\ \A a \in Owners, b \in Ips, c \in Services, h \in Hosts :
           <<a, b, c, h>> \in seen.names => svc.sni[<<a, b, c>>] # NoName
      /\ \A a \in Owners, b \in Ips, h \in Hosts :
           <<a, b, DNS, h>> \in seen.names => svc.domain[<<a, b>>] # NoName
  BY DEF RuleInv, NamesShown
<1>4. /\ svc.sni \in [Owners \X Ips \X Services -> Names]
      /\ svc.domain \in [Owners \X Ips -> Names]
  BY DEF RuleInv, Typed, SvcType
<1>5. DNS \in Sources /\ DNS # v /\ v \in Sources /\ \A c \in Services : c \in Sources
  BY NameFacts DEF Sources
<1>6. n # NoName => n \in Hosts
  BY NameFacts
<1>7. ASSUME NEW a \in Owners, NEW b \in Ips, NEW c \in Sources, NEW h \in Hosts, n # NoName
      PROVE  <<a, b, c, h>> \in N <=>
               \/ <<a, b, c>> = <<u, i, v>> /\ h = n
               \/ <<a, b, c>> # <<u, i, v>> /\ <<a, b, c, h>> \in seen.names
  BY <1>1, <1>5, <1>6, <1>7, ShownFacts
<1> HIDE DEF s, N, S, D
<1>8. CASE n = NoName
  <2>1. N = seen.names /\ S = svc.sni
    BY <1>1, <1>2, <1>8
  <2>2. QED
    BY <1>1, <1>3, <2>1 DEF NamesShown, N, S, D
<1>9. CASE n # NoName
  <2>1. ASSUME NEW a \in Owners, NEW b \in Ips, NEW c \in Services, S[<<a, b, c>>] # NoName
        PROVE  <<a, b, c, S[<<a, b, c>>]>> \in N
    <3>1. CASE <<a, b, c>> = <<u, i, v>>
      BY <1>1, <1>2, <1>5, <1>6, <1>7, <1>9, <3>1
    <3>2. CASE <<a, b, c>> # <<u, i, v>>
      <4> DEFINE h == svc.sni[<<a, b, c>>]
      <4>1. S[<<a, b, c>>] = h
        BY <1>1, <1>2, <3>2
      <4>2. h \in Hosts /\ <<a, b, c, h>> \in seen.names
        BY <1>3, <1>4, <2>1, <4>1, NameFacts
      <4> HIDE DEF h
      <4>3. QED
        BY <1>5, <1>7, <1>9, <3>2, <4>1, <4>2
    <3>3. QED
      BY <3>1, <3>2
  <2>2. ASSUME NEW a \in Owners, NEW b \in Ips, NEW h \in Hosts
        PROVE  <<a, b, DNS, h>> \in N <=> <<a, b, DNS, h>> \in seen.names
    BY <1>5, <1>7, <1>9
  <2>3. ASSUME NEW a \in Owners, NEW b \in Ips, D[<<a, b>>] # NoName
        PROVE  D[<<a, b>>] \in Hosts
    BY <1>1, <1>4, <2>3, NameFacts
  <2>4. ASSUME NEW a \in Owners, NEW b \in Ips, a # Unknown, D[<<a, b>>] # NoName
        PROVE  <<a, b, DNS, D[<<a, b>>]>> \in N
    BY <1>1, <1>3, <2>2, <2>3, <2>4
  <2>5. ASSUME NEW b \in Ips, D[<<Unknown, b>>] # NoName
        PROVE  \E a \in Owners : <<a, b, DNS, D[<<Unknown, b>>]>> \in N
    <3>1. PICK a \in Owners : <<a, b, DNS, D[<<Unknown, b>>]>> \in seen.names
      BY <1>1, <1>3, <2>5
    <3>2. D[<<Unknown, b>>] \in Hosts
      BY <2>3, <2>5, NameFacts
    <3>3. <<a, b, DNS, D[<<Unknown, b>>]>> \in N
      BY <2>2, <3>1, <3>2
    <3>4. QED
      BY <3>3
  <2>6. ASSUME NEW a \in Owners, NEW b \in Ips, NEW c \in Services, NEW h \in Hosts,
               <<a, b, c, h>> \in N
        PROVE  S[<<a, b, c>>] # NoName
    <3>1. CASE <<a, b, c>> = <<u, i, v>>
      BY <1>1, <1>2, <1>9, <3>1
    <3>2. CASE <<a, b, c>> # <<u, i, v>>
      BY <1>1, <1>2, <1>3, <1>5, <1>7, <1>9, <2>6, <3>2
    <3>3. QED
      BY <3>1, <3>2
  <2>7. ASSUME NEW a \in Owners, NEW b \in Ips, NEW h \in Hosts, <<a, b, DNS, h>> \in N
        PROVE  D[<<a, b>>] # NoName
    BY <1>1, <1>3, <2>2, <2>7
  <2>8. QED
    BY <2>1, <2>4, <2>5, <2>6, <2>7 DEF NamesShown, N, S, D
<1>10. QED
  BY <1>8, <1>9

\* A packet keeps the answers: a new one is the database's, or a failed query's.
LEMMA PacketAnswers ==
  ASSUME RuleInv, NEW u \in Owners, NEW i \in Ips, NEW n \in Names, NEW v \in Services,
         NEW failed \in SUBSET Queries, Decides(u, i, n, v, failed)
  PROVE  AnswersSeen'
<1> DEFINE s == sniResolved(svc, u, i, v, n)
           ok == Queries \ failed
           a == AddressCached(s, u, i, v, ok)
           b == ipBlockedGlobally(s, i, "ip" \in ok)
<1>1. /\ s \in SvcType /\ s.ips = svc.ips /\ svc'.ips = a.ips /\ db' = db
      /\ seen'.answers = IF "ip" \in ok THEN seen.answers ELSE seen.answers \cup {<<i, FALSE>>}
  BY DEF Decides
<1>2. ok \in SUBSET Queries
  OBVIOUS
<1> HIDE DEF s, ok
<1>3. b \in BOOLEAN /\ (a.ips = s.ips \/ a.ips = Remember(s.ips, i, b))
  BY <1>1, <1>2, AddressFacts
<1>4. b = IF i \in DOMAIN svc.ips THEN svc.ips[i] ELSE ("ip" \in ok /\ i \in db.global.ips)
  BY <1>1 DEF ipBlockedGlobally
<1>5. svc.ips \in Maps(Ips)
  BY DEF RuleInv, Typed, SvcType
<1> HIDE DEF a, b
<1>6. /\ AnswersOf(db.global) \subseteq seen.answers
      /\ \A x \in DOMAIN svc.ips : <<x, svc.ips[x]>> \in seen.answers
  BY DEF RuleInv, AnswersSeen, CachedAnswerCurrent
<1>7. seen.answers \subseteq seen'.answers
  BY <1>1
<1>8. <<i, b>> \in seen'.answers
  <2>1. CASE i \in DOMAIN svc.ips
    BY <1>4, <1>6, <1>7, <2>1
  <2>2. CASE i \notin DOMAIN svc.ips /\ "ip" \in ok
    <3>1. b = (i \in db.global.ips)
      BY <1>4, <2>2
    <3>2. <<i, i \in db.global.ips>> \in AnswersOf(db.global)
      BY DEF AnswersOf
    <3>3. QED
      BY <1>6, <1>7, <3>1, <3>2
  <2>3. CASE i \notin DOMAIN svc.ips /\ "ip" \notin ok
    <3>1. b = FALSE
      BY <1>4, <2>3
    <3>2. <<i, FALSE>> \in seen'.answers
      BY <1>1, <2>3
    <3>3. QED
      BY <3>1, <3>2
  <2>4. QED
    BY <2>1, <2>2, <2>3
<1>9. ASSUME NEW x \in DOMAIN svc'.ips PROVE <<x, svc'.ips[x]>> \in seen'.answers
  <2>1. CASE a.ips = s.ips
    BY <1>1, <1>6, <1>7, <2>1
  <2>2. CASE a.ips = Remember(s.ips, i, b)
    <3> DEFINE r == Remember(svc.ips, i, b)
    <3>1. /\ DOMAIN r = DOMAIN svc.ips \cup {i} /\ r[i] = b
          /\ \A y \in DOMAIN svc.ips : y # i => r[y] = svc.ips[y]
      BY DEF Remember
    <3>2. svc'.ips = r
      BY <1>1, <2>2
    <3> HIDE DEF r
    <3>3. QED
      BY <1>6, <1>7, <1>8, <3>1, <3>2
  <2>3. QED
    BY <1>3, <2>1, <2>2
<1>10. QED
  BY <1>1, <1>6, <1>7, <1>9 DEF AnswersSeen, CachedAnswerCurrent, AnswersOf

\* The name a decision was made with is the one the maps still give.
NameUsed ==
  Decided /\ last.name # NoName => last.name = getDomainName(svc, last.uid, last.ip, last.service)

\* The name server's map and the server names give the app its own last name.
LEMMA NamesGive ==
  ASSUME RuleInv, NameUsed
  PROVE  NameOfTheApp
<1> SUFFICES ASSUME Decided, last.uid # Unknown, last.name # NoName
             PROVE  LET own == {n \in seen.names : n[1] = last.uid /\ n[3] \in {DNS, last.service}
                                                    /\ n[2] = last.ip}
                        other == {n \in seen.names : n[3] = DNS}
                    IN  \E n \in IF own # {} THEN own ELSE other :
                          n[2] = last.ip /\ n[4] = last.name
  BY DEF NameOfTheApp
<1> DEFINE u == last.uid
           i == last.ip
           v == last.service
           N == seen.names
           own == {n \in N : n[1] = u /\ n[3] \in {DNS, v} /\ n[2] = i}
           other == {n \in N : n[3] = DNS}
           name == last.name
<1>1. u \in Owners /\ i \in Ips /\ v \in Services
  BY DEF RuleInv, Typed, Decided, Decision
<1>2. N \in SUBSET (Owners \X Ips \X Sources \X Hosts)
  BY DEF RuleInv, Typed, SeenType
<1>3. name = getDomainName(svc, u, i, v) /\ u # Unknown /\ name # NoName
  BY DEF NameUsed
<1> HIDE DEF u, i, v, N, name
<1>4. /\ svc.sni[<<u, i, v>>] # NoName => <<u, i, v, svc.sni[<<u, i, v>>]>> \in N
      /\ svc.domain[<<u, i>>] # NoName => <<u, i, DNS, svc.domain[<<u, i>>]>> \in N
      /\ svc.domain[<<Unknown, i>>] # NoName =>
           \E a \in Owners : <<a, i, DNS, svc.domain[<<Unknown, i>>]>> \in N
      /\ \A h \in Hosts : <<u, i, v, h>> \in N => svc.sni[<<u, i, v>>] # NoName
      /\ \A h \in Hosts : <<u, i, DNS, h>> \in N => svc.domain[<<u, i>>] # NoName
  BY <1>1, <1>3 DEF RuleInv, NamesShown, N
<1>5. CASE svc.sni[<<u, i, v>>] # NoName
  <2> DEFINE x == <<u, i, v, name>>
  <2>1. x \in N
    BY <1>3, <1>4, <1>5 DEF getDomainName
  <2>2. x \in own /\ x[2] = i /\ x[4] = name
    BY <2>1
  <2>3. QED
    BY <2>2 DEF u, i, v, N, name
<1>6. CASE svc.sni[<<u, i, v>>] = NoName /\ svc.domain[<<u, i>>] # NoName
  <2> DEFINE x == <<u, i, DNS, name>>
  <2>1. x \in N
    BY <1>3, <1>4, <1>6 DEF getDomainName
  <2>2. x \in own /\ x[2] = i /\ x[4] = name
    BY <2>1
  <2>3. QED
    BY <2>2 DEF u, i, v, N, name
<1>7. CASE svc.sni[<<u, i, v>>] = NoName /\ svc.domain[<<u, i>>] = NoName
  <2>1. own = {}
    <3> SUFFICES ASSUME NEW x \in N, x[1] = u, x[3] \in {DNS, v}, x[2] = i
                 PROVE  FALSE
      OBVIOUS
    <3>1. x = <<x[1], x[2], x[3], x[4]>> /\ x[4] \in Hosts
      BY <1>2
    <3>2. <<u, i, DNS, x[4]>> \in N \/ <<u, i, v, x[4]>> \in N
      BY <3>1
    <3>3. QED
      BY <1>4, <1>7, <3>1, <3>2
  <2>2. name = svc.domain[<<Unknown, i>>]
    BY <1>3, <1>7 DEF getDomainName
  <2>3. PICK a \in Owners : <<a, i, DNS, name>> \in N
    BY <1>3, <1>4, <2>2
  <2> DEFINE x == <<a, i, DNS, name>>
  <2>4. x \in other /\ x[2] = i /\ x[4] = name
    BY <2>3
  <2>5. QED
    BY <2>1, <2>4 DEF u, i, v, N, name
<1>8. QED
  BY <1>5, <1>6, <1>7

\* The verdict about a packet with a server name.
LEMMA PacketVerdict ==
  ASSUME RuleInv, NEW u \in Owners, NEW i \in Ips, NEW n \in Names, NEW v \in Services,
         NEW failed \in SUBSET Queries, Decides(u, i, n, v, failed)
  PROVE  ForbiddenNameBlocked' /\ NameDecides' /\ NameUsed'
<1> DEFINE s == sniResolved(svc, u, i, v, n)
           ok == Queries \ failed
           a == AddressCached(s, u, i, v, ok)
           b == ipBlockedGlobally(s, i, "ip" \in ok)
           address == isAddressAllowed(s, u, i, v, ok)
           rule == blockedByRule(RulesOf(u), i, Ips)
           F == HostForbidden(u, n)
<1>1. /\ s \in SvcType /\ a \in SvcType /\ a.all = svc.all /\ s.all = svc.all
      /\ svc'.ips = a.ips /\ s.ips = svc.ips /\ svc'.sni = s.sni
      /\ svc'.domain = s.domain
      /\ last'.uid = u /\ last'.sni = n /\ last'.failed = failed /\ last'.ip = i
      /\ last'.service = v /\ last'.name = getDomainName(s, u, i, v) /\ last'.rule = rule
      /\ last'.allowed <=> (address /\ (n # NoName => ~isDomainBlocked(a, u, n, "sni" \in ok)))
      /\ last'.passed <=> (last'.allowed \/ ObserveOnly)
      /\ db' = db /\ seen'.loaded = seen.loaded
  BY DEF Decides, Same
<1>2. HostForbidden(last.uid, last.sni)' <=> F
  BY <1>1 DEF HostForbidden
<1>3. n # NoName => n \in Hosts
  BY NameFacts
<1>4. n # NoName => (isDomainBlocked(a, u, n, TRUE) <=> F) /\ (isDomainBlocked(s, u, n, TRUE) <=> F)
  BY <1>1, <1>3, DomainDecision
<1>5. n # NoName => getDomainName(s, u, i, v) = n
  <2>1. n # NoName => s.sni[<<u, i, v>>] = n
    BY SniFacts DEF RuleInv, Typed
  <2>2. QED
    BY <2>1 DEF getDomainName
<1>6. ok \in SUBSET Queries /\ {"ip", "host", "sni"} \subseteq Queries
  BY DEF Queries
<1> HIDE DEF s, F
<1>7. ForbiddenNameBlocked'
  <2>1. ASSUME ~ObserveOnly, last'.passed, n # NoName, "sni" \notin failed PROVE ~F
    <3>1. ("sni" \in ok) = TRUE
      BY <1>6, <2>1
    <3>2. ~isDomainBlocked(a, u, n, TRUE)
      BY <1>1, <2>1, <3>1
    <3>3. QED
      BY <1>4, <2>1, <3>2
  <2>2. last'.passed /\ last'.sni # NoName /\ "sni" \notin last'.failed /\ ~ObserveOnly
          => ~HostForbidden(last.uid, last.sni)'
    BY <1>1, <1>2, <2>1
  <2>3. QED
    BY <2>2 DEF ForbiddenNameBlocked
<1>8. ASSUME rule = "pass", u # Self, ~(i \in DOMAIN svc'.ips /\ svc'.ips[i]), n # NoName, failed = {}
      PROVE  last'.allowed <=> ~F
  <2>1. ("sni" \in ok) = TRUE /\ ("host" \in ok) = TRUE
    BY <1>6, <1>8
  <2>2. /\ AddressReachesNames(s, u, i) <=> u \notin s.all
        /\ address = (/\ u \notin s.all
                      /\ ~NameBlocked(s, u, i, v, "host" \in ok) /\ ~b)
    BY <1>8, AddressDecision
  <2>3. NameBlocked(s, u, i, v, "host" \in ok) <=> F
    <3>1. NameBlocked(s, u, i, v, TRUE) <=> F
      BY <1>4, <1>5, <1>8 DEF NameBlocked
    <3>2. QED
      BY <2>1, <3>1
  <2>4. u \in s.all => F
    BY <1>1 DEF F, HostForbidden, RuleInv, Loaded
  <2>5. last'.allowed <=> (address /\ ~F)
    <3>1. isDomainBlocked(a, u, n, "sni" \in ok) <=> F
      BY <1>4, <1>8, <2>1
    <3>2. QED
      BY <1>1, <1>8, <3>1
  <2>6. CASE F
    BY <2>5, <2>6
  <2>7. CASE ~F
    <3>1. a.ips = Remember(s.ips, i, b)
      <4> HIDE DEF ok
      <4>1. AddressReachesNames(s, u, i) /\ ~NameBlocked(s, u, i, v, "host" \in ok)
        BY <2>2, <2>3, <2>4, <2>7
      <4>2. QED
        BY <1>1, <1>6, <4>1, AddressFacts
    <3> HIDE DEF b, a
    <3>2. i \in DOMAIN svc'.ips /\ svc'.ips[i] = b
      BY <1>1, <3>1 DEF Remember
    <3>3. ~b
      BY <1>8, <3>2
    <3>4. QED
      BY <2>2, <2>3, <2>4, <2>5, <2>7, <3>3
  <2>8. QED
    BY <2>6, <2>7
<1> HIDE DEF ok, rule, address, a, b
<1>9. NameDecides'
  <2>1. /\ NamesDecide' /\ last'.sni # NoName /\ last'.failed = {}
        => (last'.allowed <=> ~HostForbidden(last.uid, last.sni)')
    BY <1>1, <1>2, <1>8 DEF NamesDecide
  <2>2. QED
    BY <2>1 DEF NameDecides
<1>10. NameUsed'
  <2>1. getDomainName(svc', u, i, v) = getDomainName(s, u, i, v)
    BY <1>1 DEF getDomainName
  <2>2. QED
    BY <1>1, <2>1 DEF NameUsed
<1>11. QED
  BY <1>7, <1>9, <1>10

FullInv == RuleInv /\ NameUsed /\ ForbiddenNameBlocked /\ NameDecides

\* Between two packets only the maps and the database matter.
LEMMA BetweenPackets ==
  ASSUME RuleInv', last' = NoName
  PROVE  FullInv'
<1>1. ~Decided'
  BY DEF Decided
<1>2. QED
  BY <1>1 DEF FullInv, NameUsed, ForbiddenNameBlocked, NameDecides

\* A packet that is checked.
LEMMA PacketKeeps ==
  ASSUME RuleInv, NEW u \in Senders, NEW i \in Ips, NEW n \in Names, NEW v \in Services,
         CheckPacket(u, i, n, v)
  PROVE  FullInv'
<1>1. PICK failed \in SUBSET Queries : Decides(u, i, n, v, failed)
  BY PacketDecides
<1>2. u \in Owners
  BY NameFacts
<1>3. Typed'
  <2>1. db' \in DbType /\ svc' \in SvcType /\ seen' \in SeenType /\ last' \in Decision
    BY <1>1 DEF Decides, RuleInv, Typed
  <2>2. QED
    BY <2>1 DEF Typed, DbType, SvcType, SeenType, Decision, Sources
<1>4. Loaded'
  BY <1>1 DEF Decides, Same, RuleInv, Loaded
<1>5. NamesShown' /\ AnswersSeen' /\ ForbiddenNameBlocked' /\ NameDecides' /\ NameUsed'
  BY <1>1, <1>2, PacketNames, PacketAnswers, PacketVerdict
<1>6. QED
  BY <1>3, <1>4, <1>5 DEF FullInv, RuleInv

\* A QUIC packet that is dropped without a check.
LEMMA QuicKeeps ==
  ASSUME RuleInv, NEW u \in Senders, NEW i \in Ips, DropQuic(u, i)
  PROVE  FullInv'
<1>1. UNCHANGED <<db, svc, seen>> /\ "quic" \in Services /\ u \in Owners
  BY NameFacts DEF DropQuic
<1>2. /\ last' \in Decision /\ last'.sni = NoName /\ last'.name = NoName /\ last'.passed = FALSE
  <2> DEFINE q == "quic"
             p == "pass"
             no == FALSE
  <2>1. last' = [uid |-> u, ip |-> i, service |-> q, sni |-> NoName, name |-> NoName,
                 rule |-> p, failed |-> {}, allowed |-> no, passed |-> no]
    BY DEF DropQuic
  <2>2. q \in Services /\ p \in {"pass", "finish", "block"} /\ no \in BOOLEAN /\ NoName \in Names
    BY <1>1, NameFacts
  <2> HIDE DEF q, p, no
  <2>3. last' \in Decision /\ last'.sni = NoName /\ last'.name = NoName /\ last'.passed = no
    BY <1>1, <2>1, <2>2 DEF Decision
  <2>4. QED
    BY <2>3 DEF no
<1>3. RuleInv'
  <2>1. Typed'
    BY <1>1, <1>2 DEF RuleInv, Typed, DbType, SvcType, SeenType, Decision, Sources
  <2>2. Loaded' /\ NamesShown' /\ AnswersSeen'
    BY <1>1 DEF RuleInv, Loaded, NamesShown, AnswersSeen, CachedAnswerCurrent, AnswersOf
  <2>3. QED
    BY <2>1, <2>2 DEF RuleInv
<1>4. NameUsed' /\ ForbiddenNameBlocked' /\ NameDecides'
  BY <1>2 DEF NameUsed, ForbiddenNameBlocked, NameDecides
<1>5. QED
  BY <1>3, <1>4 DEF FullInv

\* A DNS answer is the owner's last name, and the last one of anyone.
LEMMA AnswerKeeps ==
  ASSUME RuleInv, NEW u \in Senders, NEW i \in Ips, NEW n \in Hosts, dnsResolved(u, i, n)
  PROVE  FullInv'
<1> DEFINE D == svc'.domain
           N == seen'.names
           g == [[svc.domain EXCEPT ![<<u, i>>] = n] EXCEPT ![<<Unknown, i>>] = n]
<1>1. u \in Owners /\ last' = NoName /\ db' = db /\ Unknown \in Owners /\ n \in Names /\ n # NoName
  BY NameFacts DEF dnsResolved
<1>2. svc.domain \in [Owners \X Ips -> Names] /\ svc \in SvcType /\ seen \in SeenType
  BY DEF RuleInv, Typed, SvcType
<1>3. g \in [Owners \X Ips -> Names]
  BY <1>1, <1>2
<1>4. \A a \in Owners, b \in Ips :
        g[<<a, b>>] = IF b = i /\ (a = u \/ a = Unknown) THEN n ELSE svc.domain[<<a, b>>]
  BY <1>1, <1>2
<1>5. svc' = [svc EXCEPT !.domain = g]
  BY <1>2 DEF dnsResolved, SvcType
<1> HIDE DEF g
<1>6. /\ svc' \in SvcType /\ D = g /\ svc'.rules = svc.rules /\ svc'.all = svc.all
      /\ svc'.sni = svc.sni /\ svc'.ips = svc.ips
  BY <1>2, <1>3, <1>5 DEF SvcType
<1>7. DNS \in Sources /\ \A c \in Services : c \in Sources /\ c # DNS
  BY NameFacts DEF Sources
<1>8. seen' = [seen EXCEPT !.names = Shown(u, i, DNS, n)]
  BY DEF dnsResolved
<1>9. Shown(u, i, DNS, n) \in SUBSET (Owners \X Ips \X Sources \X Hosts)
  BY <1>1, <1>7, ShownFacts
<1>10. /\ seen' \in SeenType /\ N = Shown(u, i, DNS, n) /\ seen'.loaded = seen.loaded
       /\ seen'.answers = seen.answers
  BY <1>2, <1>8, <1>9 DEF SeenType
<1>11. ASSUME NEW a \in Owners, NEW b \in Ips, NEW c \in Sources, NEW h \in Hosts
       PROVE  <<a, b, c, h>> \in N <=>
                \/ <<a, b, c>> = <<u, i, DNS>> /\ h = n
                \/ <<a, b, c>> # <<u, i, DNS>> /\ <<a, b, c, h>> \in seen.names
  BY <1>1, <1>7, <1>10, ShownFacts
<1>12. /\ \A a \in Owners, b \in Ips, c \in Services :
            svc.sni[<<a, b, c>>] # NoName => <<a, b, c, svc.sni[<<a, b, c>>]>> \in seen.names
       /\ \A a \in Owners, b \in Ips :
            a # Unknown /\ svc.domain[<<a, b>>] # NoName
              => <<a, b, DNS, svc.domain[<<a, b>>]>> \in seen.names
       /\ \A b \in Ips :
            svc.domain[<<Unknown, b>>] # NoName =>
              \E a \in Owners : <<a, b, DNS, svc.domain[<<Unknown, b>>]>> \in seen.names
       /\ \A a \in Owners, b \in Ips, c \in Services, h \in Hosts :
            <<a, b, c, h>> \in seen.names => svc.sni[<<a, b, c>>] # NoName
       /\ \A a \in Owners, b \in Ips, h \in Hosts :
            <<a, b, DNS, h>> \in seen.names => svc.domain[<<a, b>>] # NoName
  BY DEF RuleInv, NamesShown
<1> HIDE DEF N, D
<1>13. ASSUME NEW a \in Owners, NEW b \in Ips, NEW c \in Services, NEW h \in Hosts
       PROVE  <<a, b, c, h>> \in N <=> <<a, b, c, h>> \in seen.names
  BY <1>7, <1>11
<1>14. ASSUME NEW a \in Owners, NEW b \in Ips, NEW c \in Services, svc.sni[<<a, b, c>>] # NoName
       PROVE  <<a, b, c, svc.sni[<<a, b, c>>]>> \in N
  <2>1. svc.sni[<<a, b, c>>] \in Hosts
    BY <1>2, <1>14, NameFacts DEF SvcType
  <2>2. QED
    BY <1>12, <1>13, <1>14, <2>1
<1>15. ASSUME NEW a \in Owners, NEW b \in Ips, a # Unknown, D[<<a, b>>] # NoName
       PROVE  <<a, b, DNS, D[<<a, b>>]>> \in N
  <2>1. CASE b = i /\ a = u
    BY <1>4, <1>6, <1>7, <1>11, <2>1
  <2>2. CASE ~(b = i /\ a = u)
    <3> DEFINE h == svc.domain[<<a, b>>]
    <3>1. D[<<a, b>>] = h
      BY <1>4, <1>6, <1>15, <2>2
    <3>2. h \in Hosts /\ <<a, b, DNS, h>> \in seen.names
      BY <1>2, <1>12, <1>15, <3>1, NameFacts
    <3> HIDE DEF h
    <3>3. QED
      BY <1>7, <1>11, <2>2, <3>1, <3>2
  <2>3. QED
    BY <2>1, <2>2
<1>16. ASSUME NEW b \in Ips, D[<<Unknown, b>>] # NoName
       PROVE  \E a \in Owners : <<a, b, DNS, D[<<Unknown, b>>]>> \in N
  <2>1. CASE b = i
    <3>1. D[<<Unknown, b>>] = n
      BY <1>1, <1>4, <1>6, <2>1
    <3>2. <<u, i, DNS, n>> \in N
      BY <1>1, <1>7, <1>11
    <3>3. QED
      BY <1>1, <2>1, <3>1, <3>2
  <2>2. CASE b # i
    <3> DEFINE h == svc.domain[<<Unknown, b>>]
    <3>1. D[<<Unknown, b>>] = h
      BY <1>1, <1>4, <1>6, <2>2
    <3>2. h \in Hosts
      BY <1>1, <1>2, <1>16, <3>1, NameFacts
    <3>3. PICK a \in Owners : <<a, b, DNS, h>> \in seen.names
      BY <1>12, <1>16, <3>1
    <3> HIDE DEF h
    <3>4. <<a, b, DNS, h>> \in N
      BY <1>7, <1>11, <2>2, <3>2, <3>3
    <3>5. QED
      BY <3>1, <3>4
  <2>3. QED
    BY <2>1, <2>2
<1>17. ASSUME NEW a \in Owners, NEW b \in Ips, NEW h \in Hosts, <<a, b, DNS, h>> \in N
       PROVE  D[<<a, b>>] # NoName
  BY <1>1, <1>4, <1>6, <1>7, <1>11, <1>12, <1>17
<1>18. NamesShown'
  BY <1>6, <1>12, <1>13, <1>14, <1>15, <1>16, <1>17 DEF NamesShown, N, D
<1>19. Loaded' /\ AnswersSeen'
  BY <1>1, <1>6, <1>10 DEF RuleInv, Loaded, AnswersSeen, CachedAnswerCurrent, AnswersOf
<1>20. Typed'
  BY <1>1, <1>6, <1>10 DEF RuleInv, Typed, DbType, SvcType, SeenType, Decision, Sources
<1>21. QED
  BY <1>1, <1>18, <1>19, <1>20, BetweenPackets DEF RuleInv

\* The maps as they are after prepare...: empty, with the rules of the database.
Fresh(s, d) ==
  /\ s \in SvcType /\ s.all = d.all /\ s.hosts = NoAnswers /\ s.ips = NoAnswers
  /\ s.rules = [u \in Uids |-> getPackageRule(d.rules[u])]
  /\ s.domain = NoDomains /\ s.sni = NoServerNames

\* What the service can have seen by then.
Start(d) == [loaded |-> d, names |-> {}, answers |-> AnswersOf(d.global)]

\* The answers the database gives are pairs of an address and a Boolean.
LEMMA AnswersTyped ==
  ASSUME NEW g
  PROVE  AnswersOf(g) \in SUBSET (Ips \X BOOLEAN)
<1>1. ASSUME NEW i \in Ips
      PROVE  <<i, i \in g.ips>> \in Ips \X BOOLEAN
  <2> DEFINE b == i \in g.ips
  <2>1. b \in BOOLEAN
    OBVIOUS
  <2> HIDE DEF b
  <2>2. <<i, b>> \in Ips \X BOOLEAN
    BY <2>1
  <2>3. QED
    BY <2>2 DEF b
<1>2. QED
  BY <1>1, Zenon DEF AnswersOf

\* The parts of the invariant about a service that has just been started.
LEMMA FreshFacts ==
  ASSUME NEW d \in DbType, NEW s, Fresh(s, d)
  PROVE  /\ Start(d) \in SeenType /\ Start(d).loaded = d /\ Start(d).names = {}
         /\ Start(d).answers = AnswersOf(d.global)
         /\ s \in SvcType /\ s.all = d.all
         /\ \A u \in Uids : s.rules[u] = getPackageRule(d.rules[u])
         /\ \A a \in Owners, b \in Ips, c \in Services : s.sni[<<a, b, c>>] = NoName
         /\ \A a \in Owners, b \in Ips : s.domain[<<a, b>>] = NoName
         /\ \A b \in Ips : s.domain[<<Unknown, b>>] = NoName
         /\ DOMAIN s.ips = {}
<1>1. AnswersOf(d.global) \in SUBSET (Ips \X BOOLEAN)
  BY AnswersTyped
<1>2. /\ Start(d) \in SeenType /\ Start(d).loaded = d /\ Start(d).names = {}
      /\ Start(d).answers = AnswersOf(d.global)
  BY <1>1 DEF SeenType, Start
<1>3. \A a \in Owners, b \in Ips, c \in Services : s.sni[<<a, b, c>>] = NoName
  BY DEF Fresh, NoServerNames
<1>4. \A a \in Owners, b \in Ips : s.domain[<<a, b>>] = NoName
  BY DEF Fresh, NoDomains
<1>5. \A b \in Ips : s.domain[<<Unknown, b>>] = NoName
  BY <1>4, NameFacts
<1>6. DOMAIN s.ips = {}
  BY DEF Fresh, NoAnswers
<1>7. s \in SvcType /\ s.all = d.all /\ \A u \in Uids : s.rules[u] = getPackageRule(d.rules[u])
  BY DEF Fresh
<1>8. QED
  BY <1>2, <1>3, <1>4, <1>5, <1>6, <1>7

\* The service's record, with the rules of the database d.
LEMMA FreshRecord ==
  ASSUME NEW d \in DbType
  PROVE  Fresh([rules |-> [u \in Uids |-> getPackageRule(d.rules[u])],
                all |-> d.all, quic |-> d.quic, hosts |-> NoAnswers, ips |-> NoAnswers,
                domain |-> NoDomains, sni |-> NoServerNames], d)
<1> DEFINE r == [u \in Uids |-> getPackageRule(d.rules[u])]
<1>1. r \in [Uids -> Seq(Rule)]
  <2>1. \A u \in Uids : d.rules[u] \in RuleConfig
    BY DEF DbType
  <2>2. \A u \in Uids : getPackageRule(d.rules[u]) \in Seq(Rule)
    BY <2>1, RulesTyped
  <2>3. QED
    BY <2>2
<1>2. NoAnswers \in Maps(Hosts) /\ NoAnswers \in Maps(Ips)
  <2>1. NoAnswers \in [{} -> BOOLEAN]
    BY DEF NoAnswers
  <2>2. \A K : [{} -> BOOLEAN] \in {[D -> BOOLEAN] : D \in SUBSET K}
    BY Zenon
  <2>3. QED
    BY <2>1, <2>2 DEF Maps
<1>3. NoDomains \in [Owners \X Ips -> Names] /\ NoServerNames \in [Owners \X Ips \X Services -> Names]
  BY DEF NoDomains, NoServerNames, Names
<1>4. d.all \in SUBSET Uids /\ d.quic \in SUBSET Uids
  BY DEF DbType
<1> HIDE DEF r
<1>5. QED
  BY <1>1, <1>2, <1>3, <1>4 DEF Fresh, SvcType, r

\* The first tunnel starts with such a service.
LEMMA InitKeeps ==
  ASSUME Init
  PROVE  FullInv
<1>1. db \in DbType
  <2>1. PICK r \in [Uids -> RuleConfigs], set \in Settings, g \in Globals :
          db = [rules |-> r, all |-> set.all, quic |-> set.quic, global |-> g, edits |-> 0]
    BY DEF Init, Databases
  <2>2. /\ r \in [Uids -> RuleConfig] /\ set.all \in SUBSET Uids /\ set.quic \in SUBSET Uids
        /\ g \in GlobalList
    BY RuleAssumption
  <2>3. QED
    BY <2>1, <2>2 DEF DbType
<1>2. Fresh(svc, db) /\ seen = Start(db) /\ last = NoName
  <2>1. Fresh(svc, db)
    BY <1>1, FreshRecord DEF Init
  <2>2. QED
    BY <2>1 DEF Init, Start
<1>3. Typed /\ Loaded
  BY <1>1, <1>2, FreshFacts DEF Typed, Loaded
<1>4. NamesShown
  BY <1>1, <1>2, FreshFacts DEF NamesShown
<1>5. AnswersSeen
  BY <1>1, <1>2, FreshFacts DEF AnswersSeen, CachedAnswerCurrent
<1>6. ~Decided
  BY <1>2 DEF Decided
<1>7. QED
  BY <1>3, <1>4, <1>5, <1>6 DEF FullInv, RuleInv, NameUsed, ForbiddenNameBlocked, NameDecides

\* A restart: every map is emptied or read again.
LEMMA StartKeeps ==
  ASSUME RuleInv, startNative
  PROVE  FullInv'
<1>1. db \in DbType /\ db' = db /\ last' = NoName /\ svc \in SvcType
  BY DEF RuleInv, Typed, startNative
<1> DEFINE r == [u \in Uids |-> getPackageRule(db.rules[u])]
<1>2. svc' = [rules |-> r, all |-> db.all, quic |-> db.quic, hosts |-> NoAnswers, ips |-> NoAnswers,
              domain |-> NoDomains, sni |-> NoServerNames]
  <2> DEFINE s1 == [svc EXCEPT !.sni = NoServerNames, !.domain = NoDomains]
             s2 == [s1 EXCEPT !.hosts = NoAnswers, !.ips = NoAnswers]
             s3 == [s2 EXCEPT !.rules = r]
  <2>1. svc' = [s3 EXCEPT !.all = db.all, !.quic = db.quic]
    BY DEF startNative, prepareApplicationSettings, preparePackageRules, prepareGlobalRules,
           prepareCacheMaps
  <2> HIDE DEF r
  <2>2. QED
    BY <1>1, <2>1 DEF SvcType
<1>3. Fresh(svc', db) /\ seen' = Start(db)
  <2>1. Fresh(svc', db)
    BY <1>1, <1>2, FreshRecord
  <2>2. QED
    BY <2>1 DEF startNative, Start
<1>4. Typed' /\ Loaded'
  <2>1. /\ seen' \in SeenType /\ seen'.loaded = db /\ svc' \in SvcType /\ svc'.all = db.all
        /\ \A u \in Uids : svc'.rules[u] = getPackageRule(db.rules[u])
    BY <1>1, <1>3, FreshFacts
  <2>2. Typed'
    BY <1>1, <2>1 DEF Typed, DbType, SvcType, SeenType, Decision, Sources
  <2>3. QED
    BY <2>1, <2>2 DEF Loaded
<1>5. NamesShown'
  BY <1>1, <1>3, FreshFacts DEF NamesShown
<1>6. AnswersSeen'
  BY <1>1, <1>3, FreshFacts DEF AnswersSeen, CachedAnswerCurrent, AnswersOf
<1>7. QED
  BY <1>1, <1>4, <1>5, <1>6, BetweenPackets DEF RuleInv

\* An edit of the database: the rules in use are still the loaded ones, and the
\* answers of the new list are added to the possible ones.
LEMMA EditKeeps ==
  ASSUME RuleInv, EditDatabase
  PROVE  FullInv'
<1>1. db \in DbType /\ seen \in SeenType /\ svc' = svc /\ last' = NoName
  BY DEF RuleInv, Typed, EditDatabase
<1>2. CASE \E u \in Uids : \E c \in RuleConfigs \ {db.rules[u]} :
              /\ db' = [db EXCEPT !.rules[u] = c, !.edits = @ + 1]
              /\ UNCHANGED seen
  <2>1. PICK u \in Uids, c \in RuleConfigs :
          db' = [db EXCEPT !.rules[u] = c, !.edits = @ + 1] /\ seen' = seen
    BY <1>2
  <2>2. db' \in DbType /\ db'.global = db.global
    <3> DEFINE r == [db.rules EXCEPT ![u] = c]
               e == db.edits + 1
    <3>1. db' = [db EXCEPT !.rules = r, !.edits = e]
      BY <1>1, <2>1 DEF DbType
    <3>2. r \in [Uids -> RuleConfig] /\ e \in Nat
      BY <1>1, RuleAssumption DEF DbType
    <3> HIDE DEF r, e
    <3>3. QED
      BY <1>1, <3>1, <3>2 DEF DbType
  <2>3. Typed'
    BY <1>1, <2>1, <2>2 DEF RuleInv, Typed, DbType, SvcType, SeenType, Decision, Sources
  <2>4. Loaded' /\ NamesShown'
    BY <1>1, <2>1 DEF RuleInv, Loaded, NamesShown
  <2>5. AnswersSeen'
    BY <1>1, <2>1, <2>2 DEF RuleInv, AnswersSeen, CachedAnswerCurrent, AnswersOf
  <2>6. QED
    BY <1>1, <2>3, <2>4, <2>5, BetweenPackets DEF RuleInv
<1>3. CASE \E g \in Globals \ {db.global} :
             /\ db' = [db EXCEPT !.global = g, !.edits = @ + 1]
             /\ seen' = [seen EXCEPT !.answers = @ \cup AnswersOf(g)]
  <2>1. PICK g \in Globals :
          /\ db' = [db EXCEPT !.global = g, !.edits = @ + 1]
          /\ seen' = [seen EXCEPT !.answers = @ \cup AnswersOf(g)]
    BY <1>3
  <2>2. db' \in DbType /\ db'.global = g
    <3>1. g \in GlobalList /\ db.edits + 1 \in Nat
      BY <1>1, RuleAssumption DEF DbType
    <3>2. QED
      BY <1>1, <2>1, <3>1 DEF DbType
  <2>3. AnswersOf(g) \in SUBSET (Ips \X BOOLEAN)
    BY AnswersTyped
  <2>4. /\ seen' \in SeenType /\ seen'.loaded = seen.loaded /\ seen'.names = seen.names
        /\ seen'.answers = seen.answers \cup AnswersOf(g)
    BY <1>1, <2>1, <2>3 DEF SeenType
  <2>5. Typed'
    BY <1>1, <2>2, <2>4 DEF RuleInv, Typed, DbType, SvcType, SeenType, Decision, Sources
  <2>6. Loaded' /\ NamesShown'
    BY <1>1, <2>4 DEF RuleInv, Loaded, NamesShown
  <2>7. AnswersSeen'
    <3>1. AnswersOf(db.global)' = AnswersOf(g)
      BY <2>2 DEF AnswersOf
    <3>2. CachedAnswerCurrent'
      BY <1>1, <2>4 DEF RuleInv, AnswersSeen, CachedAnswerCurrent
    <3>3. QED
      BY <2>4, <3>1, <3>2 DEF AnswersSeen
  <2>8. QED
    BY <1>1, <2>5, <2>6, <2>7, BetweenPackets DEF RuleInv
<1>4. QED
  BY <1>2, <1>3, Zenon DEF EditDatabase

\* The verdict is carried out.
LEMMA DispatchKeeps ==
  ASSUME RuleInv, Dispatch
  PROVE  FullInv'
<1>1. db' = db /\ svc' = svc /\ seen' = seen /\ last' = NoName
  BY DEF Dispatch
<1>2. RuleInv'
  BY <1>1 DEF RuleInv, Typed, Loaded, NamesShown, AnswersSeen, CachedAnswerCurrent, AnswersOf,
       DbType, SvcType, SeenType, Decision, Sources
<1>3. QED
  BY <1>1, <1>2, BetweenPackets

\* The invariant holds of the specification.
THEOREM RulesKept == Spec => []FullInv
<1>1. Init => FullInv
  BY InitKeeps
<1>2. FullInv /\ [Next]_vars => FullInv'
  <2> SUFFICES ASSUME FullInv, [Next]_vars
               PROVE  FullInv'
    OBVIOUS
  <2>1. RuleInv
    BY DEF FullInv
  <2>2. CASE \E u \in Senders, i \in Ips, n \in Hosts : dnsResolved(u, i, n)
    BY <2>1, <2>2, AnswerKeeps
  <2>3. CASE \E u \in Senders, i \in Ips : DropQuic(u, i)
    BY <2>1, <2>3, QuicKeeps
  <2>4. CASE \E u \in Senders, i \in Ips, n \in Names, v \in Services : CheckPacket(u, i, n, v)
    BY <2>1, <2>4, PacketKeeps
  <2>5. CASE Dispatch
    BY <2>1, <2>5, DispatchKeeps
  <2>6. CASE startNative
    BY <2>1, <2>6, StartKeeps
  <2>7. CASE EditDatabase
    BY <2>1, <2>7, EditKeeps
  <2>8. CASE UNCHANGED vars
    BY <2>8 DEF vars, FullInv, RuleInv, Typed, Loaded, NamesShown, AnswersSeen, CachedAnswerCurrent,
         AnswersOf, DbType, SvcType, SeenType, Decision, Sources, NameUsed, ForbiddenNameBlocked,
         NameDecides, Decided, HostForbidden, NamesDecide, getDomainName
  <2>9. QED
    BY <2>2, <2>3, <2>4, <2>5, <2>6, <2>7, <2>8, Zenon DEF Next
<1>3. QED
  BY <1>1, <1>2, PTL DEF Spec

\* The maps keep their types, whatever packets, answers, edits and restarts come.
THEOREM MapsTyped == Spec => []TypeOK
<1>1. FullInv => TypeOK
  <2> SUFFICES ASSUME FullInv
               PROVE  TypeOK
    OBVIOUS
  <2>1. svc \in SvcType /\ last \in Decision \cup {NoName}
    BY DEF FullInv, RuleInv, Typed
  <2>2. ASSUME NEW K, NEW m \in Maps(K)
        PROVE  AnswerMap(m, K)
    <3>1. PICK D \in SUBSET K : m \in [D -> BOOLEAN]
      BY DEF Maps
    <3>2. QED
      BY <3>1 DEF AnswerMap
  <2>3. svc.hosts \in Maps(Hosts) /\ svc.ips \in Maps(Ips)
    BY <2>1 DEF SvcType
  <2>4. AnswerMap(svc.hosts, Hosts) /\ AnswerMap(svc.ips, Ips)
    BY <2>2, <2>3
  <2>5. QED
    BY <2>1, <2>4 DEF TypeOK, SvcType
<1>2. QED
  BY <1>1, RulesKept, PTL

\* A packet passes only if the rules and the global list, as they are when it
\* is decided, do not forbid the server name in it (handle_ip's second check).
THEOREM NamesEnforced == Spec => []ForbiddenNameBlocked
<1>1. FullInv => ForbiddenNameBlocked
  BY DEF FullInv
<1>2. QED
  BY <1>1, RulesKept, PTL

\* Where no rule or list names the address, the server name alone decides.
THEOREM NameIsDecisive == Spec => []NameDecides
<1>1. FullInv => NameDecides
  BY DEF FullInv
<1>2. QED
  BY <1>1, RulesKept, PTL

\* No cached answer about an address survives a restart of the tunnel.
THEOREM AnswersCurrent == Spec => []CachedAnswerCurrent
<1>1. FullInv => CachedAnswerCurrent
  BY DEF FullInv, RuleInv, AnswersSeen
<1>2. QED
  BY <1>1, RulesKept, PTL

\* A verdict uses the app's own last name for the address, else the last one of
\* another app.
THEOREM OwnNameFirst == Spec => []NameOfTheApp
<1>1. FullInv => NameOfTheApp
  BY NamesGive DEF FullInv
<1>2. QED
  BY <1>1, RulesKept, PTL
=============================================================================
