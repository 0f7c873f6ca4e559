----------------------------- MODULE MCRuleCheck -----------------------------
(* Rule sets and blacklists for model checking RuleCheck. *)
EXTENDS RuleCheck

\* Lists of at most one target each, every combination of them.
SmallConfigs ==
  {c \in RuleConfig : \A l \in {c.white, c.black} : \A x, y \in l : x = y}

\* Every name blacklisted and one of them whitelisted; an exclusive whitelist.
NameConfigs ==
  LET h == CHOOSE x \in Hosts : TRUE
  IN  {[white |-> {h}, black |-> Hosts, exclusive |-> FALSE],
       [white |-> {h}, black |-> {}, exclusive |-> TRUE]}

\* No setting, or every app blocked and QUIC blocked for each of them.
SomeSettings == {[all |-> {}, quic |-> {}], [all |-> Uids, quic |-> Uids]}

\* Nothing is listed globally, or everything.
SomeGlobals == {[ips |-> {}, hosts |-> {}], [ips |-> Ips, hosts |-> Hosts]}

=============================================================================
