-------------------------------- MODULE Rules --------------------------------
(***************************************************************************)
(* The routing rules: PrefixTrie and RuleMatcher of src/rule.rs, and       *)
(* Config::proxy_for of src/config.rs.  from_specs takes the rules one by  *)
(* one in command-line order and fails on the first it cannot parse.       *)
(*                                                                         *)
(* An IPv4 address is the sequence of its bits, most significant first.  A *)
(* regular expression is the set of host names it matches.  Bounds:        *)
(* MaxRules rules are given.                                               *)
(***************************************************************************)
EXTENDS Naturals, Sequences

CONSTANTS WIDTH,          \* bits of an address (32)
          Host, fold,     \* host names, and the name each equals up to case
          Proxy, DEFAULT, \* routes; the one of -x
          MaxRules

VARIABLES specs,            \* history: the rules accepted so far
          cidr,             \* the trie: a function from the paths of its nodes to their actions
          domain_patterns, domain_actions,
          outcome           \* "parsing", then "built" or "failed"

rulesVars == <<specs, cidr, domain_patterns, domain_actions, outcome>>

NoAction == "no action"

\* What is known of the constants: "no action" is no route, and fold gives a name.
ASSUME RulesAssumption ==
  WIDTH \in Nat /\ MaxRules \in Nat /\ fold \in [Host -> Host] /\ NoAction \notin Proxy

Addr == [1 .. WIDTH -> {0, 1}]

\* The first n bits of an address: the path of a node.
Path(value, n) == [i \in 1 .. n |-> value[i]]

\* What a rule can say: an address, a network with a prefix length (parsed as
\* u8, so it can be too large), a name, a regular expression, or nothing valid.
Spec_Ip == [kind : {"ip"}, addr : Addr, proxy : Proxy]
Spec_Cidr == [kind : {"cidr"}, addr : Addr, prefix : 0 .. WIDTH + 1, proxy : Proxy]
Spec_Domain == [kind : {"domain"}, host : Host, proxy : Proxy]
Spec_Regex == [kind : {"regex"}, matches : SUBSET Host, proxy : Proxy]
Malformed == [kind |-> "malformed"]

RulesInit ==
  /\ specs = <<>> /\ cidr = [p \in {<<>>} |-> NoAction]
  /\ domain_patterns = <<>> /\ domain_actions = <<>> /\ outcome = "parsing"

-----------------------------------------------------------------------------
\* A bug that lets a later rule replace an earlier one.
Entered_LastWins(trie, node, action) == action

\* The first rule keeps a node.
Entered(trie, node, action) ==
  IF node \in DOMAIN trie /\ trie[node] # NoAction THEN trie[node] ELSE action

\* PrefixTrie::insert makes the nodes along the path and enters the action.
insert(trie, value, prefix, action) ==
  LET path == {Path(value, n) : n \in 0 .. prefix}
      node == Path(value, prefix)
  IN  [p \in DOMAIN trie \cup path |->
         IF p = node THEN Entered(trie, node, action)
         ELSE IF p \in DOMAIN trie THEN trie[p] ELSE NoAction]

\* PrefixTrie::get walks down as long as there is a child, and remembers the
\* last action it has seen.
Reached(trie, value) ==
  {n \in 0 .. WIDTH : \A m \in 0 .. n : Path(value, m) \in DOMAIN trie}
Seen(trie, value) ==
  {n \in Reached(trie, value) : trie[Path(value, n)] # NoAction}

get(trie, value) ==
  IF Seen(trie, value) = {} THEN NoAction
  ELSE trie[Path(value, CHOOSE n \in Seen(trie, value) : \A m \in Seen(trie, value) : m <= n)]

\* RuleMatch::parse and the checks before it.
Valid(s) == s.kind # "malformed" /\ (s.kind = "cidr" => s.prefix <= WIDTH)

\* from_specs, one rule: what its kind does.
TakeIp(s) ==
  /\ s.kind = "ip" /\ cidr' = insert(cidr, s.addr, WIDTH, s.proxy)
  /\ UNCHANGED <<domain_patterns, domain_actions>>

TakeCidr(s) ==
  /\ s.kind = "cidr" /\ cidr' = insert(cidr, s.addr, s.prefix, s.proxy)
  /\ UNCHANGED <<domain_patterns, domain_actions>>

\* "(?i)^name$" with the name escaped: the names that differ in case alone.
TakeDomain(s) ==
  /\ s.kind = "domain"
  /\ domain_patterns' = Append(domain_patterns, {h \in Host : fold[h] = fold[s.host]})
  /\ domain_actions' = Append(domain_actions, s.proxy)
  /\ UNCHANGED cidr

TakeRegex(s) ==
  /\ s.kind = "regex" /\ domain_patterns' = Append(domain_patterns, s.matches)
  /\ domain_actions' = Append(domain_actions, s.proxy)
  /\ UNCHANGED cidr

Take(s) ==
  /\ outcome = "parsing" /\ Len(specs) < MaxRules /\ Valid(s)
  /\ TakeIp(s) \/ TakeCidr(s) \/ TakeDomain(s) \/ TakeRegex(s)
  /\ specs' = Append(specs, s) /\ UNCHANGED outcome

Reject(s) ==
  /\ outcome = "parsing" /\ Len(specs) < MaxRules /\ ~Valid(s) /\ outcome' = "failed"
  /\ UNCHANGED <<specs, cidr, domain_patterns, domain_actions>>

\* RegexSet::new over all patterns, which may fail although each one was valid.
Build ==
  /\ outcome = "parsing" /\ outcome' \in {"built", "failed"}
  /\ UNCHANGED <<specs, cidr, domain_patterns, domain_actions>>

RulesNext ==
  \/ \E s \in Spec_Ip \cup Spec_Cidr : Take(s) \/ Reject(s)
  \/ \E s \in Spec_Domain \cup Spec_Regex : Take(s)
  \/ Reject(Malformed)
  \/ Build

RulesSpec == RulesInit /\ [][RulesNext]_rulesVars

-----------------------------------------------------------------------------
(* Config::proxy_for.                                                      *)

match_ip(addr) == get(cidr, addr)

\* The RegexSet reports the patterns that match in their order.
match_domain(host) ==
  LET hits == {i \in 1 .. Len(domain_patterns) : host \in domain_patterns[i]}
  IN  IF hits = {} THEN NoAction
      ELSE domain_actions[CHOOSE i \in hits : \A j \in hits : i <= j]

OrDefault(action) == IF action = NoAction THEN DEFAULT ELSE action

proxy_for_ip(addr) == OrDefault(match_ip(addr))
proxy_for_domain(host) == OrDefault(match_domain(host))

-----------------------------------------------------------------------------
(* Properties.                                                             *)

\* What the rules say of an address: rule i covers it with n bits.
Prefix(i) == IF specs[i].kind = "ip" THEN WIDTH ELSE specs[i].prefix
IpRules == {i \in 1 .. Len(specs) : specs[i].kind \in {"ip", "cidr"}}
Covers(i, addr) == \A b \in 1 .. Prefix(i) : specs[i].addr[b] = addr[b]
Wins(i, addr) ==
  /\ i \in IpRules /\ Covers(i, addr)
  /\ \A j \in IpRules :
       Covers(j, addr) => Prefix(j) < Prefix(i) \/ (Prefix(j) = Prefix(i) /\ i <= j)

\* The trie routes an address by the most specific network that contains it,
\* by the earlier of two rules for the same network, and by -x if there is none,
\* however the rules for networks inside networks are ordered.
LongestPrefixWins ==
  \A addr \in Addr :
    \/ \E i \in 1 .. Len(specs) : Wins(i, addr) /\ proxy_for_ip(addr) = specs[i].proxy
    \/ (\A i \in IpRules : ~Covers(i, addr)) /\ proxy_for_ip(addr) = DEFAULT

\* Rule i names a host.
Names(i, host) ==
  \/ specs[i].kind = "domain" /\ fold[host] = fold[specs[i].host]
  \/ specs[i].kind = "regex" /\ host \in specs[i].matches

\* A name is routed by the first rule on the command line that names it, with
\* address rules in between or not, and by -x if there is none.
FirstNameWins ==
  \A host \in Host :
    \/ \E i \in 1 .. Len(specs) :
         /\ Names(i, host) /\ proxy_for_domain(host) = specs[i].proxy
         /\ \A j \in 1 .. i - 1 : ~Names(j, host)
    \/ (\A i \in 1 .. Len(specs) : ~Names(i, host)) /\ proxy_for_domain(host) = DEFAULT

\* The rules decide every route: both together, at every moment of from_specs
\* and for the matcher it returns.
RulesDecide == LongestPrefixWins /\ FirstNameWins
=============================================================================
