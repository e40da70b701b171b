-------------------------- MODULE XrayComposition ---------------------------
(***************************************************************************)
(* compose_xray_config and the validator of repo-owned Xray files          *)
(* (providers/gateway/xray_composition.py).  A configuration is a shell    *)
(* (log level, inbounds, Reality identity), the list of outbounds and the  *)
(* list of routing rules; Xray takes the first rule that matches.          *)
(***************************************************************************)
EXTENDS Integers, Sequences, FiniteSets

CONSTANTS
    Principals,   \* gateway principals (integers: the rules are sorted by them)
    Tags,         \* outbound tags "egress-<id>", as their place in sorted order
    Shells,       \* [level, dest, identity] a deployment may be given
    NULL

ASSUME PrincipalAssumption == Principals \subseteq Nat /\ IsFiniteSet(Principals)
ASSUME TagAssumption == Tags \subseteq Nat \ {0} /\ IsFiniteSet(Tags)
ASSUME RouteNullAssumption == NULL \notin Tags \cup Principals /\ NULL # "geoip:private"

BLOCK  == 0     \* the reserved tags
DIRECT == -1

\* DesiredRoutingState.user_routes; an outbound comes with every route.
Desired == [Principals -> Tags \cup {NULL}]

LogLevels == {"debug", "info", "warning", "error", "none"}

\* XrayStaticSkeleton, XrayDeploymentConfig and XrayRealityConfig refuse to be
\* built from malformed values.
Accepted(shell) ==
    /\ shell.level \in LogLevels
    /\ shell.dest # ""
    /\ shell.identity # ""

Sorted(S) == CHOOSE s \in [1..Cardinality(S) -> S] :
                \A i, j \in DOMAIN s : i < j => s[i] < s[j]

Routed(d) == {p \in Principals : d[p] # NULL}

PrivateRule  == [ip |-> "geoip:private", user |-> NULL, outboundTag |-> BLOCK]
FallbackRule == [ip |-> NULL, user |-> NULL, outboundTag |-> BLOCK]
UserRule(p, tag) == [ip |-> NULL, user |-> p, outboundTag |-> tag]

\* BLOCK, then the snapshot's outbounds, which it sorts by tag.
BlockOutbound == [tag |-> BLOCK, protocol |-> "blackhole"]
Outbounds(d) ==
    LET tags == Sorted({d[p] : p \in Routed(d)}) IN
    <<BlockOutbound>> \o [i \in DOMAIN tags |-> [tag |-> tags[i], protocol |-> "socks"]]

\* Mutant: the fallback rule comes first.
RulesFallbackFirst(d) ==
    LET users == Sorted(Routed(d)) IN
    <<PrivateRule, FallbackRule>> \o [i \in DOMAIN users |-> UserRule(users[i], d[users[i]])]

Rules(d) ==
    LET users == Sorted(Routed(d)) IN
    <<PrivateRule>> \o [i \in DOMAIN users |-> UserRule(users[i], d[users[i]])]
        \o <<FallbackRule>>

\* The snapshot refuses two routes with one tag; a malformed shell is refused
\* before anything is composed.
Composable(shell, d) ==
    /\ Accepted(shell)
    /\ \A p, q \in Routed(d) : d[p] = d[q] => p = q

compose_xray_config(shell, d) ==
    [shell |-> shell, outbounds |-> Outbounds(d), rules |-> Rules(d)]

-----------------------------------------------------------------------------
(* _validate_repo_owned_xray_config, section by section.                    *)

TagsOf(c) == {c.outbounds[i].tag : i \in DOMAIN c.outbounds}

ValidShell(c) == Accepted(c.shell)

ValidOutbounds(c) ==
    /\ c.outbounds # <<>>
    /\ c.outbounds[1] = BlockOutbound
    /\ \A i, j \in DOMAIN c.outbounds : c.outbounds[i].tag = c.outbounds[j].tag => i = j
    /\ \A i \in 2..Len(c.outbounds) : c.outbounds[i].protocol = "socks"
    /\ DIRECT \notin TagsOf(c)

ValidRules(c) ==
    LET n == Len(c.rules) IN
    /\ n >= 2
    /\ c.rules[1] = PrivateRule
    /\ c.rules[n] = FallbackRule
    /\ \A i \in 2..(n - 1) :
          /\ c.rules[i].user # NULL
          /\ c.rules[i].outboundTag \in TagsOf(c) \ {BLOCK, DIRECT}
          /\ \A j \in 2..(n - 1) : c.rules[i].user = c.rules[j].user => i = j

ValidConfig(c) == ValidShell(c) /\ ValidOutbounds(c) /\ ValidRules(c)

\* What Xray does with a connection of a principal: the first rule that matches.
Matches(rule, p, private) ==
    /\ rule.user \in {NULL, p}
    /\ rule.ip = "geoip:private" => private

Delivered(c, p, private) ==
    LET first == CHOOSE i \in DOMAIN c.rules :
                    /\ Matches(c.rules[i], p, private)
                    /\ \A j \in 1..(i - 1) : ~Matches(c.rules[j], p, private)
    IN c.rules[first].outboundTag
=============================================================================
