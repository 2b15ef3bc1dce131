--------------------------- MODULE MCForwardAuth ----------------------------
(***************************************************************************)
(* Instance of ForwardAuth for TLC: every configuration with at most two   *)
(* settings that are not the default, on one app in the config file, and   *)
(* two containers with all combinations of a few labels.                   *)
(***************************************************************************)
EXTENDS ForwardAuth

List(S) == [kind |-> "list", accepts |-> S]
Item(S) == [valid |-> TRUE, covers |-> S]

MCFirstLabel == [h \in {"app.home", "other.home"} |->
                   IF h = "app.home" THEN "app" ELSE "other"]

\* url.Path drops the query that the other modules leave in place.
MCPathOf == [p \in {"/", "/api", "/api?q"} \X {"ForwardAuth", "ExtAuthz", "AuthRequest"} |->
               IF p = <<"/api?q", "AuthRequest">> THEN "/api" ELSE p[1]]

User(provider, groups) ==
    [authenticated |-> TRUE, provider |-> provider, name |-> "alice", groups |-> groups]

Users == {NoUser} \cup {User(p, {}) : p \in {"local", "basic", "tailscale"}}
         \cup {User(p, g) : p \in {"oauth", "google", "ldap"}, g \in {{}, {"staff"}}}

Ask(proxy, modules, browser, user, ip, uri) ==
    [proxy |-> proxy, modules |-> modules, browser |-> browser, host |-> "app.home",
     user |-> user, ip |-> ip, uri |-> uri]

MCRequest ==
    {Ask("traefik", {"ForwardAuth"}, FALSE, u, ip, uri) :
       u \in Users, ip \in {"ip1", "ip2", "none"}, uri \in {"/", "/api"}}
    \cup {Ask(p, m, b, NoUser, "ip1", "/api?q") :
            p \in {"caddy", "envoy", "nginx", "other"}, b \in BOOLEAN,
            m \in {{}, {"ForwardAuth"}, {"ForwardAuth", "ExtAuthz", "AuthRequest"}}}

\* A setting is a field of the configuration or of the ACLs, with a value.
Settings ==
    ({"usersBlock", "usersAllow", "whitelist", "oauthGroups", "ldapGroups"}
       \X {List({"alice", "staff"}), List({"bob"}), BadFilter("invalid"),
           BadFilter("blank"), BadFilter("slash")})
    \cup ({"pathBlock", "pathAllow"} \X {List({"/api"}), BadFilter("invalid")})
    \cup ({"ipBlock", "ipAllow", "ipBypass", "globalBlock", "globalAllow", "globalBypass"}
            \X {{Item({"ip1"})}, {Item({"ip1", "ip2"}), BadItem}})

Value(S, field, default) ==
    IF \E s \in S : s[1] = field THEN (CHOOSE s \in S : s[1] = field)[2] ELSE default

Config(S, policy) ==
    [policy |-> policy, ipBlock |-> Value(S, "globalBlock", {}),
     ipAllow |-> Value(S, "globalAllow", {}), ipBypass |-> Value(S, "globalBypass", {})]
ACLs(S) ==
    [f \in DOMAIN DefaultACLs |-> IF f = "exist" THEN TRUE ELSE Value(S, f, DefaultACLs[f])]

App(name, domain, acls) == [name |-> name, domain |-> domain, acls |-> acls]
NoLabels == [c \in Container |-> [decodable |-> TRUE, apps |-> {}]]

Selections == {S \in {{s, t} : s, t \in Settings} : \A s, t \in S : s[1] = t[1] => s = t}

MCStaticSetup ==
    {[labelProvider |-> "none", config |-> Config(S, p), labels |-> NoLabels,
      apps |-> {App("app", "", ACLs(S))}] : S \in Selections, p \in {"allow", "deny"}}
    \cup {[labelProvider |-> "none", config |-> Config({}, "allow"), labels |-> NoLabels,
           apps |-> {App("app", "", ACLs({})),
                     App("web", d, ACLs({<<"usersAllow", List({"bob"})>>}))}] :
            d \in {"app.home", "other.home"}}

\* By name, by domain with other ACLs, an app of another host, and labels that
\* cannot be decoded.
Labels ==
    LET named == App("app", "", ACLs({<<"usersAllow", List({"alice"})>>}))
        owner == App("web", "app.home", ACLs({<<"usersAllow", List({"bob"})>>}))
        other == App("other", "", ACLs({}))
    IN  {[decodable |-> TRUE, apps |-> S] :
           S \in {{}, {other}, {named}, {owner}, {named, owner, other}}}
        \cup {[decodable |-> FALSE, apps |-> {}]}

MCDockerSetup ==
    {[labelProvider |-> "docker", config |-> Config({}, p), labels |-> l, apps |-> {}] :
       l \in [Container -> Labels], p \in {"allow", "deny"}}
=============================================================================
