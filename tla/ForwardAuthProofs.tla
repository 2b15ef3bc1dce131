-------------------------- MODULE ForwardAuthProofs --------------------------
(***************************************************************************)
(* The laws of the access rules, and the forward-auth endpoint with        *)
(* containers that come and go, proved for every set of requests, every    *)
(* configuration and any number of containers.                             *)
(***************************************************************************)
EXTENDS ForwardAuth, FiniteSetTheorems, TLAPS

(***************************************************************************)
(* What the rules can say.                                                 *)
(***************************************************************************)
GroupRule(acls, user) ==
    IF IsOAuth(user) THEN OAuthGroupRule(acls, user)
    ELSE IF IsLDAP(user) THEN LDAPGroupRule(acls, user)
    ELSE "allow"

LEMMA RuleEffects ==
  ASSUME NEW config, NEW acls, NEW user, NEW ip, NEW path
  PROVE  /\ IPBypassedRule(config, acls, ip) \in {"allow", "deny"}
         /\ AuthEnabledRule(acls, path) \in {"allow", "deny"}
         /\ IPAllowedRule(config, acls, ip) \in {"allow", "deny"}
         /\ GroupRule(acls, user) \in {"allow", "deny", "panic"}
<1>1. IPBypassedRule(config, acls, ip) \in {"allow", "deny"}
  BY DEF IPBypassedRule
<1>2. AuthEnabledRule(acls, path) \in {"allow", "deny"}
  BY DEF AuthEnabledRule
<1>3. IPAllowedRule(config, acls, ip) \in {"allow", "deny"}
  BY DEF IPAllowedRule
<1>4. \A f, g : AnyGroup(f, g) \in {"allow", "deny", "panic"}
  BY DEF AnyGroup
<1>5. OAuthGroupRule(acls, user) \in {"allow", "deny", "panic"}
  BY <1>4 DEF OAuthGroupRule
<1>6. LDAPGroupRule(acls, user) \in {"allow", "deny", "panic"}
  BY <1>4 DEF LDAPGroupRule
<1> QED
  BY <1>1, <1>2, <1>3, <1>5, <1>6 DEF GroupRule

\* Open: no authentication is asked for.
Open(config, acls, v) ==
    \/ IPBypassedRule(config, acls, v.ip) = "allow"
    \/ AuthEnabledRule(acls, v.path) = "allow"

\* Decision in terms of what the rules say: only the rule for users leaves
\* anything to the default policy.
LEMMA DecisionCases ==
  ASSUME NEW config, NEW acls, NEW v
  PROVE  LET rule == UserAllowedRule(acls, v.user)
             group == GroupRule(acls, v.user)
         IN  Decision(config, acls, v) =
               IF Open(config, acls, v) THEN Verdict("ok", FALSE)
               ELSE IF IPAllowedRule(config, acls, v.ip) # "allow"
                 THEN Verdict("forbidden", FALSE)
               ELSE IF ~v.user.authenticated THEN Verdict("login", FALSE)
               ELSE IF rule = "panic" THEN Verdict("panic", FALSE)
               ELSE IF ~effectToAccess(config, rule) THEN Verdict("forbidden", FALSE)
               ELSE IF group = "panic" THEN Verdict("panic", FALSE)
               ELSE IF group # "allow" THEN Verdict("forbidden", FALSE)
               ELSE Verdict("ok", TRUE)
<1>1. /\ effectToAccess(config, IPBypassedRule(config, acls, v.ip))
           <=> IPBypassedRule(config, acls, v.ip) = "allow"
      /\ effectToAccess(config, AuthEnabledRule(acls, v.path))
           <=> AuthEnabledRule(acls, v.path) = "allow"
      /\ effectToAccess(config, IPAllowedRule(config, acls, v.ip))
           <=> IPAllowedRule(config, acls, v.ip) = "allow"
      /\ effectToAccess(config, GroupRule(acls, v.user))
           <=> GroupRule(acls, v.user) = "allow"
  BY RuleEffects DEF effectToAccess
<1> QED
  BY <1>1, Zenon DEF Decision, Open, GroupRule

LEMMA DecisionOk ==
  ASSUME NEW config, NEW acls, NEW v
  PROVE  /\ Decision(config, acls, v).status = "ok" <=>
              \/ Open(config, acls, v)
              \/ /\ IPAllowedRule(config, acls, v.ip) = "allow"
                 /\ v.user.authenticated
                 /\ UserAllowedRule(acls, v.user) # "panic"
                 /\ effectToAccess(config, UserAllowedRule(acls, v.user))
                 /\ GroupRule(acls, v.user) = "allow"
         /\ Decision(config, acls, v).status \in {"ok", "forbidden", "login", "panic"}
         /\ Decision(config, acls, v).identity = TRUE => v.user.authenticated
BY DecisionCases DEF Verdict

(***************************************************************************)
(* Global and local lists are one.                                         *)
(***************************************************************************)
LEMMA MergeLaw ==
  ASSUME NEW config, NEW acls, NEW v,
         {"policy"} \cup IPFields \subseteq DOMAIN config, IsACLs(acls)
  PROVE  LET global == [f \in DOMAIN config |->
                          IF f \in IPFields THEN config[f] \cup acls[f] ELSE config[f]]
             local == [f \in DOMAIN acls |-> IF f \in IPFields THEN {} ELSE acls[f]]
         IN  Decision(global, local, v) = Decision(config, acls, v)
<1> DEFINE global == [f \in DOMAIN config |->
                        IF f \in IPFields THEN config[f] \cup acls[f] ELSE config[f]]
           local == [f \in DOMAIN acls |-> IF f \in IPFields THEN {} ELSE acls[f]]
<1>1. /\ global.policy = config.policy
      /\ global.ipBlock = config.ipBlock \cup acls.ipBlock
      /\ global.ipAllow = config.ipAllow \cup acls.ipAllow
      /\ global.ipBypass = config.ipBypass \cup acls.ipBypass
  BY DEF IPFields
<1>2. /\ local.exist = TRUE /\ acls.exist = TRUE
      /\ local["ipBlock"] = {} /\ local["ipAllow"] = {} /\ local["ipBypass"] = {}
      /\ local.usersBlock = acls.usersBlock /\ local.usersAllow = acls.usersAllow
      /\ local.whitelist = acls.whitelist /\ local.oauthGroups = acls.oauthGroups
      /\ local.ldapGroups = acls.ldapGroups
      /\ local.pathBlock = acls.pathBlock /\ local.pathAllow = acls.pathAllow
  BY DEF IsACLs, IPFields, FilterFields
<1> HIDE DEF global, local
<1>3. /\ IPBypassedRule(global, local, v.ip) = IPBypassedRule(config, acls, v.ip)
      /\ IPAllowedRule(global, local, v.ip) = IPAllowedRule(config, acls, v.ip)
  BY <1>1, <1>2 DEF IPBypassedRule, IPAllowedRule, Merged
<1>4. AuthEnabledRule(local, v.path) = AuthEnabledRule(acls, v.path)
  BY <1>2 DEF AuthEnabledRule
<1>5. UserAllowedRule(local, v.user) = UserAllowedRule(acls, v.user)
  BY <1>2, Zenon DEF UserAllowedRule
<1>6. GroupRule(local, v.user) = GroupRule(acls, v.user)
  BY <1>2, Zenon DEF GroupRule, OAuthGroupRule, LDAPGroupRule
<1>7. \A effect : effectToAccess(global, effect) <=> effectToAccess(config, effect)
  BY <1>1 DEF effectToAccess
<1>8. Decision(global, local, v) = Decision(config, acls, v)
  BY <1>3, <1>4, <1>5, <1>6, <1>7, DecisionCases, Zenon DEF Open
<1> QED
  BY <1>8 DEF global, local

(***************************************************************************)
(* Mistakes only close.                                                    *)
(***************************************************************************)
LEMMA FilterValues ==
  ASSUME NEW filter, NEW input
  PROVE  /\ filter.kind \in {"unset", "blank"} => CheckFilter(filter, input) = "empty"
         /\ filter.kind = "invalid" => CheckFilter(filter, input) = "invalid"
         /\ filter.kind = "slash" => CheckFilter(filter, input) = "panic"
         /\ filter.kind = "list" =>
              CheckFilter(filter, input) = IF input \in filter.accepts THEN "match" ELSE "none"
BY DEF CheckFilter

\* Whoever is let in with other is let in with acls.
NoWider(config, other, acls, v) ==
    Decision(config, other, v).status = "ok" => Decision(config, acls, v).status = "ok"

\* It is enough to compare the rules one by one.
LEMMA RulesNarrow ==
  ASSUME NEW config, NEW other, NEW acls, NEW v,
         Open(config, other, v) => Open(config, acls, v),
         IPAllowedRule(config, other, v.ip) = "allow" =>
           IPAllowedRule(config, acls, v.ip) = "allow",
         UserAllowedRule(other, v.user) \in {UserAllowedRule(acls, v.user), "deny", "panic"},
         GroupRule(other, v.user) \in {GroupRule(acls, v.user), "deny", "panic"}
  PROVE  NoWider(config, other, acls, v)
<1>1. ~effectToAccess(config, "deny")
  BY DEF effectToAccess
<1> QED
  BY <1>1, DecisionOk DEF NoWider

LEMMA BadFilterNarrows ==
  ASSUME NEW config, NEW acls, NEW v, IsACLs(acls),
         NEW bad \in {"invalid", "slash"}, NEW f \in FilterFields,
         bad = "invalid" \/ f \notin PathFields
  PROVE  NoWider(config, [acls EXCEPT ![f] = BadFilter(bad)], acls, v)
<1> DEFINE other == [acls EXCEPT ![f] = BadFilter(bad)]
<1>1. /\ other[f].kind = bad /\ other.exist = TRUE /\ acls.exist = TRUE
      /\ \A g \in (FilterFields \cup IPFields) \ {f} : other[g] = acls[g]
      /\ f \notin IPFields
  BY DEF IsACLs, FilterFields, IPFields, BadFilter
<1> HIDE DEF other
<1>2. /\ other["ipBlock"] = acls["ipBlock"] /\ other["ipAllow"] = acls["ipAllow"]
      /\ other["ipBypass"] = acls["ipBypass"]
  BY <1>1 DEF IPFields
<1>3. /\ IPBypassedRule(config, other, v.ip) = IPBypassedRule(config, acls, v.ip)
      /\ IPAllowedRule(config, other, v.ip) = IPAllowedRule(config, acls, v.ip)
  BY <1>1, <1>2, Zenon DEF IPBypassedRule, IPAllowedRule, Merged
<1>4. /\ \A g \in FilterFields : other[g] = acls[g] \/ other[g].kind \in {"invalid", "slash"}
      /\ \A g \in PathFields : other[g] = acls[g] \/ other[g].kind = "invalid"
  BY <1>1 DEF FilterFields, PathFields
<1>5. /\ other.pathBlock = acls.pathBlock \/ other.pathBlock.kind = "invalid"
      /\ other.pathAllow = acls.pathAllow \/ other.pathAllow.kind = "invalid"
      /\ other.usersBlock = acls.usersBlock \/ other.usersBlock.kind \in {"invalid", "slash"}
      /\ other.usersAllow = acls.usersAllow \/ other.usersAllow.kind \in {"invalid", "slash"}
      /\ other.whitelist = acls.whitelist \/ other.whitelist.kind \in {"invalid", "slash"}
      /\ other.oauthGroups = acls.oauthGroups \/ other.oauthGroups.kind \in {"invalid", "slash"}
      /\ other.ldapGroups = acls.ldapGroups \/ other.ldapGroups.kind \in {"invalid", "slash"}
  BY <1>4 DEF FilterFields, PathFields
<1>6. AuthEnabledRule(other, v.path) = "allow" => AuthEnabledRule(acls, v.path) = "allow"
  BY <1>1, <1>5 DEF AuthEnabledRule
<1>7. UserAllowedRule(other, v.user) \in {UserAllowedRule(acls, v.user), "deny", "panic"}
  <2>1. \A r \in {"invalid", "panic"} :
          /\ WhitelistEffect[r] \in {"deny", "panic"} /\ BlockListEffect[r] \in {"deny", "panic"}
          /\ AllowListEffect[r] \in {"deny", "panic"}
    BY DEF WhitelistEffect, BlockListEffect, AllowListEffect, Effects
  <2>2. \A g : g.kind \in {"invalid", "slash"} =>
                 CheckFilter(g, v.user.name) \in {"invalid", "panic"}
    BY FilterValues
  <2> QED
    BY <1>1, <1>5, <2>1, <2>2 DEF UserAllowedRule
<1>8. GroupRule(other, v.user) \in {GroupRule(acls, v.user), "deny", "panic"}
  <2>1. \A g, groups : g.kind \in {"invalid", "slash"} =>
                         AnyGroup(g, groups) \in {"deny", "panic"}
    BY FilterValues DEF AnyGroup
  <2>2. OAuthGroupRule(other, v.user) \in {OAuthGroupRule(acls, v.user), "deny", "panic"}
    BY <1>1, <1>5, <2>1 DEF OAuthGroupRule
  <2>3. LDAPGroupRule(other, v.user) \in {LDAPGroupRule(acls, v.user), "deny", "panic"}
    BY <1>1, <1>5, <2>1 DEF LDAPGroupRule
  <2> QED
    BY <2>2, <2>3 DEF GroupRule
<1>9. NoWider(config, other, acls, v)
  BY <1>3, <1>6, <1>7, <1>8, RulesNarrow DEF Open
<1> QED
  BY <1>9 DEF other

LEMMA BadItemNarrows ==
  ASSUME NEW config, NEW acls, NEW v, IsACLs(acls), NEW f \in {"ipAllow", "ipBypass"},
         NEW i \in acls[f]
  PROVE  NoWider(config, [acls EXCEPT ![f] = (@ \ {i}) \cup {BadItem}], acls, v)
<1> DEFINE other == [acls EXCEPT ![f] = (@ \ {i}) \cup {BadItem}]
<1>1. /\ other[f] = (acls[f] \ {i}) \cup {BadItem} /\ other.exist = TRUE /\ acls.exist = TRUE
      /\ \A g \in (FilterFields \cup IPFields) \ {f} : other[g] = acls[g]
  BY DEF IsACLs, FilterFields, IPFields
<1> HIDE DEF other
<1>2. /\ other.pathBlock = acls.pathBlock /\ other.pathAllow = acls.pathAllow
      /\ other.usersBlock = acls.usersBlock /\ other.usersAllow = acls.usersAllow
      /\ other.whitelist = acls.whitelist
      /\ other.oauthGroups = acls.oauthGroups /\ other.ldapGroups = acls.ldapGroups
      /\ other["ipBlock"] = acls["ipBlock"]
  BY <1>1 DEF FilterFields, IPFields
<1>3. /\ AuthEnabledRule(other, v.path) = AuthEnabledRule(acls, v.path)
      /\ UserAllowedRule(other, v.user) = UserAllowedRule(acls, v.user)
      /\ GroupRule(other, v.user) = GroupRule(acls, v.user)
  BY <1>1, <1>2, Zenon
  DEF AuthEnabledRule, UserAllowedRule, GroupRule, OAuthGroupRule, LDAPGroupRule
\* The wrong entry covers nothing, but the list is not empty.
<1>4. \A g \in {"ipAllow", "ipBypass"} : \A S :
        /\ S \cup other[g] # {} \/ acls[g] = {}
        /\ IPListed(S \cup other[g], v.ip) => IPListed(S \cup acls[g], v.ip)
  <2>1. ASSUME NEW g \in {"ipAllow", "ipBypass"}
        PROVE  other[g] = acls[g] \/ other[g] = (acls[g] \ {i}) \cup {BadItem}
    BY <1>1 DEF IPFields
  <2>2. v.ip \notin BadItem.covers
    BY DEF BadItem
  <2> QED
    BY <2>1, <2>2 DEF IPListed
<1>5. IPBypassedRule(config, other, v.ip) = "allow" => IPBypassedRule(config, acls, v.ip) = "allow"
  BY <1>1, <1>4 DEF IPBypassedRule, Merged
<1>6. IPAllowedRule(config, other, v.ip) = "allow" => IPAllowedRule(config, acls, v.ip) = "allow"
  <2>1. /\ Merged(config.ipBlock, other, "ipBlock") = Merged(config.ipBlock, acls, "ipBlock")
        /\ Merged(config.ipAllow, other, "ipAllow") = config.ipAllow \cup other["ipAllow"]
        /\ Merged(config.ipAllow, acls, "ipAllow") = config.ipAllow \cup acls["ipAllow"]
    BY <1>1, <1>2 DEF Merged
  <2> QED
    BY <1>4, <2>1 DEF IPAllowedRule
<1>7. NoWider(config, other, acls, v)
  BY <1>3, <1>5, <1>6, RulesNarrow DEF Open
<1> QED
  BY <1>7 DEF other

LEMMA MistakesLaw ==
  ASSUME NEW config, NEW acls, NEW v, IsACLs(acls), NEW other \in Misspelt(acls)
  PROVE  NoWider(config, other, acls, v)
<1>1. \/ \E f \in FilterFields : other = [acls EXCEPT ![f] = BadFilter("invalid")]
      \/ \E f \in FilterFields \ PathFields :
           other = [acls EXCEPT ![f] = BadFilter("slash")]
      \/ \E f \in {"ipAllow", "ipBypass"} : \E i \in acls[f] :
           other = [acls EXCEPT ![f] = (@ \ {i}) \cup {BadItem}]
  BY DEF Misspelt
<1> QED
  BY <1>1, BadFilterNarrows, BadItemNarrows

(***************************************************************************)
(* The default policy is for users without a list.                         *)
(***************************************************************************)
LEMMA AbstainsForUnlisted ==
  ASSUME NEW acls, NEW user, IsACLs(acls) \/ acls = NoACLs,
         UserAllowedRule(acls, user) = "abstain"
  PROVE  \/ ~acls.exist
         \/ /\ ~IsOAuth(user)
            /\ acls.usersBlock.kind = "unset"
            /\ acls.usersAllow.kind \in {"unset", "blank"}
<1> DEFINE R == {"match", "none", "empty", "invalid", "panic"}
<1>1. \A r \in R : /\ WhitelistEffect[r] # "abstain" /\ BlockListEffect[r] # "abstain"
                   /\ AllowListEffect[r] = "abstain" => r = "empty"
  BY DEF WhitelistEffect, BlockListEffect, AllowListEffect, Effects
<1>2. \A f, x : f.kind \in FilterKinds =>
                  /\ CheckFilter(f, x) \in R
                  /\ CheckFilter(f, x) = "empty" => f.kind \in {"unset", "blank"}
  BY FilterValues DEF FilterKinds
<1>3. acls.exist => /\ acls.whitelist.kind \in FilterKinds
                    /\ acls.usersBlock.kind \in FilterKinds
                    /\ acls.usersAllow.kind \in FilterKinds
  BY DEF IsACLs, NoACLs, FilterFields, PathFields
<1> HIDE DEF R
<1> QED
  BY <1>1, <1>2, <1>3 DEF UserAllowedRule

LEMMA DefaultLaw ==
  ASSUME NEW config, NEW acls, NEW v, "policy" \in DOMAIN config,
         IsACLs(acls) \/ acls = NoACLs,
         Decision([config EXCEPT !.policy = "allow"], acls, v)
           # Decision([config EXCEPT !.policy = "deny"], acls, v)
  PROVE  /\ v.user.authenticated
         /\ Decision([config EXCEPT !.policy = "deny"], acls, v).status = "forbidden"
         /\ \/ ~acls.exist
            \/ /\ ~IsOAuth(v.user)
               /\ acls.usersBlock.kind = "unset"
               /\ acls.usersAllow.kind \in {"unset", "blank"}
<1> DEFINE allow == [config EXCEPT !.policy = "allow"]
           deny == [config EXCEPT !.policy = "deny"]
           rule == UserAllowedRule(acls, v.user)
<1>1. /\ allow.policy = "allow" /\ deny.policy = "deny"
      /\ \A f \in IPFields : allow[f] = config[f] /\ deny[f] = config[f]
  BY DEF IPFields
<1>2. /\ allow.ipBlock = deny.ipBlock /\ allow.ipAllow = deny.ipAllow
      /\ allow.ipBypass = deny.ipBypass
  BY <1>1 DEF IPFields
<1> HIDE DEF allow, deny
<1>3. /\ IPBypassedRule(allow, acls, v.ip) = IPBypassedRule(deny, acls, v.ip)
      /\ IPAllowedRule(allow, acls, v.ip) = IPAllowedRule(deny, acls, v.ip)
  BY <1>2, Zenon DEF IPBypassedRule, IPAllowedRule
<1>4. /\ effectToAccess(allow, rule) <=> rule \in {"allow", "abstain"}
      /\ effectToAccess(deny, rule) <=> rule = "allow"
  BY <1>1 DEF effectToAccess
<1>5. Decision(allow, acls, v) # Decision(deny, acls, v)
  BY DEF allow, deny
<1>6. /\ v.user.authenticated /\ rule = "abstain"
      /\ Decision(deny, acls, v) = Verdict("forbidden", FALSE)
  BY <1>3, <1>4, <1>5, DecisionCases DEF Open
<1> QED
  BY <1>6, AbstainsForUnlisted DEF Verdict, deny

(***************************************************************************)
(* The request.  An answer that was decided is what the rules make of the  *)
(* ACLs that were found, and of a container that runs all the time nothing *)
(* is overlooked: it is still to be inspected, or has no app for the host. *)
(***************************************************************************)
IsSetup ==
    /\ {"policy"} \cup IPFields \subseteq DOMAIN setup.config
    /\ \A a \in setup.apps : IsACLs(a.acls)
    /\ \A c \in Container : \A a \in setup.labels[c].apps : IsACLs(a.acls)

Claimed(c, q) == Claims(setup.labels[c].apps, q.host)

\* The ACLs are from an app of the list by domain, or of one by name when there
\* is none by domain.
FoundIn(apps, q, acls) == \E a \in Lookup(apps, q.host) : a.acls = acls

Asking ==
    /\ req.at = "getContainers" =>
         req \in [at : {"getContainers"}, q : Request, steady : SUBSET Container]
    /\ req.at = "inspectContainer" =>
         req \in [at : {"inspectContainer"}, q : Request, steady : SUBSET Container,
                  left : Seq(Container)]
    /\ req.at \in {"getContainers", "inspectContainer"} =>
         req.steady \subseteq Running /\ ~Claims(setup.apps, req.q.host)

Inspecting ==
    req.at = "inspectContainer" =>
      /\ Descending(req.left)
      /\ \A c \in req.steady :
           Claimed(c, req.q) => \E i \in 1 .. Len(req.left) : req.left[i] = c

Answer ==
    req.at = "answered" =>
      /\ req.q \in Request /\ req.steady \subseteq Container
      /\ \E verdict \in {Verdict("badRequest", FALSE), Verdict("error", FALSE),
                         VerdictWith(setup.config, req.acls)} :
           req.response = Respond(req.q, verdict)
      /\ \/ /\ req.from = 0 /\ FoundIn(setup.apps, req.q, req.acls)
         \/ /\ req.from \in Container
            /\ FoundIn(setup.labels[req.from].apps, req.q, req.acls)
            /\ ~Claims(setup.apps, req.q.host)
            /\ \A c \in req.steady : c > req.from => ~Claimed(c, req.q)
         \/ /\ req.from = 0 /\ req.acls = NoACLs
            /\ \/ req.response.status \in {"badRequest", "error"}
               \/ /\ ~Claims(setup.apps, req.q.host)
                  /\ \A c \in req.steady : ~Claimed(c, req.q)

IInv ==
    /\ IsSetup
    /\ status \in [Container -> {"future", "running", "stopped", "removed"}]
    /\ req = Idle \/ req.at \in {"getContainers", "inspectContainer", "answered"}
    /\ Asking /\ Inspecting /\ Answer

LEMMA LookupFinds ==
  ASSUME NEW apps, NEW host
  PROVE  /\ Lookup(apps, host) = {} <=> ~Claims(apps, host)
         /\ Lookup(apps, host) \subseteq apps
BY DEF Lookup, Claims, ByDomain, ByName

\* What Decide leaves behind; acls, from and steady are those of one of its uses.
LEMMA DecideAnswers ==
  ASSUME IInv, UNCHANGED <<setup, status>>,
         NEW q \in Request, NEW acls, NEW from, NEW steady \in SUBSET Container,
         Decide(q, acls, from, steady),
         \/ /\ from = 0 /\ FoundIn(setup.apps, q, acls)
         \/ /\ from \in Container /\ FoundIn(setup.labels[from].apps, q, acls)
            /\ ~Claims(setup.apps, q.host)
            /\ \A c \in steady : c > from => ~Claimed(c, q)
         \/ /\ from = 0 /\ acls = NoACLs
            /\ ~Claims(setup.apps, q.host)
            /\ \A c \in steady : ~Claimed(c, q)
  PROVE  IInv'
<1> DEFINE v == Decision(setup.config, acls,
                         [user |-> q.user, ip |-> q.ip, path |-> PathSeen(q)])
<1>1. /\ req'.at = "answered" /\ req'.q = q /\ req'.acls = acls /\ req'.from = from
      /\ req'.steady = steady /\ req'.response = Respond(q, v)
  BY DEF Decide, Answered
<1>2. VerdictWith(setup.config, req.acls)' = v
  BY <1>1, Zenon DEF VerdictWith
<1> HIDE DEF v
<1>3. Answer'
  BY <1>1, <1>2 DEF Answer, FoundIn, Claimed
<1>4. Asking' /\ Inspecting'
  BY <1>1 DEF Asking, Inspecting
<1> QED
  BY <1>1, <1>3, <1>4 DEF IInv, IsSetup

\* Answers without a decision.
LEMMA RefusalAnswers ==
  ASSUME IInv, UNCHANGED <<setup, status>>,
         NEW q \in Request, NEW steady \in SUBSET Container,
         NEW why \in {"badRequest", "error"},
         Answered(q, Verdict(why, FALSE), NoACLs, 0, steady)
  PROVE  IInv'
<1>1. /\ req'.at = "answered" /\ req'.q = q /\ req'.acls = NoACLs /\ req'.from = 0
      /\ req'.steady = steady /\ req'.response = Respond(q, Verdict(why, FALSE))
  BY DEF Answered
<1>2. Respond(q, Verdict(why, FALSE)).status = why
  BY DEF Respond, Verdict
<1>3. Answer'
  BY <1>1, <1>2 DEF Answer
<1>4. Asking' /\ Inspecting'
  BY <1>1 DEF Asking, Inspecting
<1> QED
  BY <1>1, <1>3, <1>4 DEF IInv, IsSetup

LEMMA NextKeepsIInv == IInv /\ [Next]_vars => IInv'
<1> SUFFICES ASSUME IInv, [Next]_vars
             PROVE  IInv'
  OBVIOUS
<1>1. CASE UNCHANGED vars
  <2>1. UNCHANGED <<setup, status, req>>
    BY <1>1 DEF vars
  <2>2. Asking' /\ Inspecting'
    BY <2>1 DEF IInv, Asking, Inspecting, Running, Claimed
  <2>3. Answer'
    BY <2>1, Zenon DEF IInv, Answer, VerdictWith, Claimed, FoundIn
  <2> QED
    BY <2>1, <2>2, <2>3 DEF IInv, IsSetup
<1>2. ASSUME NEW q \in Request, proxyHandler(q)
      PROVE  IInv'
  <2>1. UNCHANGED <<setup, status>> /\ {} \in SUBSET Container
    BY <1>2 DEF proxyHandler
  <2>2. CASE Answered(q, Verdict("badRequest", FALSE), NoACLs, 0, {})
    BY <2>1, <2>2, RefusalAnswers
  <2>3. ASSUME NEW a \in Lookup(setup.apps, q.host), Decide(q, a.acls, 0, {})
        PROVE  IInv'
    BY <2>1, <2>3, DecideAnswers DEF FoundIn
  <2>4. CASE Lookup(setup.apps, q.host) = {} /\ Decide(q, NoACLs, 0, {})
    BY <2>1, <2>4, DecideAnswers, LookupFinds
  <2>5. CASE /\ Lookup(setup.apps, q.host) = {}
             /\ req' = [at |-> "getContainers", q |-> q, steady |-> Running]
    <3>1. ~Claims(setup.apps, q.host)
      BY <2>5, LookupFinds
    <3>2. req' \in [at : {"getContainers"}, q : Request, steady : SUBSET Container]
      BY <2>5 DEF Running
    <3>3. Asking' /\ Inspecting' /\ Answer'
      BY <2>1, <2>5, <3>1, <3>2 DEF Asking, Inspecting, Answer, Running
    <3> QED
      BY <2>1, <2>5, <3>3 DEF IInv, IsSetup
  <2> QED
    BY <1>2, <2>2, <2>3, <2>4, <2>5 DEF proxyHandler
<1>3. CASE getContainers
  <2>1. /\ UNCHANGED <<setup, status>> /\ req.at = "getContainers"
        /\ req \in [at : {"getContainers"}, q : Request, steady : SUBSET Container]
        /\ req.steady \subseteq Running /\ ~Claims(setup.apps, req.q.host)
    BY <1>3 DEF getContainers, IInv, Asking
  <2>2. CASE Fail(req.steady)
    BY <2>1, <2>2, RefusalAnswers DEF Fail
  <2>3. ASSUME NEW left \in [1 .. Cardinality(Running) -> Running], Descending(left),
               req' = [at |-> "inspectContainer", q |-> req.q, steady |-> req.steady,
                       left |-> left]
        PROVE  IInv'
    <3> DEFINE n == Cardinality(Running)
    <3>1. IsFiniteSet(Running) /\ n \in Nat
      <4>1. IsFiniteSet(Container) /\ Running \subseteq Container
        BY FS_Interval, NumContainersAssumption DEF Container, Running
      <4> QED
        BY <4>1, FS_Subset, FS_CardinalityType
    <3> HIDE DEF n
    <3>2. left \in Seq(Running) /\ Len(left) = n
      BY <2>3, <3>1 DEF n
    <3>3. left \in Injection(1 .. n, Running)
      <4>1. \A i, j \in 1 .. n : left[i] = left[j] => i = j
        <5> SUFFICES ASSUME NEW i \in 1 .. n, NEW j \in 1 .. n, i < j
                     PROVE  left[i] # left[j]
          BY <3>1
        <5>1. left[i] > left[j] /\ left[i] \in Int /\ left[j] \in Int
          BY <2>3, <3>2, NumContainersAssumption DEF Descending, Running, Container, n
        <5> QED
          BY <5>1
      <4> QED
        BY <2>3, <4>1 DEF Injection, IsInjective, n
    <3>4. left \in Surjection(1 .. n, Running)
      BY <3>1, <3>3, FS_Injection, FS_Interval DEF n
    <3>5. \A c \in Running : \E i \in 1 .. Len(left) : left[i] = c
      BY <3>2, <3>4 DEF Surjection
    <3>6. left \in Seq(Container)
      BY <3>2 DEF Running
    <3>7. req' \in [at : {"inspectContainer"}, q : Request, steady : SUBSET Container,
                    left : Seq(Container)]
      BY <2>1, <2>3, <3>6
    <3>8. Asking' /\ Inspecting' /\ Answer'
      BY <2>1, <2>3, <3>5, <3>7 DEF Asking, Inspecting, Answer, Running
    <3> QED
      BY <2>1, <2>3, <3>8 DEF IInv, IsSetup
  <2> QED
    BY <1>3, <2>2, <2>3 DEF getContainers
<1>4. ASSUME inspectContainer \/ noContainer
      PROVE  IInv'
  <2>1. /\ UNCHANGED <<setup, status>> /\ req.at = "inspectContainer"
        /\ req \in [at : {"inspectContainer"}, q : Request, steady : SUBSET Container,
                    left : Seq(Container)]
        /\ req.steady \subseteq Running /\ ~Claims(setup.apps, req.q.host)
        /\ Descending(req.left)
        /\ \A c \in req.steady :
             Claimed(c, req.q) => \E i \in 1 .. Len(req.left) : req.left[i] = c
    BY <1>4 DEF inspectContainer, noContainer, IInv, Asking, Inspecting
  <2>2. CASE noContainer
    <3>1. \A c \in req.steady : ~Claimed(c, req.q)
      BY <2>1, <2>2 DEF noContainer
    <3> QED
      BY <2>1, <2>2, <3>1, DecideAnswers DEF noContainer
  <2>3. CASE inspectContainer
    <3> DEFINE c == Head(req.left)
               found == Lookup(setup.labels[c].apps, req.q.host)
    <3>1. /\ req.left # << >> /\ c \in Container /\ c = req.left[1]
          /\ Len(req.left) \in Nat \ {0}
          /\ \A i \in 1 .. Len(req.left) : req.left[i] \in Container
      BY <2>1, <2>3 DEF inspectContainer
    <3>2. CASE Fail(req.steady)
      BY <2>1, <3>2, RefusalAnswers DEF Fail
    <3>3. ASSUME NEW a \in found, Decide(req.q, a.acls, c, req.steady)
          PROVE  IInv'
      <4>1. ASSUME NEW d \in req.steady, d > c
            PROVE  ~Claimed(d, req.q)
        <5>1. \A i \in 1 .. Len(req.left) : i # 1 => c > req.left[i]
          BY <2>1, <3>1 DEF Descending
        <5>2. \A i \in 1 .. Len(req.left) : req.left[i] # d
          BY <3>1, <4>1, <5>1, NumContainersAssumption DEF Container
        <5> QED
          BY <2>1, <5>2
      <4>2. FoundIn(setup.labels[c].apps, req.q, a.acls)
        BY <3>3 DEF FoundIn
      <4> QED
        BY <2>1, <3>1, <3>3, <4>1, <4>2, DecideAnswers
    <3>4. CASE found = {} /\ req' = [req EXCEPT !.left = Tail(@)]
      <4>1. ~Claimed(c, req.q)
        BY <3>4, LookupFinds DEF Claimed
      <4>2. /\ Tail(req.left) \in Seq(Container)
            /\ Len(Tail(req.left)) = Len(req.left) - 1
            /\ \A i \in 1 .. Len(req.left) - 1 : Tail(req.left)[i] = req.left[i + 1]
        BY <2>1, <3>1
      <4>3. /\ req' \in [at : {"inspectContainer"}, q : Request, steady : SUBSET Container,
                         left : Seq(Container)]
            /\ req'.at = "inspectContainer" /\ req'.q = req.q /\ req'.steady = req.steady
            /\ req'.left = Tail(req.left)
        BY <2>1, <3>4, <4>2
      <4>4. Descending(Tail(req.left))
        BY <2>1, <3>1, <4>2 DEF Descending
      <4>5. ASSUME NEW d \in req.steady, Claimed(d, req.q)
            PROVE  \E i \in 1 .. Len(Tail(req.left)) : Tail(req.left)[i] = d
        <5>1. PICK i \in 1 .. Len(req.left) : req.left[i] = d
          BY <2>1, <4>5
        <5>2. i # 1
          BY <3>1, <4>1, <4>5, <5>1
        <5>3. i - 1 \in 1 .. Len(Tail(req.left)) /\ Tail(req.left)[i - 1] = d
          BY <3>1, <4>2, <5>1, <5>2
        <5> QED
          BY <5>3
      <4>6. Asking' /\ Answer'
        BY <2>1, <4>3 DEF Asking, Answer, Running
      <4>7. Inspecting'
        BY <2>1, <4>3, <4>4, <4>5 DEF Inspecting, Descending, Claimed
      <4> QED
        BY <2>1, <4>3, <4>6, <4>7 DEF IInv, IsSetup
    <3> QED
      BY <2>3, <3>2, <3>3, <3>4 DEF inspectContainer
  <2> QED
    BY <1>4, <2>2, <2>3
<1>5. CASE finish
  <2>1. req' = Idle /\ req'.at = "idle" /\ UNCHANGED <<setup, status>>
    BY <1>5 DEF finish, Idle
  <2> QED
    BY <2>1 DEF IInv, IsSetup, Asking, Inspecting, Answer
<1>6. ASSUME NEW c \in Container,
             containerStart(c) \/ containerStop(c) \/ containerRemove(c)
      PROVE  IInv'
  <2>1. status' \in [Container -> {"future", "running", "stopped", "removed"}]
        /\ UNCHANGED setup
    BY <1>6 DEF containerStart, containerStop, containerRemove, IInv
  <2>2. CASE /\ req.at \in {"getContainers", "inspectContainer"}
             /\ req' = [req EXCEPT !.steady = @ \ {c}]
             /\ Running \ {c} \subseteq Running'
    <3>1. /\ req'.at = req.at /\ req'.q = req.q /\ req'.steady = req.steady \ {c}
          /\ req'.at = "getContainers" =>
               req' \in [at : {"getContainers"}, q : Request, steady : SUBSET Container]
          /\ req'.at = "inspectContainer" =>
               /\ req'.left = req.left
               /\ req' \in [at : {"inspectContainer"}, q : Request, steady : SUBSET Container,
                            left : Seq(Container)]
      BY <2>2 DEF IInv, Asking
    <3>2. Asking' /\ Answer'
      BY <2>1, <2>2, <3>1 DEF Asking, Answer, IInv
    <3>3. Inspecting'
      BY <2>1, <3>1 DEF Inspecting, IInv, Descending, Claimed
    <3> QED
      BY <2>1, <2>2, <3>1, <3>2, <3>3 DEF IInv, IsSetup
  <2>3. CASE /\ UNCHANGED req
             /\ \/ Running \subseteq Running'
                \/ req.at \notin {"getContainers", "inspectContainer"}
    <3>1. Asking' /\ Inspecting'
      BY <2>1, <2>3 DEF Asking, Inspecting, IInv, Claimed
    <3>2. Answer'
      BY <2>1, <2>3, Zenon DEF IInv, Answer, VerdictWith, Claimed, FoundIn
    <3> QED
      BY <2>1, <2>3, <3>1, <3>2 DEF IInv, IsSetup
  <2> QED
    BY <1>6, <2>2, <2>3 DEF containerStart, containerStop, containerRemove, Running, IInv
<1> QED
  BY <1>1, <1>2, <1>3, <1>4, <1>5, <1>6 DEF Next

LEMMA InvariantHolds == Spec => []IInv
<1>1. Init => IInv
  <2> SUFFICES ASSUME Init PROVE IInv
    OBVIOUS
  <2>1. IsSetup
    BY SetupAssumption DEF Init, IsSetup
  <2>2. req = Idle /\ req.at = "idle"
    BY DEF Init, Idle
  <2> QED
    BY <2>1, <2>2 DEF Init, IInv, Asking, Inspecting, Answer
<1> QED
  BY <1>1, NextKeepsIInv, PTL DEF Spec

(***************************************************************************)
(* The theorems.                                                           *)
(***************************************************************************)

\* What a decided answer carries, with well-formed ACLs or none.
LEMMA DecidedAnswer ==
  ASSUME IInv, Decided
  PROVE  /\ req.response.status = VerdictWith(setup.config, req.acls).status
         /\ IsACLs(req.acls) \/ req.acls = NoACLs
         /\ "policy" \in DOMAIN setup.config /\ IPFields \subseteq DOMAIN setup.config
         /\ req.acls = NoACLs =>
              /\ ~Claims(setup.apps, req.q.host)
              /\ \A c \in req.steady : ~Claimed(c, req.q)
<1>1. \A q, v : Respond(q, v).status = v.status
  BY DEF Respond
<1>2. /\ Verdict("badRequest", FALSE).status = "badRequest"
      /\ Verdict("error", FALSE).status = "error"
  BY DEF Verdict
<1>3. req.response.status = VerdictWith(setup.config, req.acls).status
  <2>1. PICK verdict \in {Verdict("badRequest", FALSE), Verdict("error", FALSE),
                          VerdictWith(setup.config, req.acls)} :
          req.response = Respond(req.q, verdict)
    BY DEF IInv, Answer, Decided
  <2>2. verdict.status \notin {"badRequest", "error"}
    BY <1>1, <2>1 DEF Decided
  <2> QED
    BY <1>1, <1>2, <2>1, <2>2, Zenon
<1>4. /\ FoundIn(setup.apps, req.q, req.acls) => IsACLs(req.acls)
      /\ \A c \in Container :
           FoundIn(setup.labels[c].apps, req.q, req.acls) => IsACLs(req.acls)
  BY LookupFinds DEF IInv, IsSetup, FoundIn
<1>5. IsACLs(req.acls) => req.acls # NoACLs
  BY DEF IsACLs, NoACLs
<1> QED
  BY <1>3, <1>4, <1>5 DEF IInv, IsSetup, Answer, Decided

\* proxyHandler, GetAccessControls and GetLabels keep the types of the request,
\* its answer and the list of containers still to be inspected, and only a
\* logged-in visitor gets an answer with identity headers.
THEOREM TypeCorrect == Spec => []TypeOK
<1>1. IInv => TypeOK
  <2> SUFFICES ASSUME IInv PROVE TypeOK
    OBVIOUS
  <2>1. Idle.at = "idle"
    BY DEF Idle
  <2>2. ASSUME req.at = "answered"
        PROVE  /\ req.response.status \in
                    {"ok", "badRequest", "forbidden", "login", "error", "panic"}
               /\ req.response.identity => req.q.user.authenticated
    <3> DEFINE v == [user |-> req.q.user, ip |-> req.q.ip, path |-> PathSeen(req.q)]
    <3>1. PICK verdict \in {Verdict("badRequest", FALSE), Verdict("error", FALSE),
                            Decision(setup.config, req.acls, v)} :
            req.response = Respond(req.q, verdict)
      BY <2>2 DEF IInv, Answer, VerdictWith
    <3>2. req.response.status = verdict.status /\ req.response.identity = verdict.identity
      BY <3>1 DEF Respond
    <3>3. v.user = req.q.user
      OBVIOUS
    <3> HIDE DEF v
    <3>4. CASE verdict = Verdict("badRequest", FALSE) \/ verdict = Verdict("error", FALSE)
      BY <3>2, <3>4 DEF Verdict
    <3>5. CASE verdict = Decision(setup.config, req.acls, v)
      BY <3>2, <3>3, <3>5, DecisionOk
    <3> QED
      BY <3>1, <3>4, <3>5
  <2> QED
    BY <2>1, <2>2 DEF TypeOK, IInv, Asking, Inspecting, Answer
<1> QED
  BY <1>1, InvariantHolds, PTL

\* A mistake in the ACLs never opens an app: a filter that does not compile, or
\* an entry of an allow or bypass list that does not parse, lets nobody in whom
\* the rules of access_controls_rules.go refused without it.
THEOREM MistakesOnlyClose == Spec => []MistakesNeverOpen
<1>1. IInv => MistakesNeverOpen
  <2> SUFFICES ASSUME IInv, Decided, req.acls.exist, req.response.status # "ok",
                      NEW acls \in Misspelt(req.acls)
               PROVE  VerdictWith(setup.config, acls).status # "ok"
    BY DEF MistakesNeverOpen
  <2>1. IsACLs(req.acls)
    BY DecidedAnswer DEF NoACLs
  <2> QED
    BY <2>1, DecidedAnswer, MistakesLaw DEF NoWider, VerdictWith
<1> QED
  BY <1>1, InvariantHolds, PTL

\* The default policy (effectToAccess of policy_engine.go) decides about nobody
\* but logged-in users for whom the app has no list, and "deny" never admits
\* somebody whom "allow" does not.
THEOREM DefaultForUnlistedOnly == Spec => []DefaultOnlyForUnlisted
<1>1. IInv => DefaultOnlyForUnlisted
  <2> SUFFICES ASSUME IInv, Decided PROVE DefaultOnlyForUnlisted
    BY DEF DefaultOnlyForUnlisted
  <2> DEFINE v == [user |-> req.q.user, ip |-> req.q.ip, path |-> PathSeen(req.q)]
             under(p) == Decision([setup.config EXCEPT !.policy = p], req.acls, v)
  <2>1. v.user = req.q.user
    OBVIOUS
  <2>2. under("allow") # under("deny") =>
          /\ v.user.authenticated
          /\ under("deny").status = "forbidden"
          /\ \/ ~req.acls.exist
             \/ /\ ~IsOAuth(v.user)
                /\ req.acls.usersBlock.kind = "unset"
                /\ req.acls.usersAllow.kind \in {"unset", "blank"}
    <3> HIDE DEF v
    <3> QED
      BY DecidedAnswer, DefaultLaw
  <2> QED
    BY <2>1, <2>2, Zenon DEF DefaultOnlyForUnlisted, VerdictWith
<1> QED
  BY <1>1, InvariantHolds, PTL

\* Whether an address is on the list of the app or on the global one makes no
\* difference to anybody (IPAllowedRule and IPBypassedRule merge them).
THEOREM ListsAreOne == Spec => []ListsMerge
<1>1. IInv => ListsMerge
  <2> SUFFICES ASSUME IInv, Decided, req.acls.exist PROVE ListsMerge
    BY DEF ListsMerge
  <2>1. IsACLs(req.acls)
    BY DecidedAnswer DEF NoACLs
  <2> QED
    BY <2>1, DecidedAnswer, MergeLaw, Zenon DEF ListsMerge, VerdictWith
<1> QED
  BY <1>1, InvariantHolds, PTL

\* Containers that come and go, and a daemon that fails, never make the app of a
\* container that runs all the time look unprotected (GetLabels of
\* docker_service.go returns its ACLs or an error).
THEOREM NothingUnprotected == Spec => []NeverUnprotected
<1>1. IInv => NeverUnprotected
  <2>1. \A acls : IsACLs(acls) => acls.exist
    BY DEF IsACLs
  <2> QED
    BY <2>1, DecidedAnswer DEF NeverUnprotected, Claimed
<1> QED
  BY <1>1, InvariantHolds, PTL

\* An app is found by its domain before one by its name (lookupStaticACLs and
\* GetLabels), and of the containers that run all the time and claim the host
\* the newest one wins, whatever containers do meanwhile.
THEOREM FirstMatchFound == Spec => []FirstMatchWins
<1>1. IInv => FirstMatchWins
  <2> SUFFICES ASSUME IInv, Decided, req.acls.exist PROVE FirstMatchWins
    BY DEF FirstMatchWins
  <2>1. req.acls # NoACLs
    BY DEF NoACLs
  <2>2. \A apps : FoundIn(apps, req.q, req.acls) /\ ByDomain(apps, req.q.host) # {} =>
                    \E a \in ByDomain(apps, req.q.host) : a.acls = req.acls
    BY DEF FoundIn, Lookup
  <2>3. 0 \notin Container
    BY DEF Container
  <2> QED
    BY <2>1, <2>2, <2>3 DEF IInv, Answer, Decided, FirstMatchWins, Claimed
<1> QED
  BY <1>1, InvariantHolds, PTL
==============================================================================
