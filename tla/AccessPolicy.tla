---------------------------- MODULE AccessPolicy ----------------------------
(***************************************************************************)
(* The access rules (internal/service/access_controls_rules.go), the       *)
(* policy engine that turns their effects into access (policy_engine.go),  *)
(* and the order in which proxyHandler (internal/controller/               *)
(* proxy_controller.go) asks them, as one function from a configuration,   *)
(* the ACLs of an app and a visitor to an answer.                          *)
(*                                                                         *)
(* A filter is known by what CheckFilter makes of it: unset (""), blank,   *)
(* an invalid regular expression, the lone slash, or the inputs it         *)
(* accepts.  A path filter that is set is a regular expression whatever it *)
(* says: "/" and " " are lists of the paths they match.  An entry of an IP *)
(* list is valid or not and covers some addresses.  A user name stands for *)
(* the e-mail address too.                                                 *)
(***************************************************************************)

\* model.OverrideProviders, and the providers whose users come by OAuth.
OverrideProviders == {"google", "github"}
OAuthProviders == OverrideProviders \cup {"oauth"}

NoUser == [authenticated |-> FALSE, provider |-> "none", name |-> "", groups |-> {}]
IsOAuth(user) == user.provider \in OAuthProviders
IsLDAP(user) == user.provider = "ldap"

Unset == [kind |-> "unset", accepts |-> {}]
NoACLs == [exist |-> FALSE]
DefaultACLs ==
    [exist |-> TRUE,
     usersBlock |-> Unset, usersAllow |-> Unset, whitelist |-> Unset,
     oauthGroups |-> Unset, ldapGroups |-> Unset,
     pathBlock |-> Unset, pathAllow |-> Unset,
     ipBlock |-> {}, ipAllow |-> {}, ipBypass |-> {}]

\* What the decoders of the config file and of labels can yield.
FilterKinds == {"unset", "blank", "invalid", "slash", "list"}
FilterFields == {"usersBlock", "usersAllow", "whitelist", "oauthGroups",
                 "ldapGroups", "pathBlock", "pathAllow"}
PathFields == {"pathBlock", "pathAllow"}
IPFields == {"ipBlock", "ipAllow", "ipBypass"}
IsACLs(acls) ==
    /\ DOMAIN acls = {"exist"} \cup FilterFields \cup IPFields
    /\ acls.exist = TRUE
    /\ \A f \in FilterFields \ PathFields : acls[f].kind \in FilterKinds
    /\ \A f \in PathFields : acls[f].kind \in {"unset", "invalid", "list"}

-----------------------------------------------------------------------------
(* CheckFilter and CheckIPFilter.                                          *)

\* filter[1 : len(filter)-1] of a lone "/" is out of range.
CheckFilter(filter, input) ==
    CASE filter.kind \in {"unset", "blank"} -> "empty"
      [] filter.kind = "invalid"            -> "invalid"
      [] filter.kind = "slash"              -> "panic"
      [] filter.kind = "list"               ->
           IF input \in filter.accepts THEN "match" ELSE "none"

\* An address that does not parse, "none" here, is an error with every entry;
\* entries with an error are skipped.
IPListed(list, ip) ==
    ip # "none" /\ \E item \in list : item.valid /\ ip \in item.covers

-----------------------------------------------------------------------------
(* The rules: "allow", "deny", "abstain", or a panic.                      *)

Effects(match, none, empty, invalid) ==
    [match |-> match, none |-> none, empty |-> empty, invalid |-> invalid,
     panic |-> "panic"]

\* Mutants: an OAuth user without a whitelist is left to the default policy;
\* an allow list that cannot be read abstains.
whitelistOptional == Effects("allow", "deny", "abstain", "deny")
allowListLenient == Effects("allow", "deny", "abstain", "abstain")

\* What UserAllowedRule makes of the whitelist, the block and the allow list.
WhitelistEffect == Effects("allow", "deny", "deny", "deny")
BlockListEffect == Effects("deny", "allow", "deny", "deny")
AllowListEffect == Effects("allow", "deny", "abstain", "deny")

\* A block list, when there is one, decides alone.
UserAllowedRule(acls, user) ==
    IF user = NoUser THEN "deny"
    ELSE IF ~acls.exist THEN "abstain"
    ELSE IF IsOAuth(user) THEN WhitelistEffect[CheckFilter(acls.whitelist, user.name)]
    ELSE IF acls.usersBlock.kind # "unset"
      THEN BlockListEffect[CheckFilter(acls.usersBlock, user.name)]
      ELSE AllowListEffect[CheckFilter(acls.usersAllow, user.name)]

\* The loop over the groups of a user: what CheckFilter makes of an entry that
\* is no list does not depend on the group.
AnyGroup(filter, groups) ==
    LET results == {CheckFilter(filter, g) : g \in groups}
    IN  IF "panic" \in results THEN "panic"
        ELSE IF "match" \in results THEN "allow" ELSE "deny"

OAuthGroupRule(acls, user) ==
    IF user = NoUser THEN "deny"
    ELSE IF ~acls.exist \/ ~IsOAuth(user) \/ acls.oauthGroups.kind = "unset"
              \/ user.provider \in OverrideProviders
      THEN "allow"
      ELSE AnyGroup(acls.oauthGroups, user.groups)

LDAPGroupRule(acls, user) ==
    IF user = NoUser THEN "deny"
    ELSE IF ~acls.exist \/ ~IsLDAP(user) \/ acls.ldapGroups.kind = "unset"
      THEN "allow"
      ELSE AnyGroup(acls.ldapGroups, user.groups)

\* "allow" means that the path needs no authentication.
AuthEnabledRule(acls, path) ==
    LET block == acls.pathBlock
        allow == acls.pathAllow
    IN  IF ~acls.exist \/ block.kind = "invalid" THEN "deny"
        ELSE IF block.kind = "list" /\ path \notin block.accepts THEN "allow"
        ELSE IF allow.kind = "list" /\ path \in allow.accepts THEN "allow"
        ELSE "deny"

\* Mutant: the lists of an app replace the global ones.
appListOnly(global, acls, field) == IF acls.exist THEN acls[field] ELSE global

Merged(global, acls, field) == IF acls.exist THEN global \cup acls[field] ELSE global

IPAllowedRule(config, acls, ip) ==
    LET allowed == Merged(config.ipAllow, acls, "ipAllow")
    IN  IF IPListed(Merged(config.ipBlock, acls, "ipBlock"), ip) THEN "deny"
        ELSE IF IPListed(allowed, ip) \/ allowed = {} THEN "allow"
        ELSE "deny"

IPBypassedRule(config, acls, ip) ==
    IF IPListed(Merged(config.ipBypass, acls, "ipBypass"), ip) THEN "allow" ELSE "deny"

-----------------------------------------------------------------------------
(* PolicyEngine.Evaluate, and the decisions of proxyHandler in its order.  *)

effectToAccess(config, effect) ==
    effect = "allow" \/ (effect = "abstain" /\ config.policy = "allow")

\* The answer, and whether it carries the Remote-* headers.
Verdict(status, identity) == [status |-> status, identity |-> identity]

\* A panic ends in gin's Recovery.  The user is NoUser unless authenticated:
\* no context, a broken one and a pending one are alike.
Decision(config, acls, visitor) ==
    LET user == visitor.user
        Access(effect) == effectToAccess(config, effect)
        userRule == UserAllowedRule(acls, user)
        groupRule == IF IsOAuth(user) THEN OAuthGroupRule(acls, user)
                     ELSE IF IsLDAP(user) THEN LDAPGroupRule(acls, user)
                     ELSE "allow"
    IN  IF \/ Access(IPBypassedRule(config, acls, visitor.ip))
           \/ Access(AuthEnabledRule(acls, visitor.path))
          THEN Verdict("ok", FALSE)
        ELSE IF ~Access(IPAllowedRule(config, acls, visitor.ip)) THEN Verdict("forbidden", FALSE)
        ELSE IF ~user.authenticated THEN Verdict("login", FALSE)
        ELSE IF userRule = "panic" THEN Verdict("panic", FALSE)
        ELSE IF ~Access(userRule) THEN Verdict("forbidden", FALSE)
        ELSE IF groupRule = "panic" THEN Verdict("panic", FALSE)
        ELSE IF ~Access(groupRule) THEN Verdict("forbidden", FALSE)
        ELSE Verdict("ok", TRUE)
=============================================================================
