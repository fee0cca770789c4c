------------------------------ MODULE StuRules ------------------------------
(***************************************************************************)
(* Where a short link sends its visitor: the choice of a rule out of the   *)
(* redirect_settings of the level.                                         *)
(*                                                                         *)
(* A rule is [isRecord, include, exclude, priority, link]: include and     *)
(* exclude are functions from keys of the visitor's context to conditions, *)
(* priority is a number in a list, or NoNumber, link is a name, or "" for  *)
(* a blank one and for one that is no text; the alias is appended to it,   *)
(* so that no link is "/".                                                 *)
(*                                                                         *)
(* A condition is [kind |-> "empty"], [kind |-> "list", values], or [kind  *)
(* |-> "text", within], where within are the values the text is a part of. *)
(* A context maps keys to values; letter case is gone from all of them.    *)
(***************************************************************************)
EXTENDS Integers, Sequences, FiniteSets, FiniteSetsExt, SequencesExt

NoNumber == <<>>
NoLink   == ""

Priority(rule) == IF rule.priority = NoNumber THEN 0 ELSE rule.priority[1]

(* A key the context does not have has the empty text for value. *)
ContextValue(context, key) == IF key \in DOMAIN context THEN context[key] ELSE ""

Holds(condition, value) ==
    IF condition.kind = "list" THEN value \in condition.values ELSE value \in condition.within

Given(group) == {key \in DOMAIN group : group[key].kind # "empty"}

(* A mutant of IsMatched: a group without a condition is matched. *)
IsMatchedByDefault(context, group) ==
    \A key \in Given(group) : Holds(group[key], ContextValue(context, key))

IsMatched(context, group) ==
    /\ Given(group) # {}
    /\ \A key \in Given(group) : Holds(group[key], ContextValue(context, key))

Matches(rule, context) ==
    /\ rule.isRecord
    /\ ~IsMatched(context, rule.exclude)
    /\ DOMAIN rule.include = {} \/ IsMatched(context, rule.include)

(* redirect_settings: [kind |-> "unreadable"] for what is neither a list   *)
(* nor an object nor JSON of one, [kind |-> "list", rules], or [kind |->   *)
(* "object", rules, strategy], where a strategy that is no text is         *)
(* "absent" and rules that are no list are empty.                          *)
RulesOf(settings) == IF settings.kind = "unreadable" THEN <<>> ELSE settings.rules

Strategy(settings) ==
    IF settings.kind = "object" /\ settings.strategy # "absent" THEN settings.strategy
                                                                ELSE "priority"

(* A link with its settings. *)
IsShortLink(link) ==
    LET rules == RulesOf(link.settings)
    IN /\ link.status \in {"missing", "deleted", "found"}
       /\ Len(rules) \in Nat /\ DOMAIN rules = 1..Len(rules)
       /\ \A i \in DOMAIN rules : Priority(rules[i]) \in Int /\ rules[i].link # "/"

(* The places of the rules that match, and these in the order of the sort, *)
(* which leaves rules of equal priority as they were.                      *)
MatchedRules(settings, context) ==
    {i \in DOMAIN RulesOf(settings) : Matches(settings.rules[i], context)}

SortedByPriority(rules, places) ==
    CHOOSE p \in Bijection(1..Cardinality(places), places) :
       \A k, l \in DOMAIN p : k < l =>
          \/ Priority(rules[p[k]]) > Priority(rules[p[l]])
          \/ Priority(rules[p[k]]) = Priority(rules[p[l]]) /\ p[k] < p[l]

(* The rules that may be chosen. *)
GetMatchedRule(settings, context) ==
    LET matched == MatchedRules(settings, context)
    IN IF matched = {} THEN {}
       ELSE CASE Strategy(settings) = "priority" ->
                   {settings.rules[SortedByPriority(settings.rules, matched)[1]]}
              [] Strategy(settings) = "random" -> {settings.rules[i] : i \in matched}
              [] OTHER -> {settings.rules[Min(matched)]}

(* determineRedirectUrl, and what show makes of its answer: the link of    *)
(* the rule, with the alias, or "/".  A link that is missing or deleted    *)
(* leads to the page 404.                                                  *)
Redirects(link, context) ==
    IF link.status \in {"missing", "deleted"} THEN {"404"}
    ELSE LET rules == GetMatchedRule(link.settings, context)
         IN IF rules = {} THEN {"/"}
            ELSE {IF rule.link = NoLink THEN "/" ELSE rule.link : rule \in rules}

(* What a request is sent by: buildUserContext falls back on the first     *)
(* language for a country, and on desktop for a device it has no name for. *)
UserContext(request) ==
    [country |-> IF request.country # "" THEN request.country
                 ELSE IF request.language # "" THEN request.language ELSE "xx",
     device  |-> IF request.device \in {"mobile", "tablet"} THEN request.device ELSE "desktop",
     browser |-> IF request.browser # "" THEN request.browser ELSE "unknown"]
=============================================================================
