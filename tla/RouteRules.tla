------------------------------ MODULE RouteRules ------------------------------
(***************************************************************************)
(* Routing rules as the interface keeps them and as sing-box gets them     *)
(* (crates/config/src/route.rs), with what both are meant to decide.       *)
(*                                                                         *)
(* A value of a condition is a token; the order and repetition of values   *)
(* do not matter, so a condition has a set of them.  Text that is only     *)
(* blanks is the token Blank.                                              *)
(***************************************************************************)
EXTENDS Integers, Sequences, SequencesExt, FiniteSets

CONSTANTS
    PortNumbers,   \* the values that parse as u16; another value of a port is a range
    Published      \* the list names that begin with geosite- or geoip-

Blank == ""

MatchKinds == {"domain_suffix", "domain", "domain_keyword", "domain_regex", "ip_cidr",
               "port", "process", "rule_set"}
Actions == {"proxy", "direct", "block"}
Modes   == {"any", "all"}

ValueSets == {v \in SUBSET STRING : IsFiniteSet(v)}
Condition == [kind : MatchKinds, values : ValueSets]
RouteRule == [name : STRING, enabled : BOOLEAN, conditions : Seq(Condition), mode : Modes,
              action : Actions]

\* A rule as versions with one condition per rule wrote it.
OldRule == [name : STRING, enabled : BOOLEAN, conditions : {<<>>}, mode : Modes,
            action : Actions, kind : MatchKinds, values : ValueSets]

NewRule == [name |-> Blank, enabled |-> TRUE, conditions |-> <<>>, mode |-> "any",
            action |-> "direct"]
NewCondition == [kind |-> "domain_suffix", values |-> {}]

Kept(values) == values \ {Blank}

When(cond, s) == IF cond THEN s ELSE <<>>

Joined(seqs) ==
    LET joined[n \in 0 .. Len(seqs)] == IF n = 0 THEN <<>> ELSE joined[n - 1] \o seqs[n]
    IN  joined[Len(seqs)]

-----------------------------------------------------------------------------
(* The form sing-box reads.  A match is a sequence of parts under a type;  *)
(* a part is a set of items, each a field with its values.                 *)

field(kind, v) ==
    CASE kind = "process" -> "process_name"
      [] kind = "port" /\ v \notin PortNumbers -> "port_range"
      [] OTHER -> kind

\* Condition::to_singbox; the empty set is None.
ConditionToSingbox(c) ==
    LET Under(f) == {v \in Kept(c.values) : field(c.kind, v) = f}
    IN  {[field |-> f, values |-> Under(f)] : f \in {field(c.kind, v) : v \in Kept(c.values)}}

Flat(part) == [type |-> "default", mode |-> "", parts |-> <<part>>]

ActionOf(a) ==
    IF a = "block" THEN [action |-> "reject", outbound |-> ""]
                   ELSE [action |-> "route", outbound |-> a]

GivenBy(match, a) == [match |-> match, action |-> a.action, outbound |-> a.outbound]

\* The conditions that have values, in the order of the rule.
Parts(rule) ==
    LET Given(part) == When(part # {}, <<part>>)
    IN  Joined([i \in DOMAIN rule.conditions |-> Given(ConditionToSingbox(rule.conditions[i]))])

\* Mutant: the conditions are put into one rule.
ToSingboxMerged(rule) ==
    LET parts == Parts(rule)
    IN  IF ~rule.enabled \/ parts = <<>> THEN <<>>
        ELSE <<GivenBy(Flat(UNION ToSet(parts)), ActionOf(rule.action))>>

\* RouteRule::to_singbox, as a sequence that is empty for None.
to_singbox(rule) ==
    LET parts == Parts(rule)
        mode  == IF rule.mode = "any" THEN "or" ELSE "and"
        match == IF Len(parts) = 1 THEN Flat(parts[1])
                                   ELSE [type |-> "logical", mode |-> mode, parts |-> parts]
    IN  IF ~rule.enabled \/ parts = <<>> THEN <<>> ELSE <<GivenBy(match, ActionOf(rule.action))>>

\* RouteRule::rule_sets
rule_sets(rule) ==
    IF ~rule.enabled THEN {}
    ELSE UNION {Kept(rule.conditions[i].values) :
                    i \in {j \in DOMAIN rule.conditions : rule.conditions[j].kind = "rule_set"}}

\* The declaration of a ready-made list; no name but a published one has an address.
rule_set_declaration(name, detour) ==
    IF name \in Published THEN <<[tag |-> name, download_detour |-> detour]>> ELSE <<>>

-----------------------------------------------------------------------------
(* Rules in the database. *)

\* Deserialize for RouteRule
Deserialized(stored) ==
    [name |-> stored.name, enabled |-> stored.enabled, mode |-> stored.mode,
     action |-> stored.action,
     conditions |->
        IF stored.conditions = <<>> /\ "kind" \in DOMAIN stored
        THEN <<[kind |-> stored.kind, values |-> stored.values]>>
        ELSE stored.conditions]

-----------------------------------------------------------------------------
(* What a rule decides.  A connection is the set of the values, by kind,   *)
(* that are true of it; private: it goes to a private address; dns:        *)
(* sing-box has recognised it as a DNS query.                              *)

KindOf(f) == CASE f = "process_name" -> "process" [] f = "port_range" -> "port" [] OTHER -> f

\* The fields of one sing-box rule that are alternatives to one another; a
\* rule needs one of each group it states.
Alternatives(f) ==
    CASE f \in {"domain_suffix", "domain", "domain_keyword", "domain_regex", "ip_cidr"} -> "address"
      [] f \in {"port", "port_range"} -> "port"
      [] OTHER -> f

PartMatches(part, conn) ==
    \A item \in part : \E other \in part :
        /\ Alternatives(other.field) = Alternatives(item.field)
        /\ \E v \in other.values : <<KindOf(other.field), v>> \in conn.facts

\* Whether sing-box applies a rule to a connection.
Matches(match, conn) ==
    \/ match.type = "all"
    \/ match.type = "dns" /\ conn.dns
    \/ match.type = "private" /\ conn.private
    \/ /\ match.type \in {"default", "logical"}
       /\ IF match.mode = "or" THEN \E i \in DOMAIN match.parts : PartMatches(match.parts[i], conn)
                               ELSE \A i \in DOMAIN match.parts : PartMatches(match.parts[i], conn)

\* sniff and resolve look at a connection and go on to the next rule.
Final(rule) == rule.action \in {"route", "reject", "hijack-dns"}

FirstOf(S, none) == IF S = {} THEN none ELSE CHOOSE i \in S : \A j \in S : i <= j

\* The outcome of a list of sing-box rules.
Decided(rules, final, conn) ==
    LET hits == {i \in DOMAIN rules : Final(rules[i]) /\ Matches(rules[i].match, conn)}
        i    == FirstOf(hits, 0)
    IN  IF i = 0 THEN final
        ELSE IF rules[i].action = "route" THEN rules[i].outbound ELSE rules[i].action

\* What a condition, a rule and the list of the interface mean to the user: the
\* first rule that is switched on, says something and applies.
Says(c, conn)  == \E v \in Kept(c.values) : <<c.kind, v>> \in conn.facts
Stated(rule)   == {i \in DOMAIN rule.conditions : Kept(rule.conditions[i].values) # {}}
Applies(rule, conn) ==
    LET holds == {i \in Stated(rule) : Says(rule.conditions[i], conn)}
    IN  /\ rule.enabled /\ holds # {}
        /\ rule.mode = "any" \/ holds = Stated(rule)

Intended(rules, conn) ==
    LET i == FirstOf({k \in DOMAIN rules : Applies(rules[k], conn)}, 0)
    IN  IF i = 0 THEN "default" ELSE rules[i].action
=============================================================================
