------------------------------ MODULE ConfigMap ------------------------------
(***************************************************************************)
(* framework/config/map.go: how the directives of a block become the       *)
(* values of a module, with the global directives behind them.             *)
(***************************************************************************)
EXTENDS ConfigNode, Integers, Sequences, SequencesExt, FiniteSets, TLC

CONSTANTS
    Numbers,    \* words strconv accepts
    Durations,  \* word -> seconds, for the words time.ParseDuration accepts
    Sizes       \* word -> bytes, for number and unit

(* matcher.  kind says how the directive is read; allowed are the words of  *)
(* an enumeration, space and iface the namespace and interface of a module. *)
Matcher(kind, inherit, required, dflt) ==
    [kind |-> kind, inherit |-> inherit, required |-> required, dflt |-> dflt,
     allowed |-> {}, space |-> "", iface |-> ""]
Enum(inherit, dflt, allowed) == [Matcher("enum", inherit, FALSE, dflt) EXCEPT !.allowed = allowed]
Module(kind, inherit, required, space, iface) ==
    [Matcher(kind, inherit, required, <<>>) EXCEPT !.space = space, !.iface = iface]

(* Directives that name a module, and the ones that may be repeated. *)
ModuleKinds == {"module", "callback", "tls"}
ValueKinds == {"enum_list", "enum", "duration", "size", "bool", "string_list", "string", "int", "float"}

Yes == {"1", "true", "on", "yes"}
No == {"0", "false", "off", "no"}

------------------------------------------------------------------------------
(* The mappers: the value of a directive, as a set that is empty when the   *)
(* directive is refused.  An empty block is taken for none.                 *)

Args(n) == [i \in DOMAIN n.args |-> n.args[i].v]
NoBlock(n) == n.kids = <<>>

StringListOf(n) == {w \in {Args(n)} : NoBlock(n) /\ w # <<>>}
StringOf(n) == {w \in StringListOf(n) : Len(w) = 1}
IntOf(n) == {w \in StringOf(n) : w[1] \in Numbers}
(* FloatOf does not look at the block. *)
FloatOf(n) == {w \in {Args(n)} : Len(w) = 1 /\ w[1] \in Numbers}
EnumListOf(n, allowed) == {w \in StringListOf(n) : Range(w) \subseteq allowed}
EnumOf(n, allowed) == {w \in StringOf(n) : w[1] \in allowed}

(* DurationOf joins its words and parses them as one duration: a sign at    *)
(* the front makes it negative, which is refused, and one further on is an  *)
(* error.  DataSizeOf adds its words up.                                    *)
Total(w, f) == FoldLeft(LAMBDA total, word : total + f[word], 0, w)
DurationOf(n) ==
    LET unsigned == {word \in DOMAIN Durations : Durations[word] >= 0}
    IN  {<<Total(w, Durations)>> : w \in {v \in StringListOf(n) : Range(v) \subseteq unsigned}}
DataSizeOf(n) == {<<Total(w, Sizes)>> : w \in {v \in StringListOf(n) : Range(v) \subseteq DOMAIN Sizes}}

BoolOf(n) ==
    LET w == Args(n)
    IN  IF ~NoBlock(n) \/ Len(w) > 1 THEN {}
        ELSE IF w = <<>> \/ w[1] \in Yes THEN {<<"yes">>}
        ELSE IF w[1] \in No THEN {<<"no">>} ELSE {}

Mapped(m, n) ==
    CASE m.kind = "enum_list" -> EnumListOf(n, m.allowed)
      [] m.kind = "enum" -> EnumOf(n, m.allowed)
      [] m.kind = "duration" -> DurationOf(n)
      [] m.kind = "size" -> DataSizeOf(n)
      [] m.kind = "bool" -> BoolOf(n)
      [] m.kind = "string_list" -> StringListOf(n)
      [] m.kind = "string" -> StringOf(n)
      [] m.kind = "int" -> IntOf(n)
      [] m.kind = "float" -> FloatOf(n)

Zero(kind) ==
    CASE kind = "bool" -> <<"no">>
      [] kind = "string" -> <<"">>
      [] kind \in {"duration", "size"} -> <<0>>
      [] kind \in {"int", "float"} -> <<"0">>
      [] OTHER -> <<>>

------------------------------------------------------------------------------
(* ProcessWith, from the view of one block *)

(* What first says, and second where first is silent. *)
Over(first, second) == [x \in DOMAIN first \cup DOMAIN second |-> IF x \in DOMAIN first THEN first[x] ELSE second[x]]
Assign(vals, name, v) == [x \in DOMAIN vals \cup {name} |-> IF x = name THEN v ELSE vals[x]]

(* What is left to do for the matchers no directive matched: the ones       *)
(* without a value, and where the others get theirs.                        *)
Unmatched(matchers, seen) == {d \in DOMAIN matchers : d \notin seen /\ matchers[d].kind # "callback"}
Inherited(m, d, globals) == m.inherit /\ d \in DOMAIN globals
Missing(matchers, seen, globals) ==
    {d \in Unmatched(matchers, seen) : matchers[d].required /\ ~Inherited(matchers[d], d, globals)}
Filled(matchers, seen, globals) ==
    [d \in Unmatched(matchers, seen) |->
        IF Inherited(matchers[d], d, globals) THEN globals[d] ELSE matchers[d].dflt]

(* The values kept for others to inherit: not a default that is zero, so    *)
(* that a required directive nobody gave is still missing.                  *)
KeptDefaults(matchers, vals, filled) == Over(vals, filled)
Kept(matchers, vals, filled) ==
    Over(vals, [d \in {x \in DOMAIN filled : filled[x] # Zero(matchers[x].kind)} |-> filled[d]])
==============================================================================
