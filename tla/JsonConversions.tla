---------------------------- MODULE JsonConversions ----------------------------
(***************************************************************************)
(* What a Json::Value that is no container can be taken for: its is, as    *)
(* and isConvertibleTo functions, and the order of values.  Integers have  *)
(* a smaller width; a real is counted in halves, and the greatest integers *)
(* are taken to be rounded up when they are made reals, as 2^63 - 1 is.    *)
(***************************************************************************)
EXTENDS Integers, Sequences

CONSTANTS
  MaxInt,        \* of Value::Int
  MaxLargestInt  \* of Value::Int64

MaxUInt == 2 * MaxInt + 1
MinInt == -MaxInt - 1
MaxUInt64 == 2 * MaxLargestInt + 1
MinInt64 == -MaxLargestInt - 1

Value(type, n) == [type |-> type, n |-> n]

\* A string counts its characters.
Ints == {Value("int", n) : n \in MinInt64 .. MaxLargestInt}
UInts == {Value("uint", n) : n \in 0 .. MaxUInt64}
Reals == {Value("real", n) : n \in 2 * MinInt64 - 4 .. 2 * MaxUInt64 + 6}
Others == {Value("null", 0), Value("bool", 0), Value("bool", 1), Value("string", 0), Value("string", 1)}
Simple == Ints \cup UInts \cup Reals \cup Others

Within(n, low, high) == low <= n /\ n <= high
IsIntegral(halves) == halves % 2 = 0

\* InRange of a real, where the bounds are reals already.
InRange(v, low, high) == Within(v.n, 2 * low, 2 * high)

IsInt(v) ==
  CASE v.type = "int" -> Within(v.n, MinInt, MaxInt)
    [] v.type = "uint" -> v.n <= MaxInt
    [] v.type = "real" -> InRange(v, MinInt, MaxInt) /\ IsIntegral(v.n)
    [] OTHER -> FALSE

IsUInt(v) ==
  CASE v.type \in {"int", "uint"} -> Within(v.n, 0, MaxUInt)
    [] v.type = "real" -> InRange(v, 0, MaxUInt) /\ IsIntegral(v.n)
    [] OTHER -> FALSE

IsInt64(v) ==
  CASE v.type = "int" -> TRUE
    [] v.type = "uint" -> v.n <= MaxLargestInt
    [] v.type = "real" -> InRange(v, MinInt64, MaxLargestInt + 1) /\ v.n # 2 * (MaxLargestInt + 1) /\ IsIntegral(v.n)
    [] OTHER -> FALSE

IsUInt64(v) ==
  CASE v.type = "int" -> v.n >= 0
    [] v.type = "uint" -> TRUE
    [] v.type = "real" -> InRange(v, 0, MaxUInt64 + 1) /\ v.n # 2 * (MaxUInt64 + 1) /\ IsIntegral(v.n)
    [] OTHER -> FALSE

ValueIsIntegral(v) ==
  \/ v.type \in {"int", "uint"}
  \/ v.type = "real" /\ InRange(v, MinInt64, MaxUInt64 + 1) /\ v.n # 2 * (MaxUInt64 + 1) /\ IsIntegral(v.n)

IsNumeric(v) == v.type \in {"int", "uint", "real"}

-----------------------------------------------------------------------------
(* What the as functions return: a number, or an exception, or, of a real  *)
(* that is out of range, whatever the build makes of it.                   *)

Gives(n) == [how |-> "returns", n |-> n]
Throws == [how |-> "throws", n |-> 0]
Undefined == [how |-> "undefined", n |-> 0]

\* A cast cuts towards zero.
Truncated(halves) == IF halves >= 0 THEN halves \div 2 ELSE -((-halves) \div 2)
CastTo(v, low, high) ==
  LET n == Truncated(v.n) IN IF Within(n, low, high) THEN Gives(n) ELSE Undefined

Taken(v, is, fits, cast) ==
  CASE v.type \in {"int", "uint"} -> IF is THEN Gives(v.n) ELSE Throws
    [] v.type = "real" -> IF fits THEN cast ELSE Throws
    [] v.type \in {"null", "bool"} -> Gives(v.n)
    [] OTHER -> Throws

AsInt(v) == Taken(v, IsInt(v), InRange(v, MinInt, MaxInt), CastTo(v, MinInt, MaxInt))
AsUInt(v) == Taken(v, IsUInt(v), InRange(v, 0, MaxUInt), CastTo(v, 0, MaxUInt))

\* The bound is rounded up here as well, and a real may equal it.
AsInt64(v) == Taken(v, IsInt64(v), InRange(v, MinInt64, MaxLargestInt + 1), CastTo(v, MinInt64, MaxLargestInt))
AsUInt64(v) == Taken(v, IsUInt64(v), InRange(v, 0, MaxUInt64 + 1), CastTo(v, 0, MaxUInt64))

\* In halves.
AsDouble(v) ==
  CASE v.type = "real" -> Gives(v.n)
    [] v.type \in {"int", "uint", "null", "bool"} -> Gives(2 * v.n)
    [] OTHER -> Throws

AsBool(v) == IF v.type = "string" THEN Throws ELSE Gives(IF v.n = 0 THEN 0 ELSE 1)

\* Simple values can all be made strings.
IsConvertibleTo(v, type) ==
  CASE type = "null" -> v.type = "null" \/ v.n = 0
    [] type = "int" -> IsInt(v) \/ (v.type = "real" /\ InRange(v, MinInt, MaxInt)) \/ v.type \in {"bool", "null"}
    [] type = "uint" -> IsUInt(v) \/ (v.type = "real" /\ InRange(v, 0, MaxUInt)) \/ v.type \in {"bool", "null"}
    [] type \in {"real", "bool"} -> IsNumeric(v) \/ v.type \in {"bool", "null"}
    [] type = "string" -> TRUE
    [] OTHER -> v.type = "null"

-----------------------------------------------------------------------------
(* operator< and operator== of values: a container has as its n the        *)
(* sequence of its entries, sorted by key; a key is an index or, in an     *)
(* object, a sequence of characters, as a string is.                       *)

TypeRank == [null |-> 0, int |-> 1, uint |-> 2, real |-> 3, string |-> 4, bool |-> 5, array |-> 6, object |-> 7]

Common(s, t) == {i \in DOMAIN s \cap DOMAIN t : s[i] # t[i]}
FirstOf(S) == CHOOSE i \in S : \A j \in S : i <= j

\* memcmp of the shorter length, then the lengths.
StringLess(s, t) ==
  IF Common(s, t) = {} THEN Len(s) < Len(t)
  ELSE s[FirstOf(Common(s, t))] < t[FirstOf(Common(s, t))]

RECURSIVE Less(_, _), EntriesLess(_, _)

Index(i) == [named |-> FALSE, index |-> i, name |-> <<>>]
Name(s) == [named |-> TRUE, index |-> 0, name |-> s]
KeyLess(k, l) == IF k.named THEN StringLess(k.name, l.name) ELSE k.index < l.index

\* Maps are compared entry by entry, and a pair by its halves in turn.
EntriesLess(s, t) ==
  IF s = <<>> \/ t = <<>> THEN s = <<>> /\ t # <<>>
  ELSE LET k == s[1].key
           l == t[1].key
           u == s[1].value
           v == t[1].value
       IN IF KeyLess(k, l) \/ (~KeyLess(l, k) /\ Less(u, v)) THEN TRUE
          ELSE IF KeyLess(l, k) \/ Less(v, u) THEN FALSE
          ELSE EntriesLess(Tail(s), Tail(t))

Less(u, v) ==
  IF u.type # v.type THEN TypeRank[u.type] < TypeRank[v.type]
  ELSE CASE u.type = "string" -> StringLess(u.n, v.n)
         [] u.type \in {"array", "object"} -> IF Len(u.n) # Len(v.n) THEN Len(u.n) < Len(v.n) ELSE EntriesLess(u.n, v.n)
         [] OTHER -> u.n < v.n

RECURSIVE Equal(_, _)
Equal(u, v) ==
  /\ u.type = v.type
  /\ IF u.type \notin {"array", "object"} THEN u.n = v.n
     ELSE Len(u.n) = Len(v.n) /\ \A i \in DOMAIN u.n : u.n[i].key = v.n[i].key /\ Equal(u.n[i].value, v.n[i].value)

\* compare.
Compare(u, v) == IF Less(u, v) THEN -1 ELSE IF Less(v, u) THEN 1 ELSE 0
==============================================================================
