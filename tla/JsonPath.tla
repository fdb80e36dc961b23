-------------------------------- MODULE JsonPath --------------------------------
(***************************************************************************)
(* Json::Path: a way into a value, written as in ".settings[2].%", where   *)
(* each % stands for the next argument.  A text is a sequence of           *)
(* one-character strings.                                                  *)
(***************************************************************************)
EXTENDS Naturals, Sequences

\* An argument or a step of the way.
Step(kind, index, name) == [kind |-> kind, index |-> index, name |-> name]
ToIndex(i) == Step("index", i, <<>>)
ToKey(name) == Step("key", 0, name)

PathDigits == <<"0", "1", "2">>
DigitValue(c) == (CHOOSE d \in DOMAIN PathDigits : PathDigits[d] = c) - 1
IsPathDigit(c) == \E d \in DOMAIN PathDigits : PathDigits[d] = c

PathChar(s, i) == IF i <= Len(s) THEN s[i] ELSE ""

RECURSIVE MakePath(_, _, _), PathIndex(_, _, _)

\* The digits from i: their value and where they end.
PathIndex(s, i, n) ==
  IF IsPathDigit(PathChar(s, i)) THEN PathIndex(s, i + 1, n * 10 + DigitValue(s[i])) ELSE [n |-> n, at |-> i]

\* addPathInArg: the argument, if it is of the kind that is called for, and
\* what is left of the arguments.
AddPathInArg(in, kind) ==
  IF in # <<>> /\ Head(in).kind = kind THEN [steps |-> <<Head(in)>>, in |-> Tail(in)] ELSE [steps |-> <<>>, in |-> in]

\* makePath from the i-th character.  An error is not reported; where a closing
\* bracket should be, any character is passed over.
MakePath(s, i, in) ==
  LET c == PathChar(s, i)
      number == PathIndex(s, i + 1, 0)
      index == AddPathInArg(in, "index")
      key == AddPathInArg(in, "key")
      end == CHOOSE e \in i .. Len(s) + 1 :
               PathChar(s, e) \in {"", "[", "."} /\ \A k \in i .. e - 1 : s[k] \notin {"[", "."}
  IN CASE c = "" -> <<>>
       [] c = "[" /\ PathChar(s, i + 1) = "%" -> index.steps \o MakePath(s, i + 2, index.in)
       [] c = "[" /\ PathChar(s, i + 1) # "%" -> <<ToIndex(number.n)>> \o MakePath(s, number.at + 1, in)
       [] c = "%" -> key.steps \o MakePath(s, i + 1, key.in)
       [] c \in {".", "]"} -> MakePath(s, i + 1, in)
       [] OTHER -> <<ToKey(SubSeq(s, i, end - 1))>> \o MakePath(s, end, in)

-----------------------------------------------------------------------------
(* Values: a scalar, or an array or object as the map of its entries.      *)

Node(type, map) == [type |-> type, map |-> map]
NullNode == Node("null", <<>>)

Container(step) == IF step.kind = "index" THEN "array" ELSE "object"
InsideArray(v, i) == \E step \in DOMAIN v.map : step.kind = "index" /\ i <= step.index

\* resolve: what is found, if anything is; a hole in an array reads as null.
RECURSIVE Resolve(_, _, _)
Resolve(v, steps, default) ==
  IF steps = <<>> THEN v
  ELSE LET step == Head(steps)
           there == step \in DOMAIN v.map
       IN IF v.type # Container(step) \/ (~there /\ (step.kind = "key" \/ ~InsideArray(v, step.index))) THEN default
          ELSE Resolve(IF there THEN v.map[step] ELSE NullNode, Tail(steps), default)

Made(ok, value) == [ok |-> ok, value |-> value]
WithEntry(v, step, child) ==
  Node(Container(step), [k \in DOMAIN v.map \cup {step} |-> IF k = step THEN child ELSE v.map[k]])

\* Mutant: an entry that is there is made anew.
RECURSIVE MakeAndSet(_, _, _)
MakeAndSetAnew(v, steps, x) ==
  IF steps = <<>> THEN Made(TRUE, x)
  ELSE IF v.type \notin {"null", Container(Head(steps))} THEN Made(FALSE, v)
  ELSE LET r == MakeAndSet(NullNode, Tail(steps), x) IN Made(r.ok, WithEntry(v, Head(steps), r.value))

\* make, and an assignment to what it returns.  If a value on the way is of
\* another type, it throws and leaves what it has made so far.
MakeAndSet(v, steps, x) ==
  IF steps = <<>> THEN Made(TRUE, x)
  ELSE IF v.type \notin {"null", Container(Head(steps))} THEN Made(FALSE, v)
  ELSE LET step == Head(steps)
           r == MakeAndSet(IF step \in DOMAIN v.map THEN v.map[step] ELSE NullNode, Tail(steps), x)
       IN Made(r.ok, WithEntry(v, step, r.value))
==============================================================================
