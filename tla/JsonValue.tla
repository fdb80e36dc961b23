------------------------------- MODULE JsonValue -------------------------------
(***************************************************************************)
(* A Json::Value that is null, an array or an object, under the calls that *)
(* change it.  An array is a map from indices to elements with holes,      *)
(* which read as null.  Assignment exchanges its two sides.                *)
(***************************************************************************)
EXTENDS Integers, FiniteSets, FiniteSetsExt

CONSTANTS
  Scalars,   \* values that have no elements, null left out
  Names,     \* the names of members
  MaxSize    \* bound on the size of the array

ASSUME MaxSizeAssumption == MaxSize \in Nat

Null == "null"
Nothing == [x \in {} |-> Null]   \* the empty map

VARIABLES
  asked,    \* the last call and its argument
  returned, \* how it ended: "ok", "false" or "throws"
  type,     \* of the value: "null", "array" or "object"
  map,      \* its elements or members, those that are there
  other     \* the Value it is assigned from, or an element is taken out to

valueVars == <<asked, returned, type, map, other>>

ValueInit == asked = <<"new", 0>> /\ returned = "ok" /\ type = Null /\ map = Nothing /\ other \in Scalars

Calls(name, argument) == asked' = <<name, argument>>
Refuses(how) == returned' = how /\ UNCHANGED <<type, map, other>>
Is(t) == type \in {Null, t}

\* Mutant: the size of an array is the number of its elements.
SizeCounted == Cardinality(DOMAIN map)

\* size: of an array one more than the last index.
Size == IF type # "array" \/ DOMAIN map = {} THEN Cardinality(DOMAIN map) ELSE Max(DOMAIN map) + 1

With(m, k) == [j \in DOMAIN m \cup {k} |-> IF j \in DOMAIN m THEN m[j] ELSE Null]

\* value[k] = other, where operator[] or resolveReference makes k.
Assign(t, k) ==
  IF ~Is(t) THEN Refuses("throws")
  ELSE /\ type' = t /\ returned' = "ok"
       /\ map' = [With(map, k) EXCEPT ![k] = other]
       /\ other' = With(map, k)[k]

SetAt(i) == Calls("set", i) /\ Assign("array", i)
SetMember(n) == Calls("setMember", n) /\ Assign("object", n)
AppendOther == Size < MaxSize /\ SetAt(Size)

Clear == Calls("clear", 0) /\ map' = Nothing /\ returned' = "ok" /\ UNCHANGED <<type, other>>

\* Enlarging makes the last of the new elements only; after a cut the assertion
\* on the size fails if there is a hole before it.
Resize(n) ==
  /\ Calls("resize", n)
  /\ IF ~Is("array") THEN Refuses("throws")
     ELSE LET resized == IF n > Size THEN With(map, n - 1) ELSE [k \in DOMAIN map \cap 0 .. n - 1 |-> map[k]] IN
          /\ type' = "array" /\ map' = resized
          /\ returned' = IF n = 0 \/ n - 1 \in DOMAIN resized THEN "ok" ELSE "throws"
          /\ UNCHANGED other

\* The removed element is exchanged with what removed pointed to, and that
\* goes to the end, one exchange after the other; holes on its way are filled.
RemoveIndex(i) ==
  /\ Calls("remove", i)
  /\ IF type # "array" \/ i \notin DOMAIN map THEN Refuses("false")
     ELSE /\ returned' = "ok" /\ other' = map[i]
          /\ map' = [k \in (DOMAIN map \cup i .. Size - 1) \ {Size - 1} |->
                       IF k < i THEN map[k] ELSE With(map, k + 1)[k + 1]]
          /\ UNCHANGED type

\* removeMember with a place for the removed member.
RemoveMember(n) ==
  /\ Calls("removeMember", n)
  /\ IF type # "object" \/ n \notin DOMAIN map THEN Refuses("false")
     ELSE /\ returned' = "ok" /\ other' = map[n]
          /\ map' = [k \in DOMAIN map \ {n} |-> map[k]]
          /\ UNCHANGED type

\* removeMember that returns the member, or null.
TakeMember(n) ==
  /\ Calls("takeMember", n)
  /\ IF ~Is("object") THEN Refuses("throws")
     ELSE /\ returned' = "ok" /\ other' = IF n \in DOMAIN map THEN map[n] ELSE Null
          /\ map' = [k \in DOMAIN map \ {n} |-> map[k]]
          /\ UNCHANGED type

-----------------------------------------------------------------------------
(* Calls that only look, at a const Value.  The caller copies what he gets. *)

Gets(value) == returned' = "ok" /\ other' = value /\ UNCHANGED <<type, map>>

\* operator[] and find: what is not there is null.
Read(name, t, k) ==
  /\ Calls(name, k)
  /\ IF Is(t) THEN Gets(With(map, k)[k]) ELSE Refuses("throws")
ReadAt(i) == Read("read", "array", i)
ReadMember(n) == Read("readMember", "object", n)

\* get, with other as the default value.
GetOr(name, t, k) ==
  /\ Calls(name, k)
  /\ IF Is(t) THEN Gets(IF k \in DOMAIN map THEN map[k] ELSE other) ELSE Refuses("throws")
GetAt(i) == GetOr("get", "array", i)
GetMember(n) == GetOr("getMember", "object", n)

Says(answer) == Refuses(IF answer THEN "ok" ELSE "false")

\* isValidIndex asks any value, isMember no array.
IsValidIndex(i) == Calls("isValidIndex", i) /\ Says(i < Size)
IsMember(n) == Calls("isMember", n) /\ IF Is("object") THEN Says(n \in DOMAIN map) ELSE Refuses("throws")
IsEmpty == Calls("empty", 0) /\ Says(Size = 0)

\* An iterator is moved on from begin until d entries are behind it, which is
\* what computeDistance says; its index and its value are asked.
Visit(i) ==
  /\ type = "array" /\ i \in DOMAIN map
  /\ LET d == Cardinality({k \in DOMAIN map : k < i}) IN Calls("visit", <<i, d>>) /\ Gets(map[i])
\* name of an iterator, once for each member.
VisitMember(n) == type = "object" /\ n \in DOMAIN map /\ Calls("visitMember", n) /\ Gets(map[n])

\* The caller has another value in its hand.
Give == other' \in Scalars /\ UNCHANGED <<asked, returned, type, map>>

ValueNext ==
  \/ \E i \in 0 .. MaxSize - 1 : SetAt(i) \/ RemoveIndex(i) \/ ReadAt(i) \/ GetAt(i) \/ IsValidIndex(i) \/ Visit(i)
  \/ \E n \in Names :
       \/ SetMember(n) \/ RemoveMember(n) \/ TakeMember(n)
       \/ ReadMember(n) \/ GetMember(n) \/ IsMember(n) \/ VisitMember(n)
  \/ \E n \in 0 .. MaxSize : Resize(n)
  \/ AppendOther \/ Clear \/ IsEmpty \/ Give

ValueSpec == ValueInit /\ [][ValueNext]_valueVars

-----------------------------------------------------------------------------
(* What it implements. *)

SequenceOf == [i \in 1 .. (IF type = "array" THEN Size ELSE 0) |-> With(map, i - 1)[i - 1]]
MembersOf == IF type = "object" THEN map ELSE Nothing

JC == INSTANCE JsonContainer WITH elements <- SequenceOf, members <- MembersOf

\* A value that is an array with holes, whose assignments exchange their two
\* sides, is to its users a sequence or a set of members; removals and cuts
\* may only take nulls besides.
ValueIsContainer == JC!Spec
==============================================================================
