----------------------------- MODULE JsonContainer -----------------------------
(***************************************************************************)
(* What a Json::Value that is no scalar is to its users: a sequence or a   *)
(* function, whichever it is first used as.                                *)
(***************************************************************************)
EXTENDS Integers, Sequences, FiniteSets, SequencesExt

CONSTANTS Scalars, Names, MaxSize

Null == "null"

VARIABLES
  asked,     \* the last call and its argument
  returned,  \* how it ended
  type, elements, members,
  other      \* the Value that is assigned or taken out

vars == <<asked, returned, type, elements, members, other>>

Init ==
  /\ asked = <<"new", 0>> /\ returned = "ok"
  /\ type = Null /\ elements = <<>> /\ members = <<>>

Calls(name, argument) == asked' = <<name, argument>>
Refuses(how) == returned' = how /\ UNCHANGED <<type, elements, members, other>>

Padded(n) == [i \in 1 .. n |-> IF i <= Len(elements) THEN elements[i] ELSE Null]

\* An element or a member is exchanged with other; both begin as null.
SetAt(i) ==
  LET n == IF i < Len(elements) THEN Len(elements) ELSE i + 1 IN
  /\ Calls("set", i)
  /\ IF type = "object" THEN Refuses("throws")
     ELSE /\ type' = "array" /\ returned' = "ok"
          /\ elements' = [Padded(n) EXCEPT ![i + 1] = other] /\ other' = Padded(n)[i + 1]
          /\ UNCHANGED members

SetMember(n) ==
  /\ Calls("setMember", n)
  /\ IF type = "array" THEN Refuses("throws")
     ELSE /\ type' = "object" /\ returned' = "ok"
          /\ members' = [m \in DOMAIN members \cup {n} |-> IF m = n THEN other ELSE members[m]]
          /\ other' = IF n \in DOMAIN members THEN members[n] ELSE Null
          /\ UNCHANGED elements

\* A cut may take the nulls before it as well, and says so.
Resize(n) ==
  /\ Calls("resize", n)
  /\ IF type = "object" THEN Refuses("throws")
     ELSE /\ type' = "array"
          /\ \/ elements' = Padded(n) /\ returned' = "ok"
             \/ /\ n < Len(elements) /\ returned' = "throws"
                /\ \E m \in 0 .. n - 1 : elements' = Padded(m) /\ \A i \in m + 1 .. n : elements[i] = Null
          /\ UNCHANGED <<members, other>>

Clear ==
  /\ Calls("clear", 0)
  /\ elements' = <<>> /\ members' = <<>> /\ returned' = "ok" /\ UNCHANGED <<type, other>>

\* A null may stay where it is; the removal of the last element may take the
\* nulls before it as well.
RemoveIndex(i) ==
  /\ Calls("remove", i)
  /\ \/ i >= Len(elements) /\ Refuses("false")
     \/ i < Len(elements) /\ elements[i + 1] = Null /\ Refuses("false")
     \/ /\ i < Len(elements) /\ returned' = "ok" /\ other' = elements[i + 1]
        /\ \/ elements' = RemoveAt(elements, i + 1)
           \/ /\ i = Len(elements) - 1
              /\ \E m \in 0 .. i - 1 : elements' = Padded(m) /\ \A k \in m + 1 .. i : elements[k] = Null
        /\ UNCHANGED <<type, members>>

RemoveMember(n) ==
  /\ Calls("removeMember", n)
  /\ IF n \notin DOMAIN members THEN Refuses("false")
     ELSE /\ members' = [k \in DOMAIN members \ {n} |-> members[k]] /\ other' = members[n]
          /\ returned' = "ok" /\ UNCHANGED <<type, elements>>

\* A null member or no member: null is what is taken.
TakeMember(n) ==
  /\ Calls("takeMember", n)
  /\ IF type = "array" THEN Refuses("throws")
     ELSE /\ members' = [k \in DOMAIN members \ {n} |-> members[k]]
          /\ other' = IF n \in DOMAIN members THEN members[n] ELSE Null
          /\ returned' = "ok" /\ UNCHANGED <<type, elements>>

\* What is looked at is taken by the caller.
Gets(value) == returned' = "ok" /\ other' = value /\ UNCHANGED <<type, elements, members>>
Says(answer) == Refuses(IF answer THEN "ok" ELSE "false")

ReadAt(i) ==
  /\ Calls("read", i)
  /\ IF type = "object" THEN Refuses("throws")
     ELSE Gets(IF i < Len(elements) THEN elements[i + 1] ELSE Null)
ReadMember(n) ==
  /\ Calls("readMember", n)
  /\ IF type = "array" THEN Refuses("throws") ELSE Gets(IF n \in DOMAIN members THEN members[n] ELSE Null)

\* A null element may be taken for none.
GetAt(i) ==
  /\ Calls("get", i)
  /\ IF type = "object" THEN Refuses("throws")
     ELSE \/ i < Len(elements) /\ Gets(elements[i + 1])
          \/ (i < Len(elements) => elements[i + 1] = Null) /\ Gets(other)
GetMember(n) ==
  /\ Calls("getMember", n)
  /\ IF type = "array" THEN Refuses("throws") ELSE Gets(IF n \in DOMAIN members THEN members[n] ELSE other)

\* An index is valid in an object as well, below the number of its members.
IsValidIndex(i) == Calls("isValidIndex", i) /\ Says(i < Len(elements) + Cardinality(DOMAIN members))
IsMember(n) == Calls("isMember", n) /\ IF type = "array" THEN Refuses("throws") ELSE Says(n \in DOMAIN members)
IsEmpty == Calls("empty", 0) /\ Says(elements = <<>> /\ DOMAIN members = {})

\* An iterator passes all elements that are not null, and some that are.
Visit(i) ==
  /\ i < Len(elements)
  /\ \E d \in Cardinality({k \in 1 .. i : elements[k] # Null}) .. i : Calls("visit", <<i, d>>)
  /\ Gets(elements[i + 1])
VisitMember(n) == n \in DOMAIN members /\ Calls("visitMember", n) /\ Gets(members[n])

Give == other' \in Scalars /\ UNCHANGED <<asked, returned, type, elements, members>>

Next ==
  \/ \E i \in 0 .. MaxSize - 1 : SetAt(i) \/ RemoveIndex(i) \/ ReadAt(i) \/ GetAt(i) \/ IsValidIndex(i) \/ Visit(i)
  \/ \E n \in Names :
       \/ SetMember(n) \/ RemoveMember(n) \/ TakeMember(n)
       \/ ReadMember(n) \/ GetMember(n) \/ IsMember(n) \/ VisitMember(n)
  \/ \E n \in 0 .. MaxSize : Resize(n)
  \/ Clear \/ IsEmpty \/ Give

Spec == Init /\ [][Next]_vars
==============================================================================
