----------------------------- MODULE ElementMap -----------------------------
(***************************************************************************)
(* What the class Serialize promises: it keeps the last value put in for   *)
(* each kind of element, as long as there is room for another kind; and    *)
(* making bytes of it and an object of the bytes changes nothing.          *)
(***************************************************************************)
EXTENDS Integers

CONSTANTS Kinds, Values, ElementCount, Missing

VARIABLES elements, room   \* the value of each kind; the free places

Init == elements = [k \in Kinds |-> Missing] /\ room = ElementCount

\* A kind that has no place yet takes one; when there is none it is left out.
Put(k, v) ==
  LET known == elements[k] # Missing IN
  /\ known \/ room > 0
  /\ elements' = [elements EXCEPT ![k] = v]
  /\ room' = IF known THEN room ELSE room - 1

Next == \E k \in Kinds, v \in Values : Put(k, v)

Spec == Init /\ [][Next]_<<elements, room>>
=============================================================================
