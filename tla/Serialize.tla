----------------------------- MODULE Serialize -----------------------------
(***************************************************************************)
(* The class of house/serialize.h: an array of elements, to be sent as     *)
(* bytes, and a table of the place each kind of element has in it.  Places *)
(* are given out in the order in which kinds come.  An object made from    *)
(* bytes has the array of the sender and numbers its table from it.        *)
(***************************************************************************)
EXTENDS Integers, Sequences

CONSTANTS
  Kinds,         \* ElementKind_Type
  Values,        \* the payloads of an element
  ElementCount,  \* the elements an object has room for
  NoKind,        \* ElementKind__Count, the elementID of a new Element_Type
  Missing        \* the payload of a new Element_Type

ASSUME ConstantsAssumption ==
  ElementCount \in Nat /\ NoKind \notin Kinds /\ Missing \notin Values

Elements   == [elementID : Kinds \cup {NoKind}, data : Values \cup {Missing}]
NewElement == [elementID |-> NoKind, data |-> Missing]

\* Place p of the array is elementArray[p + 1].
Objects == [elementArray    : [1..ElementCount -> Elements],
            elementTable    : [Kinds -> Nat \cup {-1}],
            nextFreeElement : Nat]

\* An object of this array with nothing in its table.
Unnumbered(array) ==
  [elementArray |-> array, elementTable |-> [k \in Kinds |-> -1], nextFreeElement |-> 0]

\* Serialize(int elements)
NewObject == Unnumbered([p \in 1..ElementCount |-> NewElement])

InArray(place) == 0 <= place /\ place < ElementCount

\* Mutant of Numbered: a kind that has a place gets another one.
NumberedAgain(o, k) ==
  [o EXCEPT !.elementTable[k] = o.nextFreeElement, !.nextFreeElement = @ + 1]

\* Kind k gets the next number, unless it has one; a number beyond the array
\* is used up all the same.
Numbered(o, k) ==
  IF o.elementTable[k] # -1 THEN o ELSE
    [o EXCEPT !.elementTable[k] = o.nextFreeElement, !.nextFreeElement = @ + 1]

\* buildElement, where an element's description is left out.
Element(k, v) == [elementID |-> k, data |-> v]

\* setElement
WithElement(o, k, v) ==
  LET n     == Numbered(o, k)
      place == n.elementTable[k]
  IN IF InArray(place)
       THEN [n EXCEPT !.elementArray[place + 1] = Element(k, v)]
       ELSE n

GetElement(o, k) ==
  IF InArray(o.elementTable[k]) THEN o.elementArray[o.elementTable[k] + 1] ELSE NewElement

\* returnBuffer, into a buffer of structureSize() bytes.
Bytes(o) == o.elementArray

\* Mutant of LoadedElement: places are counted from 1.
LoadedFromOne(o, p) ==
  LET k == o.elementArray[p].elementID
  IN IF k = NoKind THEN o ELSE [o EXCEPT !.elementTable[k] = p]

(***************************************************************************)
(* Serialize(unsigned char* data, int dataSize), at place p of the array:  *)
(* its kind gets a number.  NoKind is not an index of elementTable; what   *)
(* the build has there is nextFreeElement, which is not -1, so that an     *)
(* empty place gets none.                                                  *)
(***************************************************************************)
LoadedElement(o, p) ==
  LET k == o.elementArray[p].elementID
  IN IF k = NoKind THEN o ELSE Numbered(o, k)
=============================================================================
